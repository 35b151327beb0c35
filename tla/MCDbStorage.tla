------------------------------ MODULE MCDbStorage -----------------------------
EXTENDS DbStorage

\* One pool with one schema of two collections, two keys: a collection is
\* added in front of another that holds records, disposed in front of
\* another, and the schema's node freed and made again.
MCColls == {1, 2}
MCKeys == {1, 2}
MCIds == {0, 1}
MCModes == {"uninitialized", "in_memory_cache"}

\* size_t is 64 bits wide; TLC's integers are not, and what matters is
\* where a decrement below 0 lands: the greatest count.
MCCntMod == 2^16

\* What a slot may hold before a collection is moved into it: zero, or
\* the count some earlier pair left there.
MCUninitCnt == {0, 2}

\* Slots that always hold 0 before a pair is moved in, as zeroed memory
\* would: the counts still go wrong, by the swaps alone.
MCUninitZero == {0}

=============================================================================
