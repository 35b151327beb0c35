--------------------------- MODULE MCBuddySystem ----------------------------
EXTENDS BuddySystem

\* Requests of 1 and 12 cells need blocks of power 2 and 4 (a 3-cell free
\* header is added): the first request splits the 32-cell arena into
\* blocks of 4, 4, 8 and 16, among which the fit modes disagree.
MCRequests == {<<1, 1>>, <<6, 2>>}
=============================================================================
