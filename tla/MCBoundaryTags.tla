--------------------------- MODULE MCBoundaryTags ---------------------------
EXTENDS BoundaryTags

\* value_size * values_count of 1 and 2 cells: with a 4-cell header, three
\* blocks of 5, 5 and 6 cells fill a 16-cell arena, so releasing two of them
\* leaves gaps of different sizes and the three fit modes disagree.
MCRequests == {<<1, 1>>, <<2, 1>>}

\* A zero-size request: its block is a bare header and can end the arena.
MCRequestsZero == {<<0, 1>>, <<6, 1>>}
=============================================================================
