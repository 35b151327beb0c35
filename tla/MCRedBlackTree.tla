--------------------------- MODULE MCRedBlackTree ---------------------------
EXTENDS RedBlackTree

\* Requests of 1 and 3 cells: with OccMeta 1 and AvailMeta 2 they take 2 and
\* 4 cells.  An 8-cell arena (MCRedBlackTree.cfg) splits into up to four
\* blocks, enough to fill it, to free a block between two free ones and to
\* run every fit policy over a tree of three; a 12-cell arena (the other
\* cfgs) holds six blocks, enough for a delete of a node with two children.
MCRequests == {<<1, 1>>, <<3, 1>>}

\* Longer than any walk over the at most six blocks of the arena.
MCFuel == 8

=============================================================================
