------------------------------- MODULE MCBTree ------------------------------
EXTENDS BTree

\* Eight keys with t = 2: the tree reaches height three (seven keys suffice),
\* a dispose merges two children of a full parent (a full root over four
\* one-pair leaves), and a leaf borrows from either sibling.  A borrow
\* between inner nodes needs nine keys, beyond the run's time budget.
MCKeys == 1..8

\* Bounds below the keys, on a key and above the keys.
MCBounds == {0, 4, 9}

\* Eight pairs never need more than eight nodes, so create_node never fails.
MCNodes == 1..8

\* Two nodes: the split of a full root leaf takes the second, and the new
\* root that must hold the median finds none left.
MCNodesTight == 1..2

=============================================================================
