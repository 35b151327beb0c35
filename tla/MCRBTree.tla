------------------------------ MODULE MCRBTree ------------------------------
EXTENDS RBTree

\* Six blocks: enough for a rotation at the root with grandchildren below
\* it, a red uncle whose recolouring climbs two levels, and a delete of a
\* node with two children whose predecessor is not its own child.
MCKeys == 1..6

\* Longer than any root-to-leaf walk over six blocks.
MCFuel == 8

=============================================================================
