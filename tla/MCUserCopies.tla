--------------------------- MODULE MCUserCopies ---------------------------
\* Values for module UserCopies: every int of a machine with Word addresses,
\* and a memory whose bytes are all different.
EXTENDS UserCopies

Ints     == -2 .. Word \div 2 - 1
Distinct == [a \in Cells |-> a + 100]
===========================================================================
