---------------------------- MODULE MCContainers ----------------------------
EXTENDS Containers, TLC

CONSTANTS l1, l2, i1, i2, i3, i4

\* No value of the specification tells a list or an item from another one.
Symmetry == Permutations({l1, l2}) \cup Permutations({i1, i2, i3, i4})
=============================================================================
