----------------------------- MODULE MCDiskStore -----------------------------
EXTENDS DiskStore, TLC
CONSTANTS p1, p2, v1, v2, u1, t1

Symmetry == Permutations({p1, p2}) \cup Permutations({v1, v2})
=============================================================================
