---------------------------- MODULE MCStateStore ----------------------------
(* Small instances of StateStore for TLC.                                  *)
EXTENDS StateStore, TLC
CONSTANTS p1, p2, a, b, i1, i2, i3
Symmetric == Permutations({p1, p2}) \cup Permutations({a, b})
             \cup Permutations({i1, i2, i3})
=============================================================================
