------------------------------ MODULE MCAdoption ------------------------------
(* Instances of Adoption for TLC: two adoptions of two sessions into two    *)
(* projects, and two reverts or removals.                                   *)
EXTENDS Adoption, TLC

CONSTANTS s1, s2, p1, p2, a1, a2, u1, u2

Symmetry == Permutations({s1, s2}) \cup Permutations({p1, p2}) \cup Permutations({a1, a2}) \cup Permutations({u1, u2})
=============================================================================
