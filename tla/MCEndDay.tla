------------------------------ MODULE MCEndDay ------------------------------
(* Instances of EndDay for TLC: two sessions, forks of every age. *)
EXTENDS EndDay

CONSTANTS s1, s2, r1

\* On the third day, with forks kept for one: one stale fork, one a day old and
\* one of unknown age.
ForksOfEveryAge == {[id |-> 0, createdAt |-> 0], [id |-> 0 - 1, createdAt |-> 1],
                    [id |-> 0 - 2, createdAt |-> None]}
NoForks == {}
=============================================================================
