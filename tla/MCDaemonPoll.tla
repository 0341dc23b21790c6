---------------------------- MODULE MCDaemonPoll ----------------------------
(* Instances of DaemonPoll for TLC: days of a few units, one or two requests. *)
EXTENDS DaemonPoll, TLC

CONSTANTS a1, a2, s1, s2

AnyAdjuster == Permutations(Adjuster)
=============================================================================
