---------------------------- MODULE MCDaemonLock ----------------------------
(* Instances of DaemonLock for TLC: three workers, of which the first two   *)
(* get the same pid one after the other, and a foreign process that may     *)
(* get it as well.                                                          *)
EXTENDS DaemonLock, TLC

CONSTANTS w1, w2, w3, f1, s1, s2

MCPidOf == [p \in {w1, w2, w3, f1} |-> IF p = w3 THEN 2 ELSE 1]
=============================================================================
