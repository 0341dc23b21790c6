---------------------------- MODULE SingleDaemon ----------------------------
(***************************************************************************)
(* What decision D-005 promises of the daemon: a single instance.  One     *)
(* worker at a time is the daemon that polls; it may stop being it at any  *)
(* moment (a stop, a signal, a crash), and only then may another take its  *)
(* place.                                                                  *)
(***************************************************************************)
CONSTANTS Worker, \* the worker processes that may ever become the daemon
          None    \* no daemon is running

VARIABLE daemon

TypeOK == daemon \in Worker \cup {None}

Init == daemon = None

Take(w) == /\ daemon = None
           /\ daemon' = w

Leave == /\ daemon # None
         /\ daemon' = None

Next == Leave \/ \E w \in Worker : Take(w)

Spec == Init /\ [][Next]_daemon
=============================================================================
