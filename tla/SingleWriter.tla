---------------------------- MODULE SingleWriter ----------------------------
(***************************************************************************)
(* What decision D-047 promises of a project: one session writes it at a    *)
(* time.  Who holds it commits; when nobody does, anybody may.             *)
(***************************************************************************)
CONSTANTS Op, None

VARIABLES writer, log, author

Init == writer = None

Take  == writer = None /\ writer' \in Op /\ UNCHANGED <<log, author>>
Leave == writer' = None /\ UNCHANGED <<log, author>>

\* A commit, which may be the last thing the writer does.
Commit ==
  /\ writer \in {None, author'}
  /\ writer' \in {writer, None}

Next == Take \/ Leave \/ Commit

Spec == Init /\ [][Next]_<<writer, log, author>>
=============================================================================
