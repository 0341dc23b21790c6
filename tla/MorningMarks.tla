---------------------------- MODULE MorningMarks ----------------------------
(***************************************************************************)
(* What the record of resumed sessions promises (decision D-002, applied to *)
(* the morning: the fact first, then its mark): only a session that was      *)
(* launched, and did not fail to start as far as its run waited for it, is   *)
(* marked, for the day of its plan, and a mark stays.                        *)
(***************************************************************************)
EXTENDS Naturals

CONSTANTS Session, MaxDay

VARIABLES
  launched, \* by day, the sessions that were
  marked    \* by day, the sessions on record

Init == launched = [d \in 1 .. MaxDay |-> {}] /\ marked = launched

Launch(d, s) == launched' = [launched EXCEPT ![d] = @ \cup {s}] /\ UNCHANGED marked

Mark(d, s) ==
  /\ s \in launched[d]
  /\ marked' = [marked EXCEPT ![d] = @ \cup {s}]
  /\ UNCHANGED launched

Next == \E d \in 1 .. MaxDay, s \in Session : Launch(d, s) \/ Mark(d, s)

Spec == Init /\ [][Next]_<<launched, marked>>
=============================================================================
