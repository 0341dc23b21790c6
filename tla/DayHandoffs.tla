---------------------------- MODULE DayHandoffs ----------------------------
(***************************************************************************)
(* What a day's folder promises of each session (decisions D-002, D-026,    *)
(* task S4-T00e): a handoff, once there, stays; it never describes an older *)
(* state of the session than before; and what the model wrote of a state is *)
(* not written again for that same state.                                  *)
(***************************************************************************)
EXTENDS Naturals

CONSTANTS Session, None

VARIABLE handoffs

Source  == {"model", "deterministic"}
Handoff == [evidence : Nat, source : Source]

Init == handoffs = [s \in Session |-> None]

Supersedes(new, old) ==
  \/ new.evidence > old.evidence
  \/ new.evidence = old.evidence /\ old.source # "model"

\* A capture of session s.
Capture(s) ==
  /\ handoffs'[s] \in Handoff
  /\ handoffs[s] # None => Supersedes(handoffs'[s], handoffs[s])
  /\ \A other \in Session \ {s} : handoffs'[other] = handoffs[other]

Next == \E s \in Session : Capture(s)

Spec == Init /\ [][Next]_handoffs
=============================================================================
