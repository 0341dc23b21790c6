----------------------------- MODULE ClosingDay -----------------------------
(***************************************************************************)
(* What estado.json promises of the working day (decisions D-006, D-036):   *)
(* days only advance, a day closes at most once and never once skipped, and *)
(* neither a closing nor a skip is ever taken back.                        *)
(***************************************************************************)
EXTENDS Naturals

CONSTANT None

VARIABLE record

Init == record = None

\* The first record of the installation may already carry a closing or a skip.
First == /\ record = None
         /\ record' \in [day : Nat, closed : BOOLEAN, skipped : BOOLEAN]
         /\ ~(record'.closed /\ record'.skipped)

NewDay == /\ record # None
          /\ record' \in [day : Nat, closed : {FALSE}, skipped : BOOLEAN]
          /\ record'.day > record.day

Close == /\ record # None
         /\ ~record.closed /\ ~record.skipped
         /\ record' = [record EXCEPT !.closed = TRUE]

Skip == /\ record # None
        /\ record' = [record EXCEPT !.skipped = TRUE]

Next == First \/ NewDay \/ Close \/ Skip

Spec == Init /\ [][Next]_record
=============================================================================
