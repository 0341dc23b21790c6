-------------------------- MODULE SessionAdoptions --------------------------
(***************************************************************************)
(* What adopting a session promises (decisions D-012 and D-047, item 6):    *)
(* a session is adopted once at a time, by a copy that has committed work,  *)
(* or came to its commit with nothing left to commit, and the copy is from  *)
(* then on nobody's throw-away fork; it is released only when that work is  *)
(* gone; and no copy is deleted while a project has its work.              *)
(***************************************************************************)
CONSTANTS Session, Copy, Project

VARIABLES
  adopted,  \* the records
  listed,   \* copies that are throw-away forks
  copies,   \* copies that exist
  work,     \* by copy: "none", "empty" (nothing was left), "done", or "gone" again
  abandoned \* copies whose adoption was cut short: nobody answers for them

vars == <<adopted, listed, copies, work, abandoned>>

Init ==
  /\ adopted = {} /\ listed = {} /\ copies = {} /\ abandoned = {}
  /\ work = [c \in Copy |-> "none"]

Promoted == {r.copy : r \in adopted}

List(c) ==
  /\ c \notin Promoted
  /\ listed' = listed \cup {c}
  /\ UNCHANGED <<adopted, copies, work, abandoned>>

Unlist(c) == listed' = listed \ {c} /\ UNCHANGED <<adopted, copies, work, abandoned>>

Appear(c) == copies' = copies \cup {c} /\ UNCHANGED <<adopted, listed, work, abandoned>>

Work(c) ==
  /\ work' = [work EXCEPT ![c] = "done"]
  /\ UNCHANGED <<adopted, listed, copies, abandoned>>

Empty(c) ==
  /\ work[c] = "none"
  /\ work' = [work EXCEPT ![c] = "empty"]
  /\ UNCHANGED <<adopted, listed, copies, abandoned>>

\* A revert takes the work of one copy from its project, a removal that of all.
Undo(C) ==
  /\ work' = [c \in Copy |-> IF c \in C THEN "gone" ELSE work[c]]
  /\ UNCHANGED <<adopted, listed, copies, abandoned>>

Adopt(s, c, p) ==
  /\ \A r \in adopted : r.session # s
  /\ c \notin listed /\ work[c] \in {"done", "empty"}
  /\ adopted' = adopted \cup {[session |-> s, copy |-> c, project |-> p]}
  /\ UNCHANGED <<listed, copies, work, abandoned>>

Release(R) ==
  /\ \A r \in R : work[r.copy] = "gone"
  /\ adopted' = adopted \ R
  /\ UNCHANGED <<listed, copies, work, abandoned>>

\* The cleanup of forks takes what it deletes off the list as well.
Delete(c) ==
  /\ c \notin Promoted
  /\ work[c] # "done" \/ c \in abandoned
  /\ copies' = copies \ {c} /\ listed' \in {listed, listed \ {c}}
  /\ UNCHANGED <<adopted, work, abandoned>>

Abandon(c) == abandoned' = abandoned \cup {c} /\ UNCHANGED <<adopted, listed, copies, work>>

Next ==
  \/ \E c \in Copy : List(c) \/ Unlist(c) \/ Appear(c) \/ Work(c) \/ Empty(c) \/ Delete(c) \/ Abandon(c)
  \/ \E C \in SUBSET Copy : Undo(C)
  \/ \E s \in Session, c \in Copy, p \in Project : Adopt(s, c, p)
  \/ \E R \in SUBSET adopted : Release(R)

Spec == Init /\ [][Next]_vars
=============================================================================
