---------------------------- MODULE MCProjectLife ----------------------------
(* Instances of ProjectLife for TLC. *)
EXTENDS ProjectLife, TLC

CONSTANTS o1, o2, p1, p2

\* Both operations in the window; or each in a process of its own, as on the command line.
OneHost == (o1 :> p1) @@ (o2 :> p1)
TwoHosts == (o1 :> p1) @@ (o2 :> p2)
OneOp == o1 :> p1

AllKinds == Kind
LifecycleKinds == {"open", "archive"}
OnlyOpen == {"open"}

\* All that an action reads: author is only for the properties.
Behaviour == <<op, alive, lock, tree, index, head, git>>
=============================================================================
