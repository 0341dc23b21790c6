-------------------------- MODULE ProjectLifeProofs --------------------------
(***************************************************************************)
(* Proofs about ProjectLife, for any operations, processes and kinds of     *)
(* them.  First what holds in any interleaving; then what holds when        *)
(* operations at work and commits do not overlap (~Overlap); then when every *)
(* operation has a process of its own as well (Serial).                     *)
(***************************************************************************)
EXTENDS ProjectLife, TLAPS

-----------------------------------------------------------------------------
(* What an operation remembers, by where it is. *)

Remembers(r, live) ==
  /\ r.at = "idle" => r = Idle
  /\ r.at = "orphan" => ~r.acquired
  /\ r.at \in Prelude \cup {"askReadOnly"} => ~r.acquired
  /\ r.kind = "addRepo" => ~r.acquired
  /\ r.at \in {"readLock", "probe", "writeLock"} =>
       r.kind # "addRepo" /\ (r.kind \notin {"open", "remove"} => r.manifest # None)
  /\ r.at = "change" =>
       /\ r.kind \notin {"open", "remove"} /\ r.manifest # None
       /\ r.kind # "addRepo" => r.acquired
  /\ r.at \in {"leftover", "askLeftover"} => r.kind = "open" /\ r.acquired
  /\ r.at \in {"restore", "askReadOnly", "launch", "running"} => r.kind = "open"
  /\ r.at \in {"askRemove", "remove"} => r.kind = "remove" /\ r.acquired
  /\ r.at \in {"stage", "commit", "git"} => r.acquired \/ r.kind = "addRepo"
  /\ r.at \notin {"idle", "orphan"} => live

Discipline ==
  /\ TypeOK
  /\ \A o \in Op : Remembers(op[o], alive[HostOf[o]])

Becomes(o, r) == op' = [op EXCEPT ![o] = r]

Gits == [Committer -> NoneOr(GitCommit)]

Places == AtWork \cup Waiting \cup {"orphan"}

LEMMA IdleType == Idle \in Operation /\ \A live \in BOOLEAN : Remembers(Idle, live)
BY DEF Idle, Operation, Kind, NoneOr, Remembers, Prelude

\* Where Go leads.
LEMMA GoBecomes ==
  ASSUME Discipline, NEW o \in Op, NEW next \in Places, Go(o, next)
  PROVE  /\ [op[o] EXCEPT !.at = next] \in Operation
         /\ Becomes(o, [op[o] EXCEPT !.at = next])
<1>1. next # "idle"
  BY DEF Places, AtWork, Waiting, Prelude, Attempt, Closing
<1>2. op \in [Op -> Operation]
  BY DEF Discipline, TypeOK
<1> QED
  BY <1>1, <1>2 DEF Go, Becomes, Places, Operation

LEMMA GoIdle ==
  ASSUME NEW o \in Op, Go(o, "idle")
  PROVE  Becomes(o, Idle)
BY DEF Go, Becomes

\* A step of one operation.
LEMMA StepDiscipline ==
  ASSUME Discipline, NEW o \in Op, NEW r \in Operation, Becomes(o, r),
         Remembers(r, alive[HostOf[o]]), UNCHANGED alive,
         lock' \in NoneOr(Lock), {tree', index', head'} \subseteq Content, author' \in NoneOr(Op) /\ git' \in Gits
  PROVE  /\ Discipline'
         /\ op'[o] = r /\ \A x \in Op : x # o => op'[x] = op[x]
<1>1. op \in [Op -> Operation] /\ alive \in [Process -> BOOLEAN]
  BY DEF Discipline, TypeOK
<1>2. op' \in [Op -> Operation] /\ op'[o] = r /\ \A x \in Op : x # o => op'[x] = op[x]
  BY <1>1 DEF Becomes
<1>3. TypeOK'
  BY <1>1, <1>2 DEF TypeOK, Gits
<1>4. \A x \in Op : Remembers(op'[x], alive'[HostOf[x]])
  BY <1>2 DEF Discipline
<1> QED
  BY <1>2, <1>3, <1>4 DEF Discipline

\* A step from where o is to another place, remembering what it did.
LEMMA GoDiscipline ==
  ASSUME Discipline, NEW o \in Op, NEW next \in Places, Go(o, next),
         Remembers([op[o] EXCEPT !.at = next], alive[HostOf[o]]), UNCHANGED alive,
         lock' \in NoneOr(Lock), {tree', index', head'} \subseteq Content, author' \in NoneOr(Op) /\ git' \in Gits
  PROVE  /\ Discipline'
         /\ op'[o] = [op[o] EXCEPT !.at = next] /\ \A x \in Op : x # o => op'[x] = op[x]
BY GoBecomes, StepDiscipline

LEMMA IdleDiscipline ==
  ASSUME Discipline, NEW o \in Op, Go(o, "idle"), UNCHANGED alive,
         lock' \in NoneOr(Lock), {tree', index', head'} \subseteq Content, author' \in NoneOr(Op) /\ git' \in Gits
  PROVE  /\ Discipline'
         /\ op'[o] = Idle /\ \A x \in Op : x # o => op'[x] = op[x]
<1>1. alive[HostOf[o]] \in BOOLEAN
  BY HostAssumption DEF Discipline, TypeOK
<1> QED
  BY <1>1, GoIdle, IdleType, StepDiscipline

\* The files, and the lock, keep their types where a step leaves them alone.
LEMMA Typed ==
  ASSUME Discipline
  PROVE  /\ UNCHANGED lock => lock' \in NoneOr(Lock)
         /\ UNCHANGED tree => tree' \in Content
         /\ UNCHANGED index => index' \in Content
         /\ UNCHANGED head => head' \in Content
         /\ UNCHANGED author => author' \in NoneOr(Op)
         /\ UNCHANGED git => git' \in Gits
         /\ {tree, index, head} \subseteq Content
         /\ \A o \in Op : op[o] \in Operation /\ Remembers(op[o], alive[HostOf[o]])
BY DEF Discipline, TypeOK, Gits

LEMMA BeginDiscipline ==
  ASSUME Discipline, NEW o \in Op, Begin(o)
  PROVE  /\ Discipline' /\ \A x \in Op : x # o => op'[x] = op[x]
         /\ op'[o].at = IF op'[o].kind = "open" THEN "restore" ELSE "manifest"
         /\ op'[o].acquired = op[o].acquired /\ op'[o].success = op[o].success
<1> PICK k \in Kinds, s \in NoneOr({q \in Op : Runs(q)}) :
      op' = [op EXCEPT ![o].at = IF k = "open" THEN "restore" ELSE "manifest",
                       ![o].kind = k, ![o].from = s]
  BY DEF Begin
<1> DEFINE r == [op[o] EXCEPT !.at = IF k = "open" THEN "restore" ELSE "manifest", !.kind = k, !.from = s]
<1>1. op[o] \in Operation /\ Is(o, "idle") /\ ~op[o].acquired /\ alive[HostOf[o]]
  BY Typed DEF Begin, Is, Remembers, Idle
<1>2. k \in Kind /\ s \in NoneOr(Op)
  BY KindsAssumption DEF NoneOr
<1>3. r \in Operation /\ r.acquired = op[o].acquired /\ r.success = op[o].success /\ r.kind = k
      /\ r.at = IF k = "open" THEN "restore" ELSE "manifest"
  BY <1>1, <1>2 DEF Operation, AtWork, Prelude
<1>4. Becomes(o, r)
  BY <1>1 DEF Becomes, Discipline, TypeOK
<1>5. Remembers(r, alive[HostOf[o]])
  BY <1>1, <1>3 DEF Remembers, Prelude
<1> HIDE DEF r
<1>6. UNCHANGED <<alive, lock, tree, index, head, author, git>>
  BY DEF Begin, files
<1>7. Discipline'
  BY <1>3, <1>4, <1>5, <1>6, StepDiscipline, Typed
<1>8. op'[o] = r /\ \A x \in Op : x # o => op'[x] = op[x]
  BY <1>4 DEF Becomes, Discipline, TypeOK
<1> QED
  BY <1>3, <1>7, <1>8

Others(o) == UNCHANGED alive /\ \A x \in Op : x # o => op'[x] = op[x]

\* What an operation commits with, and what its git commit is at first.
LEMMA EnvTyped ==
  ASSUME Discipline, NEW o \in Op
  PROVE  /\ CommitOf(o) \in CommitEnv /\ Actor(o) \in Op /\ Actor(o) # None
         /\ Own(o) \in Committer
<1>1. op[o] \in Operation /\ HostOf[o] \in Process
  BY Typed, HostAssumption
<1>2. op[o].from \in NoneOr(Op)
  BY <1>1 DEF Operation
<1>3. Actor(o) \in Op /\ Actor(o) # None
  BY <1>2, NoneAssumption DEF Actor, NoneOr
<1>4. CommitOf(o) \in CommitEnv
  BY <1>1, <1>2 DEF CommitOf, CommitEnv, NoneOr
<1> QED
  BY <1>3, <1>4 DEF Own, Committer

Started(env, who) == [at |-> "started", env |-> env, who |-> who, content |-> index,
                      staged |-> "nothing", seen |-> None]

LEMMA StartsTyped ==
  ASSUME Discipline, NEW c \in Committer, NEW env \in CommitEnv, NEW who \in NoneOr(Op), Starts(c, env, who)
  PROVE  /\ git' \in Gits /\ git'[c] = Started(env, who)
         /\ \A d \in Committer : d # c => git'[d] = git[d]
<1>1. git \in Gits /\ index \in Content
  BY Typed DEF Discipline, TypeOK, Gits
<1>2. Started(env, who) \in GitCommit
  BY <1>1 DEF Started, GitCommit, NoneOr
<1> QED
  BY <1>1, <1>2 DEF Starts, Started, Gits, NoneOr

\* A commit that landed, or that there was no need of.
LEMMA LandedBecomes ==
  ASSUME Discipline, NEW o \in Op, Landed(o), op[o].at \in {"commit", "git"}
  PROVE  /\ Becomes(o, op'[o]) /\ op'[o] \in Operation /\ Remembers(op'[o], alive[HostOf[o]])
         /\ \A x \in Op : x # o => op'[x] = op[x]
         /\ op'[o].acquired = op[o].acquired /\ op'[o].kind = op[o].kind /\ op'[o].from = op[o].from
         /\ op'[o].at \in {"launch", "finally", "device"} /\ (op'[o].at = "launch" => op[o].kind = "open")
<1> DEFINE next == CASE op[o].kind = "open" -> "launch"
                     [] op[o].kind \in {"archive", "unarchive"} -> "finally"
                     [] OTHER -> "device"
           r == [op[o] EXCEPT !.success = op[o].kind # "open", !.at = next]
<1>0. op[o] \in Operation /\ Remembers(op[o], alive[HostOf[o]]) /\ op \in [Op -> Operation]
  BY Typed DEF Discipline, TypeOK
<1>1. Becomes(o, r)
  BY <1>0 DEF Landed, Becomes
<1>2. r \in Operation
  BY <1>0 DEF Operation, AtWork, Attempt, Closing
<1>3. Remembers(r, alive[HostOf[o]])
  BY <1>0 DEF Remembers, Prelude, Operation
<1>4. r.acquired = op[o].acquired /\ r.kind = op[o].kind /\ r.from = op[o].from /\ r.at = next
  BY <1>0 DEF Operation
<1>5. next \in {"launch", "finally", "device"} /\ (next = "launch" => op[o].kind = "open")
  OBVIOUS
<1> HIDE DEF r, next
<1>6. op'[o] = r /\ \A x \in Op : x # o => op'[x] = op[x]
  BY <1>0, <1>1 DEF Becomes
<1> QED
  BY <1>1, <1>2, <1>3, <1>4, <1>5, <1>6

LEMMA AdvanceDiscipline ==
  ASSUME Discipline, NEW o \in Op, Advances(o)
  PROVE  Discipline' /\ Others(o)
<1>0. op[o] \in Operation /\ Remembers(op[o], alive[HostOf[o]])
  BY Typed
<1>1. CASE restoreProjectManifestIfChanged(o)
  <2>1. tree' \in Content /\ index' \in Content /\ head' \in Content
    BY <1>1, Typed DEF restoreProjectManifestIfChanged, Content
  <2>2. lock' \in NoneOr(Lock) /\ author' \in NoneOr(Op) /\ git' \in Gits /\ UNCHANGED alive
    BY <1>1, Typed DEF restoreProjectManifestIfChanged
  <2>3. Remembers([op[o] EXCEPT !.at = "manifest"], alive[HostOf[o]])
    BY <1>0, <1>1 DEF restoreProjectManifestIfChanged, Is, Remembers, Prelude, Operation
  <2>4. Go(o, "manifest") \/ Go(o, "idle")
    BY <1>1 DEF restoreProjectManifestIfChanged
  <2> QED
    BY <2>1, <2>2, <2>3, <2>4, GoDiscipline, IdleDiscipline DEF Others, Places, AtWork, Prelude
<1>2. CASE ReadManifest(o)
  <2>1. /\ lock' \in NoneOr(Lock) /\ author' \in NoneOr(Op) /\ git' \in Gits /\ UNCHANGED alive
        /\ {tree', index', head'} \subseteq Content
    BY <1>2, Typed DEF ReadManifest, files
  <2>2. CASE Go(o, "idle")
    BY <2>1, <2>2, IdleDiscipline DEF Others
  <2>3. CASE ~Go(o, "idle")
    <3> DEFINE r == [op[o] EXCEPT !.at = IF op[o].kind = "addRepo" THEN "change" ELSE "readLock",
                                  !.manifest = IF op[o].kind \in {"open", "remove"} THEN None
                                               ELSE tree.manifest]
    <3>1. Is(o, "manifest") /\ tree.manifest # None /\ Becomes(o, r)
      BY <1>2, <2>3 DEF ReadManifest, Accepts, Becomes, Discipline, TypeOK
    <3>2. tree.manifest \in NoneOr(Manifest)
      BY Typed DEF Content
    <3>3. r \in Operation
      BY <1>0, <3>2 DEF Operation, NoneOr, AtWork, Prelude, Attempt
    <3>4. Remembers(r, alive[HostOf[o]])
      BY <1>0, <3>1 DEF Remembers, Prelude, Is, Operation
    <3> HIDE DEF r
    <3> QED
      BY <2>1, <3>1, <3>3, <3>4, StepDiscipline DEF Others
  <2> QED
    BY <2>2, <2>3
<1>3. CASE ReadLock(o)
  <2> DEFINE r == [op[o] EXCEPT !.at = "probe", !.seen = lock]
  <2>1. Becomes(o, r) /\ Is(o, "readLock")
    BY <1>3 DEF ReadLock, Becomes, Discipline, TypeOK
  <2>2. r \in Operation
    BY <1>0 DEF Operation, AtWork, Prelude, Discipline, TypeOK
  <2>3. Remembers(r, alive[HostOf[o]])
    BY <1>0, <2>1 DEF Remembers, Is, Prelude, Operation
  <2> HIDE DEF r
  <2> QED
    BY <1>3, <2>1, <2>2, <2>3, StepDiscipline, Typed DEF Others, ReadLock, files
<1>4. CASE Probe(o)
  <2>1. /\ lock' \in NoneOr(Lock) /\ author' \in NoneOr(Op) /\ git' \in Gits /\ UNCHANGED alive
        /\ {tree', index', head'} \subseteq Content
    BY <1>4, Typed DEF Probe, files
  <2>2. ASSUME NEW next \in {"writeLock", "askReadOnly"}, Forget(o, next),
               next = "askReadOnly" => op[o].kind = "open"
        PROVE  Discipline' /\ Others(o)
    <3> DEFINE r == [op[o] EXCEPT !.at = next, !.seen = None, !.manifest = op[o].manifest]
    <3>1. Is(o, "probe") /\ Becomes(o, r)
      BY <1>0, <1>4, <2>2 DEF Probe, Forget, Becomes, Discipline, TypeOK, Operation
    <3>2. r \in Operation
      BY <1>0 DEF Operation, AtWork, Prelude, Waiting, NoneOr
    <3>3. Remembers(r, alive[HostOf[o]])
      BY <1>0, <2>2, <3>1 DEF Remembers, Is, Prelude, Operation
    <3> HIDE DEF r
    <3> QED
      BY <2>1, <3>1, <3>2, <3>3, StepDiscipline DEF Others
  <2>3. Forget(o, "writeLock") \/ (op[o].kind = "open" /\ Forget(o, "askReadOnly")) \/ Go(o, "idle")
    BY <1>4 DEF Probe
  <2> QED
    BY <2>1, <2>2, <2>3, IdleDiscipline DEF Others
<1>5. CASE WriteLock(o)
  <2> DEFINE next == CASE op[o].kind = "open" -> "leftover"
                       [] op[o].kind = "remove" -> "askRemove"
                       [] OTHER -> "change"
             r == [op[o] EXCEPT !.acquired = TRUE, !.at = next]
  <2>1. Is(o, "writeLock") /\ Becomes(o, r)
    BY <1>5 DEF WriteLock, Becomes, Discipline, TypeOK
  <2>2. r \in Operation
    BY <1>0 DEF Operation, AtWork, Attempt, Waiting
  <2>3. Remembers(r, alive[HostOf[o]])
    BY <1>0, <2>1 DEF Remembers, Is, Prelude, Operation
  <2>4. Mine(o) \in NoneOr(Lock)
    BY <1>0, HostAssumption DEF Mine, Lock, NoneOr, Operation
  <2> HIDE DEF r
  <2> QED
    BY <1>5, <2>1, <2>2, <2>3, <2>4, StepDiscipline, Typed DEF Others, WriteLock, files
<1>6. CASE ReadForRelease(o)
  <2>1. \A next \in {"finally", "clear", "clearFinally"} :
          Remembers([op[o] EXCEPT !.at = next], alive[HostOf[o]])
    BY <1>0, <1>6 DEF ReadForRelease, Is, Remembers, Prelude, Operation
  <2>2. \E next \in {"finally", "clear", "clearFinally", "idle"} : Go(o, next)
    BY <1>6 DEF ReadForRelease, Past, Is
  <2> QED
    BY <1>6, <2>1, <2>2, GoDiscipline, IdleDiscipline, Typed
    DEF ReadForRelease, files, Others, Places, AtWork, Closing
<1>7. CASE Clear(o)
  <2>1. Remembers([op[o] EXCEPT !.at = "finally"], alive[HostOf[o]])
    BY <1>0, <1>7 DEF Clear, Is, Remembers, Prelude, Operation
  <2>2. (Go(o, "finally") \/ Go(o, "idle")) /\ lock' \in NoneOr(Lock)
    BY <1>7 DEF Clear, NoneOr
  <2> QED
    BY <1>7, <2>1, <2>2, GoDiscipline, IdleDiscipline, Typed
    DEF Clear, files, Others, Places, AtWork, Closing
<1>8. CASE ListLeftover(o)
  <2>1. \A next \in {"launch", "askLeftover"} :
          Remembers([op[o] EXCEPT !.at = next], alive[HostOf[o]])
    BY <1>0, <1>8 DEF ListLeftover, Is, Remembers, Prelude, Operation
  <2>2. Go(o, "launch") \/ Go(o, "askLeftover")
    BY <1>8 DEF ListLeftover
  <2> QED
    BY <1>8, <2>1, <2>2, GoDiscipline, Typed
    DEF ListLeftover, files, Others, Places, AtWork, Attempt, Waiting
<1>9. CASE Launch(o)
  <2>1. \A next \in {"running", "release", "finally"} :
          Remembers([op[o] EXCEPT !.at = next], alive[HostOf[o]])
    BY <1>0, <1>9 DEF Launch, Is, Remembers, Prelude, Operation
  <2>2. \E next \in {"running", "release", "finally"} : Go(o, next)
    BY <1>9 DEF Launch, Tail
  <2> QED
    BY <1>9, <2>1, <2>2, GoDiscipline, Typed
    DEF Launch, files, Others, Places, AtWork, Closing, Waiting
<1>10. CASE removeProjectDirectory(o)
  <2>1. Remembers([op[o] EXCEPT !.at = "stage"], alive[HostOf[o]])
    BY <1>0, <1>10 DEF removeProjectDirectory, Is, Remembers, Prelude, Operation
  <2>2. lock' \in NoneOr(Lock) /\ tree' \in Content
    BY <1>10, BoundAssumption DEF removeProjectDirectory, NoneOr, Removed, Content
  <2> QED
    BY <1>10, <2>1, <2>2, GoDiscipline, Typed
    DEF removeProjectDirectory, files, Others, Places, AtWork, Attempt
<1>11. CASE Change(o)
  <2> DEFINE r == [op[o] EXCEPT !.at = "stage", !.seen = None, !.manifest = None]
  <2>1. Is(o, "change") /\ Becomes(o, r)
    BY <1>0, <1>11 DEF Change, Forget, Becomes, Discipline, TypeOK, Operation
  <2>2. r \in Operation
    BY <1>0 DEF Operation, AtWork, Attempt, NoneOr
  <2>3. Remembers(r, alive[HostOf[o]])
    BY <1>0, <2>1 DEF Remembers, Is, Prelude, Operation
  <2>4. op[o].manifest \in Manifest /\ op[o].kind \in Kind \ {"open", "remove"}
    BY <1>0, <2>1 DEF Remembers, Is, Operation, NoneOr
  <2>5. Changed(op[o].kind, op[o].manifest) \in Manifest
    BY <2>4 DEF Changed, Manifest, Kind
  <2>6. tree' \in Content
    BY <1>11, <2>5, Typed DEF Change, Content, NoneOr
  <2> HIDE DEF r
  <2> QED
    BY <1>11, <2>1, <2>2, <2>3, <2>6, StepDiscipline, Typed DEF Change, files, Others
<1>12. CASE Stage(o)
  <2>1. \A next \in {"commit", "finally"} :
          Remembers([op[o] EXCEPT !.at = next], alive[HostOf[o]])
    BY <1>0, <1>12 DEF Stage, Is, Remembers, Prelude, Operation
  <2>2. \E next \in {"commit", "finally", "idle"} : Go(o, next)
    BY <1>12 DEF Stage, Failed
  <2>3. index' \in Content
    BY <1>12, Typed DEF Stage
  <2> QED
    BY <1>12, <2>1, <2>2, <2>3, GoDiscipline, IdleDiscipline, Typed
    DEF Stage, files, Others, Places, AtWork, Attempt, Closing
<1>13. CASE Commit(o)
  <2>0. /\ lock' \in NoneOr(Lock) /\ author' \in NoneOr(Op) /\ {tree', index', head'} \subseteq Content
        /\ UNCHANGED alive /\ Is(o, "commit")
    BY <1>13, Typed DEF Commit, files
  <2>1. CASE Landed(o) /\ UNCHANGED git
    <3>1. Remembers(op'[o], alive[HostOf[o]]) /\ op'[o] \in Operation /\ Becomes(o, op'[o])
      BY <2>0, <2>1, LandedBecomes DEF Is
    <3>2. git' \in Gits
      BY <2>1, Typed
    <3> QED
      BY <2>0, <3>1, <3>2, StepDiscipline DEF Others
  <2>2. CASE Go(o, "git") /\ Starts(Own(o), CommitOf(o), Actor(o))
    <3>1. Remembers([op[o] EXCEPT !.at = "git"], alive[HostOf[o]])
      BY <1>0, <2>0 DEF Is, Remembers, Prelude, Operation
    <3>2. git' \in Gits
      BY <2>2, EnvTyped, StartsTyped DEF NoneOr
    <3> QED
      BY <2>0, <2>2, <3>1, <3>2, GoDiscipline DEF Others, Places, AtWork, Attempt
  <2> QED
    BY <1>13, <2>1, <2>2 DEF Commit
<1>15. CASE Refused(o)
  <2>1. Remembers([op[o] EXCEPT !.at = "finally"], alive[HostOf[o]])
    BY <1>0, <1>15 DEF Refused, Is, Remembers, Prelude, Operation
  <2>2. Go(o, "finally") \/ Go(o, "idle")
    BY <1>15 DEF Refused, Failed
  <2> QED
    BY <1>15, <2>1, <2>2, GoDiscipline, IdleDiscipline, Typed
    DEF Refused, files, Others, Places, AtWork, Closing
<1>14. CASE SaveDeviceRecord(o)
  <2>1. Remembers([op[o] EXCEPT !.at = "release"], alive[HostOf[o]])
    BY <1>0, <1>14 DEF SaveDeviceRecord, Is, Remembers, Prelude, Operation
  <2>2. Go(o, "release") \/ Go(o, "idle")
    BY <1>14 DEF SaveDeviceRecord
  <2> QED
    BY <1>14, <2>1, <2>2, GoDiscipline, IdleDiscipline, Typed
    DEF SaveDeviceRecord, files, Others, Places, AtWork, Closing
<1> QED
  BY <1>1, <1>2, <1>3, <1>4, <1>5, <1>6, <1>7, <1>8, <1>9, <1>10, <1>11, <1>12, <1>13, <1>14, <1>15
  DEF Advances

LEMMA OtherDiscipline ==
  ASSUME Discipline, NEW o \in Op, Answers(o) \/ SessionEnds(o) \/ Throw(o)
  PROVE  Discipline' /\ Others(o)
<1>0. op[o] \in Operation /\ Remembers(op[o], alive[HostOf[o]])
  BY Typed
<1>1. CASE Answers(o)
  <2>1. \E next \in {"launch", "finally", "stage", "release", "remove"} :
          Go(o, next) /\ Remembers([op[o] EXCEPT !.at = next], alive[HostOf[o]])
    BY <1>0, <1>1 DEF Answers, AnswerReadOnly, AnswerLeftover, AnswerRemove, Is, Remembers, Prelude, Operation
  <2> QED
    BY <1>1, <2>1, GoDiscipline, Typed
    DEF Answers, AnswerReadOnly, AnswerLeftover, AnswerRemove, files, Others, Places, AtWork, Attempt, Closing
<1>2. CASE SessionEnds(o)
  <2>1. Go(o, "idle") \/ \E next \in {"release", "finally"} :
          Go(o, next) /\ Remembers([op[o] EXCEPT !.at = next], alive[HostOf[o]])
    BY <1>0, <1>2 DEF SessionEnds, Tail, Is, Remembers, Prelude, Operation
  <2> QED
    BY <1>2, <2>1, GoDiscipline, IdleDiscipline, Typed
    DEF SessionEnds, files, Others, Places, AtWork, Closing
<1>3. CASE Throw(o)
  <2>1. \/ Go(o, "idle")
        \/ Go(o, "finally") /\ Remembers([op[o] EXCEPT !.at = "finally"], alive[HostOf[o]])
    BY <1>0, <1>3 DEF Throw, Failed, Attempt, Remembers, Prelude, Operation
  <2> QED
    BY <1>3, <2>1, GoDiscipline, IdleDiscipline, Typed
    DEF Throw, files, Others, Places, AtWork, Closing
<1> QED
  BY <1>1, <1>2, <1>3

LEMMA AgentDiscipline ==
  ASSUME Discipline, NEW s \in NoneOr(Op), TypesAdd(s) \/ TypesCommit(s) \/ (s \in Op /\ Works(s))
  PROVE  Discipline' /\ UNCHANGED <<op, alive, lock, head, author>>
<1>1. {tree', index', head'} \subseteq Content /\ git' \in Gits
  <2>1. CASE TypesAdd(s)
    BY <2>1, Typed DEF TypesAdd
  <2>2. CASE TypesCommit(s)
    <3>1. TypedBy(s) \in CommitEnv /\ <<s, "hand">> \in Committer
      BY DEF TypedBy, CommitEnv, NoneOr, Committer
    <3> QED
      BY <2>2, <3>1, StartsTyped, Typed DEF TypesCommit, files
  <2>3. CASE s \in Op /\ Works(s)
    <3>1. tree \in Content
      BY Typed
    <3>2. tree.manifest # None => [tree EXCEPT !.manifest.edited = TRUE] \in Content
      BY <3>1 DEF Content, NoneOr, Manifest
    <3> QED
      BY <2>3, <3>1, <3>2, Typed DEF Works, Content
  <2> QED
    BY <2>1, <2>2, <2>3
<1>2. UNCHANGED <<op, alive, lock, head, author>>
  BY DEF TypesAdd, TypesCommit, Works, files
<1> QED
  BY <1>1, <1>2 DEF Discipline, TypeOK, Gits

\* What a step of a git commit may do: it moves on, or it ends, or it lands, and with
\* it the operation that awaits it.
Moved(c) ==
  /\ \A d \in Committer : d # c => git'[d] = git[d]
  /\ UNCHANGED <<op, files>>

LandsFor(c) ==
  /\ IsAt(c, "passed") /\ head' = git[c].content /\ author' = git[c].who
  /\ \A d \in Committer : git'[d] = None
  /\ \/ UNCHANGED op
     \/ \E o \in Op : c = Own(o) /\ Is(o, "git") /\ Landed(o) /\ Others(o)

LEMMA GitDiscipline ==
  ASSUME Discipline, NEW c \in Committer, Commits(c)
  PROVE  /\ Discipline'
         /\ UNCHANGED <<alive, lock, tree, index>>
         /\ Moved(c) \/ LandsFor(c)
<1>0. git \in Gits /\ git[c] \in NoneOr(GitCommit) /\ lock \in NoneOr(Lock)
  BY DEF Discipline, TypeOK, Gits
<1>1. CASE CommitLands(c)
  <2>1. git[c] \in GitCommit
    BY <1>0, <1>1 DEF CommitLands, IsAt, NoneOr
  <2>2. head' \in Content /\ author' \in NoneOr(Op) /\ git' \in Gits
    BY <1>1, <2>1 DEF CommitLands, GitCommit, Gits, NoneOr
  <2>3. UNCHANGED <<alive, lock, tree, index>>
    BY <1>1 DEF CommitLands
  <2>4. CASE UNCHANGED op
    BY <1>1, <2>2, <2>3, <2>4, Typed DEF CommitLands, LandsFor, Discipline, TypeOK, Gits
  <2>5. ASSUME NEW o \in Op, c = Own(o), Is(o, "git"), Landed(o)
        PROVE  Discipline' /\ LandsFor(c)
    <3>1. Becomes(o, op'[o]) /\ op'[o] \in Operation /\ Remembers(op'[o], alive[HostOf[o]])
      BY <2>5, LandedBecomes DEF Is
    <3>2. Discipline' /\ Others(o)
      BY <2>2, <2>3, <3>1, Typed, StepDiscipline DEF Others
    <3> QED
      BY <1>1, <2>3, <2>5, <3>2 DEF CommitLands, LandsFor
  <2> QED
    BY <1>1, <2>3, <2>4, <2>5 DEF CommitLands
<1>2. CASE ~CommitLands(c)
  <2>1. UNCHANGED <<op, alive, lock, files>>
    BY <1>2 DEF Commits, HookLists, HookReads, HookDecides, GitFails
  <2>2. git[c] \in GitCommit
    BY <1>0, <1>2 DEF Commits, HookLists, HookReads, HookDecides, GitFails, IsAt, NoneOr
  <2>3. PICK g \in NoneOr(GitCommit) : git' = [git EXCEPT ![c] = g]
    <3>1. CASE HookLists(c)
      <4>1. Staged \in {"nothing", "files", "manifest"}
        BY DEF Staged
      <4>2. [git[c] EXCEPT !.at = "listed", !.staged = Staged] \in GitCommit
        BY <2>2, <4>1 DEF GitCommit
      <4>3. git' = [git EXCEPT ![c] = [git[c] EXCEPT !.at = "listed", !.staged = Staged]]
        BY <1>0, <2>2, <3>1 DEF HookLists, Gits, GitCommit
      <4> QED
        BY <4>2, <4>3 DEF NoneOr
    <3>2. CASE HookReads(c)
      <4> DEFINE l == IF git[c].staged = "nothing" THEN None ELSE lock
      <4>1. l \in NoneOr(Lock)
        BY <1>0 DEF NoneOr
      <4>2. git' = [git EXCEPT ![c] = [git[c] EXCEPT !.at = "read", !.seen = l]]
        BY <1>0, <2>2, <3>2 DEF HookReads, Gits, GitCommit
      <4> HIDE DEF l
      <4>3. [git[c] EXCEPT !.at = "read", !.seen = l] \in GitCommit
        BY <2>2, <4>1 DEF GitCommit
      <4> QED
        BY <4>2, <4>3 DEF NoneOr
    <3>3. CASE HookDecides(c)
      <4>1. [git[c] EXCEPT !.at = "passed"] \in GitCommit
        BY <2>2 DEF GitCommit
      <4> QED
        BY <3>3, <4>1 DEF HookDecides, NoneOr
    <3>4. CASE GitFails(c)
      BY <3>4 DEF GitFails, NoneOr
    <3> QED
      BY <1>2, <3>1, <3>2, <3>3, <3>4 DEF Commits
  <2>4. git' \in Gits /\ \A d \in Committer : d # c => git'[d] = git[d]
    BY <1>0, <2>3 DEF Gits
  <2> QED
    BY <2>1, <2>4 DEF Discipline, TypeOK, Gits, files, Moved
<1> QED
  BY <1>1, <1>2

LEMMA CrashDiscipline ==
  ASSUME Discipline, NEW p \in Process, Crash(p)
  PROVE  /\ Discipline'
         /\ UNCHANGED <<lock, files, git>>
         /\ alive' = [alive EXCEPT ![p] = FALSE]
         /\ \A o \in Op : \/ op'[o] = op[o]
                         \/ /\ HostOf[o] = p /\ op'[o].at \in {"idle", "orphan"}
                            /\ ~op'[o].acquired /\ ~op'[o].success
<1> PICK left \in SUBSET {o \in Op : HostOf[o] = p /\ Is(o, "running")} :
      op' = [o \in Op |-> IF o \in left THEN [Idle EXCEPT !.at = "orphan"]
                          ELSE IF HostOf[o] = p /\ ~Is(o, "orphan") THEN Idle
                          ELSE op[o]]
  BY DEF Crash
<1>1. /\ [Idle EXCEPT !.at = "orphan"] \in Operation
      /\ \A live \in BOOLEAN : Remembers([Idle EXCEPT !.at = "orphan"], live)
  BY DEF Idle, Operation, Kind, NoneOr, Remembers, Prelude
<1>2. UNCHANGED <<lock, files, git>> /\ alive' = [alive EXCEPT ![p] = FALSE] /\ alive' \in [Process -> BOOLEAN]
  BY DEF Crash, Discipline, TypeOK
<1>3. op' \in [Op -> Operation]
  BY <1>1, IdleType, Typed
<1>4. ASSUME NEW o \in Op
      PROVE  /\ Remembers(op'[o], alive'[HostOf[o]])
             /\ \/ op'[o] = op[o]
                \/ /\ HostOf[o] = p /\ op'[o].at \in {"idle", "orphan"}
                   /\ ~op'[o].acquired /\ ~op'[o].success
  <2>1. alive'[HostOf[o]] \in BOOLEAN /\ (HostOf[o] # p => alive'[HostOf[o]] = alive[HostOf[o]])
    BY <1>2, HostAssumption DEF Discipline, TypeOK
  <2>2. CASE o \in left
    BY <1>1, <2>1, <2>2 DEF Idle
  <2>3. CASE o \notin left /\ HostOf[o] = p /\ ~Is(o, "orphan")
    BY <2>1, <2>3, IdleType DEF Idle
  <2>4. CASE o \notin left /\ Is(o, "orphan")
    <3>1. op'[o] = op[o] /\ Remembers(op[o], alive[HostOf[o]]) /\ op[o].at = "orphan"
      BY <2>4, Typed DEF Is
    <3> QED
      BY <3>1 DEF Remembers, Prelude
  <2>5. CASE o \notin left /\ HostOf[o] # p
    BY <2>1, <2>5, Typed
  <2> QED
    BY <2>2, <2>3, <2>4, <2>5
<1>5. TypeOK'
  BY <1>2, <1>3 DEF TypeOK, files, Discipline
<1> QED
  BY <1>2, <1>4, <1>5 DEF Discipline

LEMMA DisciplineInit == Init => Discipline
<1> SUFFICES ASSUME Init PROVE Discipline
  OBVIOUS
<1>1. op \in [Op -> Operation] /\ \A o \in Op : op[o] = Idle
  BY IdleType DEF Init
<1>2. alive \in [Process -> BOOLEAN] /\ lock \in NoneOr(Lock) /\ author \in NoneOr(Op)
      /\ git \in [Committer -> NoneOr(GitCommit)]
  BY DEF Init, NoneOr
<1>3. {tree, index, head} \subseteq Content
  BY BoundAssumption DEF Init, Content, Manifest, NoneOr
<1>4. \A o \in Op : Remembers(op[o], alive[HostOf[o]])
  BY <1>1, <1>2, IdleType, HostAssumption
<1> QED
  BY <1>1, <1>2, <1>3, <1>4 DEF Discipline, TypeOK

LEMMA DisciplineStep == Discipline /\ [Next]_vars => Discipline'
<1> SUFFICES ASSUME Discipline, [Next]_vars PROVE Discipline'
  OBVIOUS
<1>1. CASE UNCHANGED vars
  BY <1>1 DEF vars, files, Discipline, TypeOK
<1>2. CASE \E o \in Op : Begin(o) \/ Advances(o) \/ Answers(o) \/ SessionEnds(o) \/ Throw(o)
  BY <1>2, BeginDiscipline, AdvanceDiscipline, OtherDiscipline
<1>3. CASE \E s \in NoneOr(Op) : TypesAdd(s) \/ TypesCommit(s) \/ (s \in Op /\ Works(s))
  BY <1>3, AgentDiscipline
<1>4. CASE \E c \in Committer : Commits(c)
  BY <1>4, GitDiscipline
<1>5. CASE \E p \in Process : Crash(p)
  BY <1>5, CrashDiscipline
<1> QED
  BY <1>1, <1>2, <1>3, <1>4, <1>5 DEF Next, NoneOr

(* Every value keeps its type: what an operation reads, remembers, takes and      *)
(* commits, whatever overlaps and whoever dies.                                  *)
THEOREM TypeCorrect == Spec => []TypeOK
<1>1. Spec => []Discipline
  BY DisciplineInit, DisciplineStep, PTL DEF Spec
<1>2. Discipline => TypeOK
  BY DEF Discipline
<1> QED
  BY <1>1, <1>2, PTL

-----------------------------------------------------------------------------
(* The lock and the commits in any interleaving. *)

\* What o remembers after it has moved.
LEMMA GoTo ==
  ASSUME Discipline, NEW o \in Op, NEW next, Go(o, next)
  PROVE  IF next = "idle" THEN op'[o].at = "idle" /\ ~op'[o].acquired /\ ~op'[o].success
         ELSE /\ op'[o].at = next /\ op'[o].kind = op[o].kind /\ op'[o].from = op[o].from
              /\ op'[o].acquired = op[o].acquired /\ op'[o].seen = op[o].seen
              /\ op'[o].manifest = op[o].manifest /\ op'[o].success = op[o].success
<1>1. op \in [Op -> Operation] /\ op[o] \in Operation
  BY Typed DEF Discipline, TypeOK
<1> QED
  BY <1>1 DEF Go, Operation, Idle

OwnHosts == \A o, x \in Op : HostOf[o] = HostOf[x] => o = x

\* A lock that names a live process names one in which an operation that took
\* it is still under way: no live process leaves a lock behind it, whatever it
\* overlaps, however many operations run in it, and whichever of them gave up.
LockHasATaker == isAlive(lock) => \E o \in Op : HostOf[o] = lock.pid /\ op[o].acquired

LEMMA AcquiredStays ==
  ASSUME Discipline, NEW o \in Op, op[o].acquired, lock # None, lock.pid = HostOf[o],
         \/ Begin(o) \/ Answers(o) \/ SessionEnds(o) \/ Throw(o)
         \/ Advances(o) /\ UNCHANGED lock
  PROVE  op'[o].acquired
<1>0. op[o] \in Operation /\ Remembers(op[o], alive[HostOf[o]]) /\ op \in [Op -> Operation]
  BY Typed DEF Discipline, TypeOK
<1>1. CASE Begin(o)
  BY <1>1, BeginDiscipline
<1>2. CASE Answers(o)
  BY <1>0, <1>2, GoTo DEF Answers, AnswerReadOnly, AnswerLeftover, AnswerRemove
<1>3. CASE SessionEnds(o)
  BY <1>0, <1>3, GoTo DEF SessionEnds, Tail, Is, Remembers
<1>4. CASE Throw(o)
  <2>1. op[o].at \in Attempt \ {"git"} /\ op[o].kind # "addRepo"
    BY <1>0, <1>4 DEF Throw, Remembers
  <2>2. Go(o, "finally")
    BY <1>4, <2>1 DEF Throw, Failed, Attempt, Prelude
  <2> QED
    BY <1>0, <2>2, GoTo
<1>5. CASE restoreProjectManifestIfChanged(o) \/ ReadManifest(o) \/ ReadLock(o) \/ Probe(o)
  BY <1>0, <1>5 DEF restoreProjectManifestIfChanged, ReadManifest, ReadLock, Probe, Is, Remembers, Prelude
<1>6. CASE WriteLock(o)
  BY <1>0, <1>6 DEF WriteLock, Operation
<1>7. CASE ReadForRelease(o)
  <2>1. PICK next \in {"clear", "clearFinally"} : Go(o, next)
    BY <1>7 DEF ReadForRelease, MayRelease
  <2> QED
    BY <1>0, <2>1, GoTo
<1>8. CASE ListLeftover(o) \/ Launch(o) \/ removeProjectDirectory(o) \/ Stage(o)
  <2>1. op[o].kind # "addRepo"
    BY <1>0 DEF Remembers
  <2>2. \E next \in {"launch", "askLeftover", "running", "release", "finally", "stage", "commit"} : Go(o, next)
    BY <1>8, <2>1 DEF ListLeftover, Launch, Tail, removeProjectDirectory, Stage, Failed
  <2> QED
    BY <1>0, <2>2, GoTo
<1>9. CASE Change(o)
  BY <1>0, <1>9 DEF Change, Forget, Operation
<1>10. CASE Commit(o)
  <2>1. CASE Go(o, "git")
    BY <1>0, <2>1, GoTo
  <2>2. CASE Landed(o)
    BY <1>10, <2>2, LandedBecomes DEF Commit, Is
  <2> QED
    BY <1>10, <2>1, <2>2 DEF Commit
<1>13. CASE Refused(o)
  <2>1. Go(o, "finally")
    BY <1>0, <1>13 DEF Refused, Failed, Remembers
  <2> QED
    BY <1>0, <2>1, GoTo
<1>11. CASE SaveDeviceRecord(o)
  <2>1. Go(o, "release")
    BY <1>0, <1>11 DEF SaveDeviceRecord, Remembers
  <2> QED
    BY <1>0, <2>1, GoTo
<1>12. CASE Clear(o) /\ UNCHANGED lock
  BY <1>12 DEF Clear
<1> QED
  BY <1>1, <1>2, <1>3, <1>4, <1>5, <1>6, <1>7, <1>8, <1>9, <1>10, <1>11, <1>12, <1>13 DEF Advances

LEMMA TakerStep == Discipline /\ LockHasATaker /\ [Next]_vars => LockHasATaker'
<1> SUFFICES ASSUME Discipline, LockHasATaker, [Next]_vars, isAlive(lock)'
             PROVE  \E o \in Op : HostOf[o] = lock'.pid /\ op'[o].acquired
  BY DEF LockHasATaker
<1>1. CASE UNCHANGED vars
  BY <1>1 DEF vars, LockHasATaker, isAlive
<1>2. ASSUME NEW o \in Op, UNCHANGED <<alive, lock>>,
             Begin(o) \/ Advances(o) \/ Answers(o) \/ SessionEnds(o) \/ Throw(o)
      PROVE  \E x \in Op : HostOf[x] = lock'.pid /\ op'[x].acquired
  <2>1. PICK x \in Op : HostOf[x] = lock.pid /\ op[x].acquired
    BY <1>2 DEF LockHasATaker, isAlive
  <2>2. lock # None /\ lock' = lock
    BY <1>2 DEF isAlive
  <2>3. CASE x = o
    <3>1. op'[x].acquired
      BY <1>2, <2>1, <2>2, <2>3, AcquiredStays
    <3> QED
      BY <2>1, <2>2, <3>1
  <2>4. CASE x # o
    <3>1. op'[x] = op[x]
      BY <1>2, <2>4, BeginDiscipline, AdvanceDiscipline, OtherDiscipline DEF Others
    <3> QED
      BY <2>1, <2>2, <3>1
  <2> QED
    BY <2>3, <2>4
<1>3. ASSUME NEW o \in Op, Begin(o) \/ Answers(o) \/ SessionEnds(o) \/ Throw(o)
      PROVE  UNCHANGED <<alive, lock>>
  BY <1>3 DEF Begin, Answers, AnswerReadOnly, AnswerLeftover, AnswerRemove, SessionEnds, Throw
<1>4. ASSUME NEW o \in Op, Advances(o), ~UNCHANGED lock
      PROVE  \E x \in Op : HostOf[x] = lock'.pid /\ op'[x].acquired
  <2>1. lock' # None
    BY DEF isAlive
  <2>2. WriteLock(o)
    BY <1>4, <2>1 DEF Advances, restoreProjectManifestIfChanged, ReadManifest, ReadLock, Probe,
      ReadForRelease, Clear, ListLeftover, Launch, removeProjectDirectory, Change, Stage, Commit,
      Refused, SaveDeviceRecord, files
  <2>3. op'[o].acquired /\ lock'.pid = HostOf[o]
    BY <2>2, Typed DEF WriteLock, Mine, Discipline, TypeOK, Operation
  <2> QED
    BY <2>3
<1>5. ASSUME NEW o \in Op, Advances(o)
      PROVE  UNCHANGED alive
  BY <1>5, AdvanceDiscipline DEF Others
<1>6. CASE \E s \in NoneOr(Op) : TypesAdd(s) \/ TypesCommit(s) \/ (s \in Op /\ Works(s))
  <2>1. UNCHANGED <<op, alive, lock>>
    BY <1>6, AgentDiscipline
  <2> QED
    BY <2>1 DEF LockHasATaker, isAlive
<1>9. CASE \E c \in Committer : Commits(c)
  <2>1. UNCHANGED <<alive, lock>> /\ lock # None /\ isAlive(lock)
    BY <1>9, GitDiscipline DEF isAlive
  <2>2. PICK x \in Op : HostOf[x] = lock.pid /\ op[x].acquired
    BY <2>1 DEF LockHasATaker
  <2>3. UNCHANGED op \/ \E o \in Op : Is(o, "git") /\ Landed(o) /\ Others(o)
    BY <1>9, GitDiscipline DEF Moved, LandsFor
  <2>4. op'[x].acquired
    <3>1. ASSUME NEW o \in Op, Is(o, "git"), Landed(o), Others(o)
          PROVE  op'[x].acquired
      BY <2>2, <3>1, LandedBecomes DEF Is, Others
    <3> QED
      BY <2>2, <2>3, <3>1
  <2> QED
    BY <2>1, <2>2, <2>4
<1>7. ASSUME NEW p \in Process, Crash(p)
      PROVE  \E x \in Op : HostOf[x] = lock'.pid /\ op'[x].acquired
  <2>1. lock' = lock /\ lock # None /\ alive' = [alive EXCEPT ![p] = FALSE] /\ alive'[lock.pid]
    BY <1>7, CrashDiscipline DEF isAlive
  <2>2. lock.pid \in Process /\ lock.pid # p
    BY <2>1 DEF Discipline, TypeOK, NoneOr, Lock
  <2>3. alive[lock.pid]
    BY <2>1, <2>2 DEF Discipline, TypeOK
  <2>4. PICK x \in Op : HostOf[x] = lock.pid /\ op[x].acquired
    BY <2>1, <2>3 DEF LockHasATaker, isAlive
  <2>5. op'[x] = op[x]
    BY <1>7, <2>2, <2>4, CrashDiscipline
  <2> QED
    BY <2>1, <2>4, <2>5
<1>8. CASE \E o \in Op : Begin(o) \/ Advances(o) \/ Answers(o) \/ SessionEnds(o) \/ Throw(o)
  BY <1>2, <1>3, <1>4, <1>5, <1>8
<1> QED
  BY <1>1, <1>6, <1>7, <1>8, <1>9 DEF Next, NoneOr

(* In any interleaving, of any operations in any processes: no live process       *)
(* leaves a lock behind.                                                         *)
THEOREM NoLockIsLeftBehind == Spec => []LockHasATaker
<1>1. Init => Discipline /\ LockHasATaker
  BY DisciplineInit DEF Init, LockHasATaker, isAlive
<1>2. Discipline /\ LockHasATaker /\ [Next]_vars => (Discipline /\ LockHasATaker)'
  BY DisciplineStep, TakerStep
<1> QED
  BY <1>1, <1>2, PTL DEF Spec

(* However an operation with a process of its own ends, refused, failed or done,   *)
(* and whatever overlapped it, it leaves no lock.                                 *)
THEOREM NothingIsLeftLocked == OwnHosts /\ Spec => []NothingLeftLocked
<1>1. Spec => []Discipline
  BY DisciplineInit, DisciplineStep, PTL DEF Spec
<1>2. OwnHosts /\ Discipline /\ LockHasATaker => NothingLeftLocked
  <2> SUFFICES ASSUME OwnHosts, Discipline, LockHasATaker, NEW o \in Op, Is(o, "idle"), alive[HostOf[o]],
                      lock # None, lock.pid = HostOf[o]
               PROVE  FALSE
    BY DEF NothingLeftLocked
  <2>1. op[o].acquired
    BY DEF LockHasATaker, OwnHosts, isAlive
  <2>2. op[o] = Idle
    BY Typed DEF Remembers, Is
  <2> QED
    BY <2>1, <2>2 DEF Idle
<1>3. CASE ~OwnHosts
  BY <1>3
<1>4. CASE OwnHosts
  <2>1. Discipline /\ LockHasATaker => NothingLeftLocked
    BY <1>2, <1>4
  <2> QED
    BY <1>1, <2>1, NoLockIsLeftBehind, PTL
<1> QED
  BY <1>3, <1>4

-----------------------------------------------------------------------------
(* What the commit guard lets through, in any interleaving. *)

\* The Seeya-Session-Id a commit ends up with: decideTrailers adds what is missing.
Signature(c, l, live) == IF c.trailer # None THEN c.trailer ELSE sessionId(c, l, live)

(* Beside a live lock only its holder commits: the session it names, or the       *)
(* process that took it.  A lock that names no session is no key for a commit     *)
(* that knows of none, and whatever is let through is signed with the committer's  *)
(* own session or as unknown, unless the holder's process signed it itself.       *)
THEOREM OnlyTheHolderIsLetThrough ==
  ASSUME NEW c, NEW l, l # None, NEW stagesManifest, AllowsCommit(c, stagesManifest, l, TRUE)
  PROVE  /\ \/ c.session # None /\ c.session = l.session
            \/ c.process # None /\ c.process = l.pid
         /\ \/ Signature(c, l, TRUE) \in {c.session, unknown}
            \/ isLockHolderProcess(c, l) /\ Signature(c, l, TRUE) = c.trailer
<1>1. HoldsBySession(c, l) \/ isLockHolderProcess(c, l)
  BY DEF AllowsCommit, NoConflict
<1>2. TrailerAgrees(c, l, TRUE)
  BY DEF AllowsCommit
<1>3. sessionId(c, l, TRUE) \in {c.session, unknown}
  BY <1>1 DEF sessionId, authorizedBySameProcess, HoldsBySession
<1>4. CASE authorizedBySameProcess(c, l, TRUE)
  BY <1>1, <1>3, <1>4 DEF authorizedBySameProcess, isLockHolderProcess, Signature, HoldsBySession
<1>5. CASE ~authorizedBySameProcess(c, l, TRUE)
  <2>1. Signature(c, l, TRUE) = sessionId(c, l, TRUE)
    BY <1>2, <1>5 DEF TrailerAgrees, Signature
  <2> QED
    BY <1>1, <1>3, <2>1 DEF isLockHolderProcess, HoldsBySession
<1> QED
  BY <1>4, <1>5

(* The holder is never refused for its lock: its session when it leaves the        *)
(* trailer to the guard, and its process whatever trailer it wrote itself.         *)
THEOREM TheHolderIsLetThrough ==
  ASSUME NEW c, NEW l, l # None, NEW stagesManifest \in BOOLEAN, stagesManifest => c.marked,
         \/ c.session # None /\ c.session = l.session /\ c.trailer \in {None, c.session}
         \/ c.process # None /\ c.process = l.pid /\ (l.session = None \/ c.session # l.session)
  PROVE  AllowsCommit(c, stagesManifest, l, TRUE)
<1>1. NoConflict(c, l, TRUE)
  BY DEF NoConflict, HoldsBySession, isLockHolderProcess
<1>2. TrailerAgrees(c, l, TRUE)
  BY DEF TrailerAgrees, sessionId, authorizedBySameProcess, HoldsBySession, isLockHolderProcess
<1> QED
  BY <1>1, <1>2 DEF AllowsCommit

(* A lock whose holder died refuses nobody, but still lends its name: a commit     *)
(* that knows of no session is signed as the session that held it, where the guard *)
(* (workspace-commit-guard.ts:20) speaks of unknown.                              *)
THEOREM AStaleLockSigns ==
  ASSUME NEW l, l # None, l.session # None
  PROVE  /\ AllowsCommit(TypedBy(None), FALSE, l, FALSE)
         /\ Signature(TypedBy(None), l, FALSE) = l.session
BY DEF AllowsCommit, NoConflict, TrailerAgrees, TypedBy, Signature, sessionId, authorizedBySameProcess

\* A git commit that the hook let through, of files it saw staged.
LetThrough(g) ==
  /\ g.staged = "manifest" => g.env.marked
  /\ g.staged # "nothing" => NoConflict(g.env, g.seen, isAlive(g.seen))

\* What is typed by hand knows of no process, and is not marked as seeya's.
HookInv ==
  /\ Discipline
  /\ \A c \in Committer : IsAt(c, "passed") => LetThrough(git[c])
  /\ \A s \in NoneOr(Op) : git[<<s, "hand">>] # None =>
       git[<<s, "hand">>].env = TypedBy(s) /\ git[<<s, "hand">>].who = s

\* Whatever becomes HEAD passed the hook.  If the hook saw seeya.json staged it is an
\* operation of seeya that commits; and if it saw anything of the project staged, the
\* lock that it read then, where its process still lives, is the committer's own.
PassedTheHook ==
  head' # head =>
    \E c \in Committer :
      /\ IsAt(c, "passed") /\ head' = git[c].content /\ author' = git[c].who
      /\ git[c].staged = "manifest" => \E o \in Op : c = Own(o) /\ git[c].env.marked
      /\ git[c].staged # "nothing" /\ isAlive(git[c].seen) =>
           HoldsBySession(git[c].env, git[c].seen) \/ isLockHolderProcess(git[c].env, git[c].seen)

\* Whose commit changes what is committed.
LEMMA WhoCommits ==
  ASSUME Discipline, [Next]_vars, head' # head
  PROVE  \E c \in Committer : CommitLands(c)
<1>1. CASE \E o \in Op : Begin(o) \/ Answers(o) \/ SessionEnds(o) \/ Throw(o)
  BY <1>1 DEF Begin, Answers, AnswerReadOnly, AnswerLeftover, AnswerRemove, SessionEnds, Throw, files
<1>2. CASE \E o \in Op : Advances(o)
  BY <1>2 DEF Advances, restoreProjectManifestIfChanged, ReadManifest, ReadLock, Probe, WriteLock,
    ReadForRelease, Clear, ListLeftover, Launch, removeProjectDirectory, Change, Stage, Commit, Refused,
    SaveDeviceRecord, files
<1>3. CASE \E s \in NoneOr(Op) : TypesAdd(s) \/ TypesCommit(s) \/ (s \in Op /\ Works(s))
  BY <1>3, AgentDiscipline
<1>4. CASE \E p \in Process : Crash(p)
  BY <1>4 DEF Crash, files
<1>5. CASE UNCHANGED vars
  BY <1>5 DEF vars, files
<1>6. CASE \E c \in Committer : Commits(c)
  BY <1>6 DEF Commits, HookLists, HookReads, HookDecides, GitFails, files
<1> QED
  BY <1>1, <1>2, <1>3, <1>4, <1>5, <1>6 DEF Next, NoneOr

\* A dead process stays dead: what was no conflict is none.
LEMMA NoConflictStays ==
  ASSUME NEW l, NEW env, NoConflict(env, l, isAlive(l)), l # None => (alive'[l.pid] => alive[l.pid])
  PROVE  NoConflict(env, l, l # None /\ alive'[l.pid])
BY DEF NoConflict, isAlive

\* What a step makes of the git commits under way: as they were, one started, one moved
\* on in its hook, or fewer of them.
GitsAfter ==
  \/ UNCHANGED git
  \/ \E o \in Op : /\ Is(o, "commit") /\ index # head /\ Go(o, "git")
                   /\ Starts(Own(o), CommitOf(o), Actor(o))
  \/ \E s \in NoneOr(Op) : TypesCommit(s)
  \/ \E c \in Committer : Commits(c)

LEMMA GitsAfterStep == [Next]_vars => GitsAfter
<1> SUFFICES ASSUME [Next]_vars PROVE GitsAfter
  OBVIOUS
<1>1. CASE \E o \in Op : Begin(o) \/ Answers(o) \/ SessionEnds(o) \/ Throw(o)
  BY <1>1 DEF Begin, Answers, AnswerReadOnly, AnswerLeftover, AnswerRemove, SessionEnds, Throw, GitsAfter
<1>2. ASSUME NEW o \in Op, Advances(o)
      PROVE  GitsAfter
  <2>1. CASE Commit(o)
    BY <1>2, <2>1 DEF Commit, GitsAfter
  <2>2. CASE ~Commit(o)
    BY <1>2, <2>2 DEF Advances, restoreProjectManifestIfChanged, ReadManifest, ReadLock, Probe, WriteLock,
      ReadForRelease, Clear, ListLeftover, Launch, removeProjectDirectory, Change, Stage, Refused,
      SaveDeviceRecord, GitsAfter
  <2> QED
    BY <2>1, <2>2
<1>3. CASE \E s \in NoneOr(Op) : TypesAdd(s) \/ TypesCommit(s) \/ (s \in Op /\ Works(s))
  BY <1>3 DEF TypesAdd, Works, GitsAfter
<1>4. CASE \E p \in Process : Crash(p)
  BY <1>4 DEF Crash, GitsAfter
<1>5. CASE UNCHANGED vars
  BY <1>5 DEF vars, GitsAfter
<1>6. CASE \E c \in Committer : Commits(c)
  BY <1>6 DEF GitsAfter
<1> QED
  BY <1>1, <1>2, <1>3, <1>4, <1>5, <1>6 DEF Next, NoneOr

LEMMA AliveStep ==
  ASSUME Discipline, [Next]_vars
  PROVE  \A p \in Process : alive'[p] => alive[p]
<1>1. CASE \E o \in Op : Begin(o) \/ Advances(o) \/ Answers(o) \/ SessionEnds(o) \/ Throw(o)
  <2>1. UNCHANGED alive
    BY <1>1, AdvanceDiscipline DEF Others, Begin, Answers, AnswerReadOnly, AnswerLeftover, AnswerRemove,
      SessionEnds, Throw
  <2> QED
    BY <2>1
<1>2. CASE \E s \in NoneOr(Op) : TypesAdd(s) \/ TypesCommit(s) \/ (s \in Op /\ Works(s))
  BY <1>2, AgentDiscipline
<1>3. CASE \E c \in Committer : Commits(c)
  BY <1>3, GitDiscipline
<1>4. ASSUME NEW p \in Process, Crash(p)
      PROVE  \A q \in Process : alive'[q] => alive[q]
  BY <1>4, CrashDiscipline DEF Discipline, TypeOK
<1>5. CASE UNCHANGED vars
  BY <1>5 DEF vars
<1> QED
  BY <1>1, <1>2, <1>3, <1>4, <1>5 DEF Next, NoneOr

\* A commit that was not let through yet in the step was before it.
LEMMA HookStep == HookInv /\ [Next]_vars => HookInv'
<1> SUFFICES ASSUME HookInv, [Next]_vars PROVE HookInv'
  OBVIOUS
<1>0. Discipline /\ Discipline' /\ git \in Gits /\ git' \in Gits
  BY DisciplineStep DEF HookInv, Discipline, TypeOK, Gits
<1>1. ASSUME NEW c \in Committer, IsAt(c, "passed")', git'[c] = git[c]
      PROVE  LetThrough(git[c])'
  <2>1. LetThrough(git[c]) /\ IsAt(c, "passed")
    BY <1>1 DEF HookInv, IsAt
  <2>2. git[c] \in GitCommit
    BY <1>0, <2>1 DEF Gits, NoneOr, IsAt
  <2>3. git[c].seen # None => git[c].seen.pid \in Process
    BY <2>2 DEF GitCommit, NoneOr, Lock
  <2>4. git[c].staged # "nothing" =>
          NoConflict(git[c].env, git[c].seen, git[c].seen # None /\ alive'[git[c].seen.pid])
    BY <1>0, <2>1, <2>3, AliveStep, NoConflictStays DEF LetThrough
  <2> QED
    BY <1>1, <2>1, <2>4 DEF LetThrough, isAlive
<1>2. ASSUME NEW s \in NoneOr(Op), git'[<<s, "hand">>] # None, git'[<<s, "hand">>] = git[<<s, "hand">>]
      PROVE  git'[<<s, "hand">>].env = TypedBy(s) /\ git'[<<s, "hand">>].who = s
  BY <1>2 DEF HookInv
<1>3. CASE UNCHANGED git
  BY <1>0, <1>1, <1>2, <1>3 DEF HookInv, TypedBy
<1>4. ASSUME NEW o \in Op, Starts(Own(o), CommitOf(o), Actor(o))
      PROVE  HookInv'
  <2>1. /\ git'[Own(o)] = Started(CommitOf(o), Actor(o)) /\ Own(o) \in Committer
        /\ \A d \in Committer : d # Own(o) => git'[d] = git[d]
    BY <1>0, <1>4, EnvTyped, StartsTyped DEF NoneOr
  <2>2. ~IsAt(Own(o), "passed")'
    BY <2>1 DEF IsAt, Started
  <2>3. \A s \in NoneOr(Op) : <<s, "hand">> \in Committer /\ <<s, "hand">> # Own(o)
    BY DEF Committer, Own
  <2>4. \A c \in Committer : IsAt(c, "passed")' => LetThrough(git[c])'
    BY <1>1, <2>1, <2>2
  <2>5. \A s \in NoneOr(Op) : git'[<<s, "hand">>] # None =>
          git'[<<s, "hand">>].env = TypedBy(s) /\ git'[<<s, "hand">>].who = s
    BY <1>2, <2>1, <2>3
  <2> QED
    BY <1>0, <2>4, <2>5 DEF HookInv, TypedBy
<1>5. ASSUME NEW s \in NoneOr(Op), TypesCommit(s)
      PROVE  HookInv'
  <2>1. TypedBy(s) \in CommitEnv /\ <<s, "hand">> \in Committer
    BY DEF TypedBy, CommitEnv, NoneOr, Committer
  <2>2. /\ git'[<<s, "hand">>] = Started(TypedBy(s), s)
        /\ \A d \in Committer : d # <<s, "hand">> => git'[d] = git[d]
    BY <1>0, <1>5, <2>1, StartsTyped DEF TypesCommit
  <2>3. ~IsAt(<<s, "hand">>, "passed")'
    BY <2>2 DEF IsAt, Started
  <2>4. \A c \in Committer : IsAt(c, "passed")' => LetThrough(git[c])'
    BY <1>1, <2>2, <2>3
  <2>5. ASSUME NEW t \in NoneOr(Op), git'[<<t, "hand">>] # None
        PROVE  git'[<<t, "hand">>].env = TypedBy(t) /\ git'[<<t, "hand">>].who = t
    <3>1. <<t, "hand">> \in Committer
      BY DEF Committer
    <3>2. CASE t = s
      BY <2>2, <3>2 DEF Started
    <3>3. CASE t # s
      BY <1>2, <2>2, <2>5, <3>1, <3>3
    <3> QED
      BY <3>2, <3>3
  <2> QED
    BY <1>0, <2>4, <2>5 DEF HookInv, TypedBy
<1>6. ASSUME NEW c \in Committer, Commits(c), Moved(c)
      PROVE  HookInv'
  <2>1. git[c] \in GitCommit
    BY <1>0, <1>6 DEF Commits, HookLists, HookReads, HookDecides, GitFails, CommitLands, IsAt, Gits, NoneOr
  <2>2. IsAt(c, "passed")' => LetThrough(git[c])'
    <3>1. CASE HookDecides(c)
      <4> SUFFICES ASSUME IsAt(c, "passed")' PROVE LetThrough(git[c])'
        OBVIOUS
      <4>1. git'[c] = IF Lets(git[c]) THEN [git[c] EXCEPT !.at = "passed"] ELSE None
        BY <1>0, <3>1 DEF HookDecides, Gits
      <4>2. Lets(git[c]) /\ git'[c] = [git[c] EXCEPT !.at = "passed"]
        BY <4>1 DEF IsAt
      <4>3. /\ git'[c].staged = git[c].staged /\ git'[c].env = git[c].env /\ git'[c].seen = git[c].seen
            /\ UNCHANGED alive
        BY <2>1, <3>1, <4>2 DEF GitCommit, HookDecides
      <4> QED
        BY <4>2, <4>3 DEF Lets, AllowsCommit, LetThrough, isAlive
    <3>2. CASE HookLists(c) \/ HookReads(c) \/ GitFails(c)
      BY <1>0, <2>1, <3>2 DEF HookLists, HookReads, GitFails, IsAt, Gits, GitCommit
    <3>3. CASE CommitLands(c)
      BY <3>3 DEF CommitLands, IsAt
    <3> QED
      BY <1>6, <3>1, <3>2, <3>3 DEF Commits
  <2>3. git'[c] # None => git'[c].env = git[c].env /\ git'[c].who = git[c].who
    <3>1. CASE HookDecides(c)
      BY <1>0, <2>1, <3>1 DEF HookDecides, Gits, GitCommit
    <3>2. CASE HookLists(c) \/ HookReads(c) \/ GitFails(c)
      BY <1>0, <2>1, <3>2 DEF HookLists, HookReads, GitFails, IsAt, Gits, GitCommit
    <3>3. CASE CommitLands(c)
      BY <3>3 DEF CommitLands
    <3> QED
      BY <1>6, <3>1, <3>2, <3>3 DEF Commits
  <2>4. \A d \in Committer : d # c => git'[d] = git[d]
    BY <1>6 DEF Moved
  <2>5. \A d \in Committer : IsAt(d, "passed")' => LetThrough(git[d])'
    BY <1>1, <2>2, <2>4
  <2>6. ASSUME NEW t \in NoneOr(Op), git'[<<t, "hand">>] # None
        PROVE  git'[<<t, "hand">>].env = TypedBy(t) /\ git'[<<t, "hand">>].who = t
    <3>1. <<t, "hand">> \in Committer
      BY DEF Committer
    <3>2. CASE <<t, "hand">> = c
      <4>1. git[c] # None
        BY <2>1, NoneGitAssumption
      <4> QED
        BY <2>3, <2>6, <3>2, <4>1 DEF HookInv
    <3>3. CASE <<t, "hand">> # c
      BY <1>2, <2>4, <2>6, <3>1, <3>3
    <3> QED
      BY <3>2, <3>3
  <2> QED
    BY <1>0, <2>5, <2>6 DEF HookInv, TypedBy
<1>7. ASSUME NEW c \in Committer, LandsFor(c)
      PROVE  HookInv'
  <2>1. \A s \in NoneOr(Op) : <<s, "hand">> \in Committer
    BY DEF Committer
  <2> QED
    BY <1>0, <1>7, <2>1 DEF LandsFor, HookInv, IsAt
<1> QED
  BY <1>0, <1>3, <1>4, <1>5, <1>6, <1>7, GitsAfterStep, GitDiscipline DEF GitsAfter

LEMMA HookInit == Init => HookInv
<1> SUFFICES ASSUME Init PROVE HookInv
  OBVIOUS
<1>1. Discipline
  BY DisciplineInit
<1>2. \A c \in Committer : git[c] = None
  BY DEF Init
<1>3. \A s \in NoneOr(Op) : <<s, "hand">> \in Committer
  BY DEF Committer
<1> QED
  BY <1>1, <1>2, <1>3 DEF HookInv, IsAt

(* In any interleaving, of operations in any processes and commits by any hand, the  *)
(* guard lets the holder of the lock that it read through, and of others nobody. A    *)
(* lock that is taken after the hook read it does not bind the commit.              *)
THEOREM CommitsAreLetThrough == Spec => [][PassedTheHook]_vars
<1>1. ASSUME HookInv, [Next]_vars, head' # head
      PROVE  \E c \in Committer :
               /\ IsAt(c, "passed") /\ head' = git[c].content /\ author' = git[c].who
               /\ git[c].staged = "manifest" => \E o \in Op : c = Own(o) /\ git[c].env.marked
               /\ git[c].staged # "nothing" /\ isAlive(git[c].seen) =>
                    HoldsBySession(git[c].env, git[c].seen) \/ isLockHolderProcess(git[c].env, git[c].seen)
  <2>1. PICK c \in Committer : CommitLands(c)
    BY <1>1, WhoCommits DEF HookInv
  <2>2. LetThrough(git[c]) /\ IsAt(c, "passed") /\ git[c] # None
    BY <1>1, <2>1 DEF CommitLands, HookInv, IsAt
  <2>3. (\E o \in Op : c = Own(o)) \/ (\E s \in NoneOr(Op) : c = <<s, "hand">>)
    BY DEF Committer, Own
  <2>4. ASSUME git[c].staged = "manifest"
        PROVE  \E o \in Op : c = Own(o) /\ git[c].env.marked
    <3>1. git[c].env.marked
      BY <2>2, <2>4 DEF LetThrough
    <3>2. ASSUME NEW s \in NoneOr(Op), c = <<s, "hand">>
          PROVE  FALSE
      <4>1. git[c].env = TypedBy(s)
        BY <1>1, <2>2, <3>2 DEF HookInv
      <4>2. ~TypedBy(s).marked
        BY DEF TypedBy
      <4> QED
        BY <3>1, <4>1, <4>2
    <3> QED
      BY <2>3, <3>1, <3>2
  <2>5. git[c].staged # "nothing" /\ isAlive(git[c].seen) =>
          HoldsBySession(git[c].env, git[c].seen) \/ isLockHolderProcess(git[c].env, git[c].seen)
    BY <2>2 DEF LetThrough, NoConflict, isAlive
  <2> QED
    BY <2>1, <2>2, <2>4, <2>5 DEF CommitLands
<1>2. HookInv /\ [Next]_vars => [PassedTheHook]_vars
  BY <1>1 DEF PassedTheHook
<1> QED
  BY <1>2, HookInit, HookStep, PTL DEF Spec

-----------------------------------------------------------------------------
(* Operations at work, and commits, that do not overlap. *)

Working(o) == op[o].at \in AtWork

Alone == \A o, x \in Op : Working(o) /\ Working(x) => o = x

\* One commit is under way at a time, and beside an operation at work only its own.
GitAlone ==
  /\ \A c, d \in Committer : git[c] # None /\ git[d] # None => c = d
  /\ \A c \in Committer, o \in Op : git[c] # None /\ Working(o) => c = Own(o) /\ Is(o, "git")

\* What git and its hook have read is still so.
GitHolds(c) ==
  git[c] # None =>
    /\ git[c].content = index /\ index # head
    /\ git[c].at # "started" => git[c].staged = Staged
    /\ git[c].at \in {"read", "passed"} => git[c].seen = lock

GitInv ==
  /\ HookInv
  /\ Alone
  /\ GitAlone
  /\ \A c \in Committer : GitHolds(c)

\* Only o is at work.
Floor(o) == \A x \in Op : x # o => ~Working(x)

\* An operation that moves has the floor, and no commit is under way.
LEMMA FloorOf ==
  ASSUME GitInv, ~Overlap, NEW o \in Op,
         \/ Begin(o) \/ Advances(o) \/ Answers(o) \/ Throw(o)
         \/ SessionEnds(o) /\ Is(o, "running")
  PROVE  Floor(o) /\ NoCommit
<1>1. CASE Begin(o) \/ Answers(o) \/ (SessionEnds(o) /\ Is(o, "running"))
  <2>1. MayMove(o)
    BY <1>1 DEF Begin, Answers, AnswerReadOnly, AnswerLeftover, AnswerRemove, SessionEnds, Is
  <2> QED
    BY <2>1 DEF MayMove, Floor, Working
<1>2. CASE Advances(o) \/ Throw(o)
  <2>1. Working(o) /\ (Is(o, "git") => git[Own(o)] = None)
    <3>1. CASE Advances(o)
      BY <3>1 DEF Advances, restoreProjectManifestIfChanged, ReadManifest, ReadLock, Probe, WriteLock,
        ReadForRelease, Clear, ListLeftover, Launch, removeProjectDirectory, Change, Stage, Commit, Refused,
        SaveDeviceRecord, Is, Working, AtWork, Prelude, Attempt, Closing
    <3>2. CASE Throw(o)
      BY <3>2 DEF Throw, Working, AtWork, Is, Prelude, Attempt
    <3> QED
      BY <1>2, <3>1, <3>2
  <2>2. NoCommit
    BY <2>1 DEF GitInv, GitAlone, NoCommit
  <2> QED
    BY <2>1, <2>2 DEF GitInv, Alone, Floor
<1> QED
  BY <1>1, <1>2

LEMMA AloneKept ==
  ASSUME NEW o \in Op, Floor(o), Others(o)
  PROVE  Alone'
BY DEF Floor, Others, Alone, Working

\* What changes git, of the steps of an operation.
LEMMA OperationsGit ==
  ASSUME NEW o \in Op, Begin(o) \/ Advances(o) \/ Answers(o) \/ SessionEnds(o) \/ Throw(o)
  PROVE  \/ UNCHANGED git
         \/ /\ Is(o, "commit") /\ index # head /\ Go(o, "git")
            /\ Starts(Own(o), CommitOf(o), Actor(o)) /\ UNCHANGED <<alive, lock, files>>
<1>1. CASE Begin(o) \/ Answers(o) \/ SessionEnds(o) \/ Throw(o)
  BY <1>1 DEF Begin, Answers, AnswerReadOnly, AnswerLeftover, AnswerRemove, SessionEnds, Throw
<1>2. CASE Commit(o)
  BY <1>2 DEF Commit
<1>3. CASE Advances(o) /\ ~Commit(o)
  BY <1>3 DEF Advances, restoreProjectManifestIfChanged, ReadManifest, ReadLock, Probe, WriteLock,
    ReadForRelease, Clear, ListLeftover, Launch, removeProjectDirectory, Change, Stage, Refused,
    SaveDeviceRecord
<1> QED
  BY <1>1, <1>2, <1>3

LEMMA OperationsOthers ==
  ASSUME Discipline, NEW o \in Op, Begin(o) \/ Advances(o) \/ Answers(o) \/ SessionEnds(o) \/ Throw(o)
  PROVE  Discipline' /\ Others(o)
BY BeginDiscipline, AdvanceDiscipline, OtherDiscipline DEF Begin, Others

\* A step that takes all but some operations as it was.
LEMMA GitSurvives ==
  ASSUME GitInv, HookInv', UNCHANGED <<lock, files, git>>,
         \A x \in Op : op'[x] = op[x] \/ op'[x].at \in {"idle", "orphan"}
  PROVE  GitInv'
<1>1. \A x \in Op : Working(x)' => Working(x) /\ op'[x] = op[x]
  BY DEF Working, AtWork, Prelude, Attempt, Closing
<1>2. Alone'
  BY <1>1 DEF GitInv, Alone
<1>3. GitAlone'
  BY <1>1 DEF GitInv, GitAlone, Is
<1>4. \A c \in Committer : GitHolds(c)'
  BY DEF GitInv, GitHolds, Staged, files
<1> QED
  BY <1>2, <1>3, <1>4 DEF GitInv

LEMMA GitStep == ~Overlap /\ GitInv /\ [Next]_vars => GitInv'
<1> SUFFICES ASSUME ~Overlap, GitInv, [Next]_vars PROVE GitInv'
  OBVIOUS
<1>0. HookInv' /\ Discipline
  BY HookStep DEF GitInv, HookInv
<1>1. CASE UNCHANGED vars
  BY <1>0, <1>1, GitSurvives DEF vars
<1>2. ASSUME NEW o \in Op, Begin(o) \/ Advances(o) \/ Answers(o) \/ SessionEnds(o) \/ Throw(o)
      PROVE  GitInv'
  <2>0. Others(o)
    BY <1>0, <1>2, OperationsOthers
  <2>1. CASE SessionEnds(o) /\ ~Is(o, "running")
    <3>1. UNCHANGED <<lock, files, git>> /\ op'[o].at = "idle"
      BY <1>0, <2>1, GoTo DEF SessionEnds, Is
    <3> QED
      BY <1>0, <2>0, <3>1, GitSurvives DEF Others
  <2>2. CASE ~(SessionEnds(o) /\ ~Is(o, "running"))
    <3>1. Floor(o) /\ NoCommit
      BY <1>2, <2>2, FloorOf
    <3>2. Alone'
      BY <2>0, <3>1, AloneKept
    <3>3. CASE UNCHANGED git
      <4>1. \A c \in Committer : git'[c] = None
        BY <3>1, <3>3 DEF NoCommit
      <4> QED
        BY <1>0, <3>2, <4>1 DEF GitInv, GitAlone, GitHolds
    <3>4. CASE /\ Is(o, "commit") /\ index # head /\ Go(o, "git")
               /\ Starts(Own(o), CommitOf(o), Actor(o)) /\ UNCHANGED <<alive, lock, files>>
      <4>1. /\ git'[Own(o)] = Started(CommitOf(o), Actor(o)) /\ Own(o) \in Committer
            /\ \A d \in Committer : d # Own(o) => git'[d] = None
        BY <1>0, <3>1, <3>4, EnvTyped, StartsTyped DEF NoneOr, NoCommit
      <4>2. Is(o, "git")'
        BY <1>0, <3>4, GoTo DEF Is
      <4>3. \A x \in Op : x # o => ~Working(x)'
        BY <2>0, <3>1 DEF Floor, Others, Working
      <4>4. GitAlone'
        BY <4>1, <4>2, <4>3 DEF GitAlone
      <4>5. \A c \in Committer : GitHolds(c)'
        BY <3>4, <4>1 DEF GitHolds, Started, files
      <4> QED
        BY <1>0, <3>2, <4>4, <4>5 DEF GitInv
    <3> QED
      BY <1>2, <3>3, <3>4, OperationsGit
  <2> QED
    BY <2>1, <2>2
<1>3. ASSUME NEW s \in NoneOr(Op), TypesAdd(s) \/ TypesCommit(s) \/ (s \in Op /\ Works(s))
      PROVE  GitInv'
  <2>1. UNCHANGED <<op, lock, head>>
    BY <1>0, <1>3, AgentDiscipline
  <2>2. Alone'
    BY <2>1 DEF GitInv, Alone, Working
  <2>3. CASE TypesAdd(s)
    <3>1. \A c \in Committer : git'[c] = None
      BY <2>3 DEF TypesAdd, NoCommit
    <3> QED
      BY <1>0, <2>2, <3>1 DEF GitInv, GitAlone, GitHolds
  <2>4. CASE TypesCommit(s)
    <3>0. TypedBy(s) \in CommitEnv /\ <<s, "hand">> \in Committer
      BY DEF TypedBy, CommitEnv, NoneOr, Committer
    <3>1. /\ git'[<<s, "hand">>] = Started(TypedBy(s), s)
          /\ \A d \in Committer : d # <<s, "hand">> => git'[d] = None
      BY <1>0, <2>4, <3>0, StartsTyped DEF TypesCommit, NoCommit
    <3>2. \A x \in Op : ~Working(x)'
      BY <2>1, <2>4 DEF TypesCommit, Working
    <3>3. GitAlone'
      BY <3>1, <3>2 DEF GitAlone
    <3>4. \A c \in Committer : GitHolds(c)'
      BY <2>4, <3>1 DEF TypesCommit, GitHolds, Started, files
    <3> QED
      BY <1>0, <2>2, <3>3, <3>4 DEF GitInv
  <2>5. CASE s \in Op /\ Works(s)
    <3>1. UNCHANGED <<git, index, head, lock, op>>
      BY <2>5 DEF Works
    <3> QED
      BY <1>0, <2>2, <3>1 DEF GitInv, GitAlone, GitHolds, Working, Is, Staged
  <2> QED
    BY <1>3, <2>3, <2>4, <2>5
<1>4. ASSUME NEW c \in Committer, Commits(c), Moved(c)
      PROVE  GitInv'
  <2>0. git \in Gits /\ git[c] \in GitCommit
    BY <1>0, <1>4 DEF Commits, HookLists, HookReads, HookDecides, GitFails, CommitLands, IsAt, Gits, NoneOr,
      Discipline, TypeOK
  <2>1. /\ UNCHANGED <<op, lock, index, head>> /\ git[c] # None
        /\ \A d \in Committer : d # c => git'[d] = git[d]
    BY <1>0, <1>4, <2>0, GitDiscipline, NoneGitAssumption DEF Moved, files
  <2>2. \A d \in Committer : git'[d] # None => git[d] # None
    BY <2>1
  <2>3. Alone' /\ GitAlone'
    BY <2>1, <2>2 DEF GitInv, Alone, GitAlone, Working, Is
  <2>4. GitHolds(c)'
    <3>0. GitHolds(c)
      BY DEF GitInv
    <3> SUFFICES ASSUME git'[c] # None PROVE GitHolds(c)'
      BY DEF GitHolds
    <3>1. CASE HookLists(c)
      <4>1. /\ git'[c].at = "listed" /\ git'[c].staged = Staged /\ git'[c].content = git[c].content
        BY <2>0, <3>1 DEF HookLists, Gits, GitCommit
      <4> QED
        BY <2>1, <3>0, <4>1 DEF GitHolds, Staged
    <3>2. CASE HookReads(c)
      <4>1. /\ git'[c].at = "read" /\ git'[c].staged = git[c].staged /\ git'[c].content = git[c].content
            /\ git'[c].seen = IF git[c].staged = "nothing" THEN None ELSE lock
            /\ git[c].at = "listed"
        BY <2>0, <3>2 DEF HookReads, Gits, GitCommit, IsAt
      <4>2. git[c].staged # "nothing"
        BY <2>1, <3>0, <4>1 DEF GitHolds, Staged
      <4> QED
        BY <2>1, <3>0, <4>1, <4>2 DEF GitHolds, Staged
    <3>3. CASE HookDecides(c)
      <4>1. git'[c] = [git[c] EXCEPT !.at = "passed"] /\ git[c].at = "read"
        BY <2>0, <3>3 DEF HookDecides, Gits, IsAt
      <4>2. /\ git'[c].staged = git[c].staged /\ git'[c].content = git[c].content
            /\ git'[c].seen = git[c].seen
        BY <2>0, <4>1 DEF GitCommit
      <4> QED
        BY <2>1, <3>0, <4>1, <4>2 DEF GitHolds, Staged
    <3>4. CASE GitFails(c)
      BY <2>0, <3>4 DEF GitFails, Gits
    <3>5. CASE CommitLands(c)
      BY <3>5 DEF CommitLands
    <3> QED
      BY <1>4, <3>1, <3>2, <3>3, <3>4, <3>5 DEF Commits
  <2>5. \A d \in Committer : GitHolds(d)'
    BY <2>1, <2>4 DEF GitInv, GitHolds, Staged
  <2> QED
    BY <1>0, <2>3, <2>5 DEF GitInv
<1>5. ASSUME NEW c \in Committer, Commits(c), LandsFor(c)
      PROVE  GitInv'
  <2>1. \A d \in Committer : git'[d] = None
    BY <1>5 DEF LandsFor
  <2>2. \A x \in Op : Working(x)' => Working(x)
    BY <1>5 DEF LandsFor, Working, Is, AtWork, Attempt, Others
  <2> QED
    BY <1>0, <2>1, <2>2 DEF GitInv, Alone, GitAlone, GitHolds
<1>6. ASSUME NEW p \in Process, Crash(p) PROVE GitInv'
  <2>1. UNCHANGED <<lock, files, git>> /\ \A x \in Op : op'[x] = op[x] \/ op'[x].at \in {"idle", "orphan"}
    BY <1>0, <1>6, CrashDiscipline
  <2> QED
    BY <1>0, <2>1, GitSurvives
<1> QED
  BY <1>0, <1>1, <1>2, <1>3, <1>4, <1>5, <1>6, GitDiscipline DEF Next, NoneOr

LEMMA GitInit == Init => GitInv
<1> SUFFICES ASSUME Init PROVE GitInv
  OBVIOUS
<1>1. \A o \in Op : op[o].at = "idle"
  BY DEF Init, Idle
<1>2. \A c \in Committer : git[c] = None
  BY DEF Init
<1> QED
  BY <1>1, <1>2, HookInit DEF GitInv, Alone, GitAlone, GitHolds, Working, AtWork, Prelude, Attempt, Closing

LEMMA GitAlways == ~Overlap /\ Spec => []GitInv
<1>1. CASE Overlap
  BY <1>1
<1>2. CASE ~Overlap
  BY <1>2, GitInit, GitStep, PTL DEF Spec
<1> QED
  BY <1>1, <1>2

\* What lands is what is staged, and passed the hook with the lock there is.
LEMMA Landing ==
  ASSUME GitInv, NEW c \in Committer, IsAt(c, "passed")
  PROVE  /\ git[c].content = index /\ index # head /\ git[c].staged = Staged /\ git[c].staged # "nothing"
         /\ NoConflict(git[c].env, lock, isAlive(lock))
         /\ git[c].staged = "manifest" => git[c].env.marked
         /\ \A o \in Op : Working(o) => c = Own(o) /\ Is(o, "git")
<1>1. GitHolds(c) /\ LetThrough(git[c])
  BY DEF GitInv, HookInv
<1>2. /\ git[c].content = index /\ index # head /\ git[c].staged = Staged /\ git[c].seen = lock
  BY <1>1 DEF GitHolds, IsAt
<1>3. git[c].staged # "nothing"
  BY <1>2 DEF Staged
<1> QED
  BY <1>1, <1>2, <1>3 DEF LetThrough, GitInv, GitAlone, IsAt

(* Where operations at work and commits do not overlap, no commit of a project's    *)
(* files lands while another live session has the project locked.                  *)
THEOREM NothingLandsBesideALock == ~Overlap /\ Spec => CommitsBesideLock
<1>1. ASSUME GitInv, NEW c \in Committer, CommitLands(c)
      PROVE  NoConflict(git[c].env, lock, isAlive(lock))
  BY <1>1, Landing DEF CommitLands
<1>2. GitInv /\ [Next]_vars =>
        [\A c \in Committer :
           CommitLands(c) /\ git[c].staged # "nothing" => NoConflict(git[c].env, lock, isAlive(lock))]_vars
  BY <1>1
<1> QED
  BY <1>2, GitAlways, PTL DEF Spec, CommitsBesideLock

\* Only a commit that seeya marks as one that writes the manifest changes it.
ManifestIsSeeyas ==
  head'.manifest # head.manifest =>
    \E o \in Op : IsAt(Own(o), "passed") /\ git[Own(o)].env.marked /\ author' = git[Own(o)].who

(* Where operations at work and commits do not overlap, the committed seeya.json is  *)
(* changed by seeya's own operations alone: not by an agent or a person, nor by the *)
(* commit of leftovers of an open.                                                *)
THEOREM TheManifestIsSeeyas == ~Overlap /\ Spec => [][ManifestIsSeeyas]_vars
<1>1. ASSUME GitInv, [Next]_vars, head'.manifest # head.manifest
      PROVE  \E o \in Op : IsAt(Own(o), "passed") /\ git[Own(o)].env.marked /\ author' = git[Own(o)].who
  <2>0. head' # head /\ Discipline
    BY <1>1 DEF GitInv, HookInv
  <2>1. PICK c \in Committer : CommitLands(c)
    BY <1>1, <2>0, WhoCommits
  <2>2. IsAt(c, "passed") /\ head' = git[c].content /\ author' = git[c].who /\ git[c] # None
    BY <2>1 DEF CommitLands, IsAt
  <2>3. git[c].staged = "manifest" /\ git[c].env.marked
    BY <1>1, <2>2, Landing DEF Staged
  <2>4. ASSUME NEW s \in NoneOr(Op), c = <<s, "hand">>
        PROVE  FALSE
    <3>1. git[c].env = TypedBy(s)
      BY <1>1, <2>2, <2>4 DEF GitInv, HookInv
    <3>2. ~TypedBy(s).marked
      BY DEF TypedBy
    <3> QED
      BY <2>3, <3>1, <3>2
  <2>5. (\E o \in Op : c = Own(o)) \/ (\E s \in NoneOr(Op) : c = <<s, "hand">>)
    BY DEF Committer, Own
  <2> QED
    BY <2>2, <2>3, <2>4, <2>5
<1>2. GitInv /\ [Next]_vars => [ManifestIsSeeyas]_vars
  BY <1>1 DEF ManifestIsSeeyas
<1> QED
  BY <1>2, GitAlways, PTL DEF Spec

\* Within its hook a git commit keeps what it is made with, and of what.
LEMMA MovedKeeps ==
  ASSUME Discipline, NEW c \in Committer, Commits(c), Moved(c), NEW d \in Committer, git'[d] # None
  PROVE  /\ git[d] # None /\ git'[d].env = git[d].env /\ git'[d].who = git[d].who
         /\ git'[d].content = git[d].content
<1>0. git \in Gits /\ git[c] \in GitCommit
  BY DEF Commits, HookLists, HookReads, HookDecides, GitFails, CommitLands, IsAt, Gits, NoneOr, Discipline, TypeOK
<1>1. CASE d # c
  BY <1>1 DEF Moved
<1>2. CASE d = c
  <2>1. CASE HookDecides(c)
    BY <1>0, <1>2, <2>1, NoneGitAssumption DEF HookDecides, Gits, GitCommit
  <2>2. CASE HookLists(c) \/ HookReads(c) \/ GitFails(c)
    BY <1>0, <1>2, <2>2, NoneGitAssumption DEF HookLists, HookReads, GitFails, IsAt, Gits, GitCommit
  <2>3. CASE CommitLands(c)
    BY <1>2, <2>3 DEF CommitLands
  <2> QED
    BY <2>1, <2>2, <2>3 DEF Commits
<1> QED
  BY <1>1, <1>2

\* What agents and people start by hand is not marked as seeya's.
LEMMA HandGits ==
  ASSUME Discipline, NEW s \in NoneOr(Op), TypesAdd(s) \/ TypesCommit(s) \/ (s \in Op /\ Works(s))
  PROVE  \A c \in Committer : git'[c] = git[c] \/ ~git'[c].env.marked
<1>1. CASE TypesCommit(s)
  <2>1. TypedBy(s) \in CommitEnv /\ <<s, "hand">> \in Committer /\ ~TypedBy(s).marked
    BY DEF TypedBy, CommitEnv, NoneOr, Committer
  <2>2. /\ git'[<<s, "hand">>] = Started(TypedBy(s), s)
        /\ \A d \in Committer : d # <<s, "hand">> => git'[d] = git[d]
    BY <1>1, <2>1, StartsTyped DEF TypesCommit
  <2>3. ~git'[<<s, "hand">>].env.marked
    BY <2>1, <2>2 DEF Started
  <2> QED
    BY <2>2, <2>3
<1>2. CASE ~TypesCommit(s)
  BY <1>2 DEF TypesAdd, Works
<1> QED
  BY <1>1, <1>2

-----------------------------------------------------------------------------
(* What is on its way to be committed. *)

OnItsWay(o) ==
  /\ op[o].at \in {"stage", "commit"} => Wanted(op[o].kind, tree.manifest)
  /\ Is(o, "commit") => Wanted(op[o].kind, index.manifest)
  /\ Is(o, "git") /\ git[Own(o)] # None => Wanted(op[o].kind, git[Own(o)].content.manifest)

\* The manifest that an operation means to change is still there.
SeesManifest(o) ==
  op[o].at \in {"readLock", "probe", "writeLock", "change"} /\ op[o].kind \notin {"open", "remove"} =>
    tree.manifest # None

\* A project whose removal is committed has no manifest, and one whose removal is about
\* to be.
NoGhost == head.manifest = None => tree.manifest = None

PendingGhost(c) ==
  git[c] # None /\ git[c].env.marked /\ git[c].content.manifest = None => tree.manifest = None

CommitInv ==
  /\ GitInv
  /\ NoGhost
  /\ \A o \in Op : OnItsWay(o) /\ SeesManifest(o)
  /\ \A c \in Committer : PendingGhost(c)

\* What a step of the operation o that has the floor leads to.
LEMMA CommitMoves ==
  ASSUME CommitInv, GitInv', NEW o \in Op, Floor(o), Others(o), OnItsWay(o)', SeesManifest(o)', NoGhost',
         \A c \in Committer : git'[c] = None
  PROVE  CommitInv'
<1>1. \A x \in Op : x # o => OnItsWay(x)' /\ SeesManifest(x)'
  BY DEF Floor, Others, Working, OnItsWay, SeesManifest, Is, AtWork, Prelude, Attempt
<1> QED
  BY <1>1 DEF CommitInv, PendingGhost

\* A step that takes the files, and a shorter list of operations, as they were.
LEMMA CommitSurvives ==
  ASSUME CommitInv, GitInv', UNCHANGED <<files, git>>,
         \A x \in Op : op'[x] = op[x] \/ op'[x].at \in {"idle", "orphan"}
  PROVE  CommitInv'
<1>1. \A x \in Op : OnItsWay(x)' /\ SeesManifest(x)'
  BY DEF CommitInv, OnItsWay, SeesManifest, Is, files
<1>2. NoGhost' /\ \A c \in Committer : PendingGhost(c)'
  BY DEF CommitInv, NoGhost, PendingGhost, files
<1> QED
  BY <1>1, <1>2 DEF CommitInv

LEMMA CommitAdvances ==
  ASSUME CommitInv, GitInv', ~Overlap, NEW o \in Op, Advances(o)
  PROVE  CommitInv' /\ (op'[o].success /\ ~op[o].success => Wanted(op[o].kind, head'.manifest))
<1>0. op[o] \in Operation /\ Remembers(op[o], alive[HostOf[o]]) /\ Discipline /\ op \in [Op -> Operation]
  BY Typed DEF CommitInv, GitInv, HookInv, Discipline, TypeOK
<1>a. Others(o) /\ Floor(o) /\ NoCommit
  BY <1>0, AdvanceDiscipline, FloorOf DEF CommitInv
<1>b. NoGhost /\ OnItsWay(o) /\ SeesManifest(o)
  BY DEF CommitInv
<1>c. UNCHANGED git => \A c \in Committer : git'[c] = None
  BY <1>a DEF NoCommit
<1>1. CASE \/ ReadManifest(o) \/ ReadLock(o) \/ Probe(o) \/ WriteLock(o) \/ ReadForRelease(o) \/ Clear(o)
           \/ SaveDeviceRecord(o) \/ ListLeftover(o) \/ Launch(o) \/ Refused(o)
  <2>0. UNCHANGED <<files, git>>
    BY <1>1 DEF ReadManifest, ReadLock, Probe, WriteLock, ReadForRelease, Clear, SaveDeviceRecord,
      ListLeftover, Launch, Refused, files
  <2>1. op'[o].at \notin {"stage", "commit", "git"} /\ (op'[o].success => op[o].success)
    <3>1. CASE Clear(o) \/ SaveDeviceRecord(o) \/ ListLeftover(o) \/ Refused(o)
      BY <1>0, <3>1, GoTo DEF Clear, SaveDeviceRecord, ListLeftover, Refused, Failed
    <3>2. CASE ReadManifest(o) \/ ReadLock(o)
      BY <1>0, <3>2, GoTo DEF ReadManifest, ReadLock, Operation
    <3>3. CASE Probe(o) \/ WriteLock(o)
      BY <1>0, <3>3, GoTo DEF Probe, Forget, WriteLock, Operation
    <3>4. CASE ReadForRelease(o) \/ Launch(o)
      BY <1>0, <3>4, GoTo DEF ReadForRelease, Past, Launch, Tail, Is
    <3> QED
      BY <1>1, <3>1, <3>2, <3>3, <3>4
  <2>2. OnItsWay(o)'
    BY <2>1 DEF OnItsWay, Is
  <2>3. SeesManifest(o)'
    <3>1. CASE ReadManifest(o)
      <4>1. \/ op'[o].at = "idle"
            \/ tree.manifest # None
        BY <1>0, <3>1, GoTo DEF ReadManifest, Accepts
      <4> QED
        BY <2>0, <4>1 DEF SeesManifest, files
    <3>2. CASE ReadLock(o) \/ Probe(o)
      <4>1. \/ op'[o].at \in {"idle", "askReadOnly"}
            \/ op'[o].kind = op[o].kind /\ op[o].at \in {"readLock", "probe"}
        BY <1>0, <3>2, GoTo DEF ReadLock, Probe, Forget, Operation, Is
      <4> QED
        BY <1>b, <2>0, <4>1 DEF SeesManifest, files
    <3>3. CASE WriteLock(o)
      <4>1. op'[o].kind = op[o].kind /\ op[o].at = "writeLock"
        BY <1>0, <3>3 DEF WriteLock, Operation, Is
      <4> QED
        BY <1>b, <2>0, <4>1 DEF SeesManifest, files
    <3>4. CASE Clear(o) \/ SaveDeviceRecord(o) \/ ListLeftover(o) \/ ReadForRelease(o) \/ Launch(o) \/ Refused(o)
      <4>1. op'[o].at \notin {"readLock", "probe", "writeLock", "change"}
        BY <1>0, <3>4, GoTo DEF Clear, SaveDeviceRecord, ListLeftover, ReadForRelease, Past, Launch, Tail,
          Refused, Failed, Is
      <4> QED
        BY <4>1 DEF SeesManifest
    <3> QED
      BY <1>1, <3>1, <3>2, <3>3, <3>4
  <2>4. NoGhost'
    BY <1>b, <2>0 DEF NoGhost, files
  <2> QED
    BY <1>a, <1>c, <2>0, <2>1, <2>2, <2>3, <2>4, CommitMoves
<1>2. CASE restoreProjectManifestIfChanged(o)
  <2>1. /\ op'[o].at \in {"idle", "manifest"} /\ (op'[o].success => op[o].success)
        /\ UNCHANGED <<git, head>>
    BY <1>0, <1>2, GoTo DEF restoreProjectManifestIfChanged
  <2>2. tree'.manifest \in {tree.manifest, head.manifest}
    BY <1>0, <1>2, Typed DEF restoreProjectManifestIfChanged, Content
  <2>3. OnItsWay(o)' /\ SeesManifest(o)'
    BY <2>1 DEF OnItsWay, SeesManifest, Is
  <2>4. NoGhost'
    BY <1>b, <2>1, <2>2 DEF NoGhost
  <2> QED
    BY <1>a, <1>c, <2>1, <2>3, <2>4, CommitMoves
<1>3. CASE removeProjectDirectory(o)
  <2>1. /\ op'[o].at = "stage" /\ op'[o].kind = "remove" /\ op'[o].success = op[o].success
        /\ tree'.manifest = None /\ UNCHANGED git
    BY <1>0, <1>3, GoTo DEF removeProjectDirectory, Removed, Remembers, Is
  <2>2. OnItsWay(o)' /\ SeesManifest(o)' /\ NoGhost'
    BY <2>1 DEF OnItsWay, SeesManifest, NoGhost, Is, Wanted
  <2> QED
    BY <1>a, <1>c, <2>1, <2>2, CommitMoves
<1>4. CASE Change(o)
  <2>1. /\ op'[o].at = "stage" /\ op'[o].kind = op[o].kind /\ op'[o].success = op[o].success
        /\ op[o].at = "change" /\ UNCHANGED <<git, head>>
    BY <1>0, <1>4 DEF Change, Forget, Operation, Is
  <2>2. op[o].manifest \in Manifest /\ op[o].kind \in Kind \ {"open", "remove"}
    BY <1>0, <1>4 DEF Change, Is, Remembers, Operation, NoneOr
  <2>3. tree'.manifest = Changed(op[o].kind, op[o].manifest)
    BY <1>4, <1>0, Typed DEF Change, Content
  <2>4. Wanted(op[o].kind, tree'.manifest)
    <3>0. tree'.manifest \in Manifest
      BY <2>2, <2>3 DEF Changed, Manifest, Kind
    <3>1. tree'.manifest # None
      BY <3>0, NoneManifestAssumption
    <3> QED
      BY <2>2, <2>3, <3>1 DEF Changed, Manifest, Kind, Wanted
  <2>5. OnItsWay(o)' /\ SeesManifest(o)'
    BY <2>1, <2>4 DEF OnItsWay, SeesManifest, Is
  <2>6. NoGhost'
    BY <1>b, <2>1, <2>2 DEF NoGhost, SeesManifest
  <2> QED
    BY <1>a, <1>c, <2>1, <2>5, <2>6, CommitMoves
<1>5. CASE Stage(o)
  <2>1. /\ op'[o].success => op[o].success
        /\ op'[o].at = "commit" => op'[o].kind = op[o].kind /\ index' = tree
        /\ op'[o].at \in {"commit", "finally", "idle"} /\ UNCHANGED <<tree, head, git>> /\ op[o].at = "stage"
    BY <1>0, <1>5, GoTo DEF Stage, Failed, Is
  <2>2. OnItsWay(o)' /\ SeesManifest(o)' /\ NoGhost'
    BY <1>b, <2>1 DEF OnItsWay, SeesManifest, NoGhost, Is
  <2> QED
    BY <1>a, <1>c, <2>1, <2>2, CommitMoves
<1>6. CASE Commit(o) /\ index = head
  <2>1. Landed(o) /\ UNCHANGED <<files, git>> /\ op[o].at = "commit"
    BY <1>6, <1>a, EnvTyped DEF Commit, Is
  <2>2. op'[o].at \in {"launch", "finally", "device"}
    BY <1>0, <2>1, LandedBecomes
  <2>3. OnItsWay(o)' /\ SeesManifest(o)' /\ NoGhost'
    BY <1>b, <2>1, <2>2 DEF OnItsWay, SeesManifest, NoGhost, Is, files
  <2>4. Wanted(op[o].kind, head'.manifest)
    BY <1>6, <1>b, <2>1 DEF OnItsWay, Is, files
  <2> QED
    BY <1>a, <1>c, <2>1, <2>3, <2>4, CommitMoves
<1>7. CASE Commit(o) /\ index # head
  <2>1. /\ op[o].at = "commit" /\ Go(o, "git") /\ Starts(Own(o), CommitOf(o), Actor(o))
        /\ UNCHANGED files
    BY <1>7 DEF Commit, Is
  <2>2. op'[o].at = "git" /\ op'[o].kind = op[o].kind /\ op'[o].success = op[o].success
    BY <1>0, <2>1, GoTo
  <2>3. /\ git'[Own(o)] = Started(CommitOf(o), Actor(o)) /\ Own(o) \in Committer
        /\ \A d \in Committer : d # Own(o) => git'[d] = None
    BY <1>0, <1>a, <2>1, EnvTyped, StartsTyped DEF NoneOr, NoCommit
  <2>4. Wanted(op[o].kind, tree.manifest) /\ Wanted(op[o].kind, index.manifest)
    BY <1>b, <2>1 DEF OnItsWay, Is
  <2>5. \A x \in Op : OnItsWay(x)' /\ SeesManifest(x)'
    <3>1. \A x \in Op : x # o => OnItsWay(x)' /\ SeesManifest(x)'
      BY <1>a DEF Floor, Others, Working, OnItsWay, SeesManifest, Is, AtWork, Prelude, Attempt
    <3>2. OnItsWay(o)' /\ SeesManifest(o)'
      BY <2>1, <2>2, <2>3, <2>4 DEF OnItsWay, SeesManifest, Is, Started, files
    <3> QED
      BY <3>1, <3>2
  <2>6. NoGhost'
    BY <1>b, <2>1 DEF NoGhost, files
  <2>7. PendingGhost(Own(o))'
    <3>1. CASE op[o].kind = "open"
      <4>1. ~CommitOf(o).marked
        BY <3>1 DEF CommitOf
      <4>2. ~git'[Own(o)].env.marked
        BY <2>3, <4>1 DEF Started
      <4> QED
        BY <4>2 DEF PendingGhost
    <3>2. CASE op[o].kind = "remove"
      BY <2>1, <2>4, <3>2 DEF Wanted, PendingGhost, files
    <3>3. CASE op[o].kind \notin {"open", "remove"}
      <4>1. index.manifest # None
        BY <1>0, <2>4, <3>3 DEF Wanted, Operation, Kind
      <4> QED
        BY <2>3, <4>1 DEF PendingGhost, Started
    <3> QED
      BY <3>1, <3>2, <3>3
  <2>8. \A c \in Committer : PendingGhost(c)'
    BY <2>3, <2>7 DEF PendingGhost
  <2> QED
    BY <2>2, <2>5, <2>6, <2>8 DEF CommitInv
<1> QED
  BY <1>1, <1>2, <1>3, <1>4, <1>5, <1>6, <1>7 DEF Advances

LEMMA CommitOthers ==
  ASSUME CommitInv, GitInv', ~Overlap, NEW o \in Op, Begin(o) \/ Answers(o) \/ SessionEnds(o) \/ Throw(o)
  PROVE  CommitInv' /\ (op'[o].success => op[o].success)
<1>0. op[o] \in Operation /\ Remembers(op[o], alive[HostOf[o]]) /\ Discipline /\ op \in [Op -> Operation]
  BY Typed DEF CommitInv, GitInv, HookInv, Discipline, TypeOK
<1>a. Others(o) /\ UNCHANGED <<files, git>>
  BY <1>0, OperationsOthers
  DEF Begin, Answers, AnswerReadOnly, AnswerLeftover, AnswerRemove, SessionEnds, Throw
<1>b. NoGhost'
  BY <1>a DEF CommitInv, NoGhost, files
<1>c. NoCommit => \A c \in Committer : git'[c] = None
  BY <1>a DEF NoCommit
<1>1. CASE Begin(o)
  <2>1. op'[o].at \in {"restore", "manifest"} /\ op'[o].success = op[o].success
    BY <1>0, <1>1, BeginDiscipline
  <2>2. OnItsWay(o)' /\ SeesManifest(o)'
    BY <2>1 DEF OnItsWay, SeesManifest, Is
  <2> QED
    BY <1>1, <1>a, <1>b, <1>c, <2>1, <2>2, FloorOf, CommitMoves DEF CommitInv
<1>2. CASE Answers(o)
  <2>1. /\ op'[o].success = op[o].success /\ op'[o].at \in {"launch", "finally", "stage", "release", "remove"}
        /\ op'[o].at = "stage" => op'[o].kind = "open"
    BY <1>0, <1>2, GoTo DEF Answers, AnswerReadOnly, AnswerLeftover, AnswerRemove, Is, Remembers
  <2>2. OnItsWay(o)' /\ SeesManifest(o)'
    BY <2>1 DEF OnItsWay, SeesManifest, Is, Wanted
  <2> QED
    BY <1>2, <1>a, <1>b, <1>c, <2>1, <2>2, FloorOf, CommitMoves DEF CommitInv
<1>3. CASE (SessionEnds(o) /\ Is(o, "running")) \/ Throw(o)
  <2>1. op'[o].at \in {"release", "finally", "idle"} /\ (op'[o].success => op[o].success)
    BY <1>0, <1>3, GoTo DEF SessionEnds, Tail, Is, Throw, Failed
  <2>2. OnItsWay(o)' /\ SeesManifest(o)'
    BY <2>1 DEF OnItsWay, SeesManifest, Is
  <2> QED
    BY <1>3, <1>a, <1>b, <1>c, <2>1, <2>2, FloorOf, CommitMoves DEF CommitInv
<1>4. CASE SessionEnds(o) /\ ~Is(o, "running")
  <2>1. op'[o].at = "idle" /\ ~op'[o].success
    BY <1>0, <1>4, GoTo DEF SessionEnds, Is
  <2> QED
    BY <1>a, <2>1, CommitSurvives DEF Others
<1> QED
  BY <1>1, <1>2, <1>3, <1>4

LEMMA CommitAgents ==
  ASSUME CommitInv, GitInv', ~Overlap, NEW s \in NoneOr(Op),
         TypesAdd(s) \/ TypesCommit(s) \/ (s \in Op /\ Works(s))
  PROVE  CommitInv' /\ UNCHANGED op
<1>0. Discipline
  BY DEF CommitInv, GitInv, HookInv
<1>1. UNCHANGED <<op, alive, lock, head>>
  BY <1>0, AgentDiscipline
<1>2. /\ \A k \in Kind : Wanted(k, tree.manifest) => Wanted(k, tree'.manifest)
      /\ tree.manifest # None <=> tree'.manifest # None
  <2>1. CASE tree'.manifest = tree.manifest
    BY <2>1
  <2>2. CASE tree'.manifest # tree.manifest
    <3>1. tree.manifest # None /\ tree' = [tree EXCEPT !.manifest.edited = TRUE]
      BY <1>0, <2>2, Typed DEF TypesAdd, TypesCommit, Works, Content, files
    <3>2. tree \in Content /\ tree.manifest \in Manifest
      BY <1>0, <3>1, Typed DEF Content, NoneOr
    <3>3. tree'.manifest \in Manifest /\ tree'.manifest.archived = tree.manifest.archived
          /\ tree'.manifest.repo = tree.manifest.repo
      BY <3>1, <3>2 DEF Content, Manifest
    <3>4. tree'.manifest # None
      BY <3>3, NoneManifestAssumption
    <3> QED
      BY <3>1, <3>3, <3>4 DEF Wanted, Kind
  <2> QED
    BY <2>1, <2>2
<1>3. NoGhost'
  BY <1>1, <1>2 DEF CommitInv, NoGhost
<1>4. index' = index \/ (index' = tree /\ tree' = tree)
  BY DEF TypesAdd, TypesCommit, Works, files
<1>5. \A c \in Committer : git'[c] = git[c] \/ ~git'[c].env.marked
  BY <1>0, HandGits
<1>6. ASSUME NEW c \in Committer PROVE PendingGhost(c)'
  BY <1>2, <1>5 DEF CommitInv, PendingGhost
<1>7. ASSUME NEW x \in Op PROVE OnItsWay(x)' /\ SeesManifest(x)'
  <2>1. op[x].kind \in Kind /\ OnItsWay(x) /\ SeesManifest(x)
    BY <1>0, Typed DEF CommitInv, Operation
  <2>2. /\ op[x].at \in {"stage", "commit"} => Wanted(op[x].kind, tree'.manifest)
        /\ Is(x, "commit") => Wanted(op[x].kind, index'.manifest)
    BY <1>2, <1>4, <2>1 DEF OnItsWay, Is
  <2>3. git'[Own(x)] = git[Own(x)]
    <3>1. Own(x) \in Committer /\ \A t : Own(x) # <<t, "hand">>
      BY DEF Own, Committer
    <3>2. CASE TypesCommit(s)
      <4>1. TypedBy(s) \in CommitEnv /\ <<s, "hand">> \in Committer
        BY DEF TypedBy, CommitEnv, NoneOr, Committer
      <4> QED
        BY <1>0, <3>1, <3>2, <4>1, StartsTyped DEF TypesCommit
    <3>3. CASE ~TypesCommit(s)
      BY <3>3 DEF TypesAdd, Works
    <3> QED
      BY <3>2, <3>3
  <2>4. OnItsWay(x)'
    BY <1>1, <2>1, <2>2, <2>3 DEF OnItsWay, Is
  <2>5. SeesManifest(x)'
    BY <1>1, <1>2, <2>1 DEF SeesManifest
  <2> QED
    BY <2>4, <2>5
<1> QED
  BY <1>1, <1>3, <1>6, <1>7 DEF CommitInv

\* A step of git and its hook.
LEMMA CommitGit ==
  ASSUME CommitInv, GitInv', NEW c \in Committer, Commits(c)
  PROVE  /\ CommitInv'
         /\ \A o \in Op : op'[o].success /\ ~op[o].success => Wanted(op[o].kind, head'.manifest)
<1>0. Discipline /\ git \in Gits
  BY DEF CommitInv, GitInv, HookInv, Discipline, TypeOK, Gits
<1>1. UNCHANGED <<alive, lock, tree, index>> /\ (Moved(c) \/ LandsFor(c))
  BY <1>0, GitDiscipline
<1>2. CASE Moved(c)
  <2>1. UNCHANGED <<op, head>>
    BY <1>2 DEF Moved, files
  <2>4. \A d \in Committer :
          git'[d] # None => /\ git[d] # None /\ git'[d].env = git[d].env
                            /\ git'[d].content = git[d].content
    BY <1>0, <1>2, MovedKeeps
  <2>5. \A d \in Committer : PendingGhost(d)'
    BY <1>1, <2>4 DEF CommitInv, PendingGhost
  <2>6. NoGhost'
    BY <1>1, <2>1 DEF CommitInv, NoGhost
  <2>7. ASSUME NEW o \in Op PROVE OnItsWay(o)' /\ SeesManifest(o)'
    <3>1. Own(o) \in Committer /\ OnItsWay(o) /\ SeesManifest(o)
      BY DEF Own, Committer, CommitInv
    <3> QED
      BY <1>1, <2>1, <2>4, <3>1 DEF OnItsWay, SeesManifest, Is
  <2> QED
    BY <2>1, <2>5, <2>6, <2>7 DEF CommitInv
<1>3. CASE LandsFor(c)
  <2>0. IsAt(c, "passed") /\ head' = git[c].content /\ git[c] # None
    BY <1>3 DEF LandsFor, IsAt
  <2>1. \A d \in Committer : git'[d] = None
    BY <1>3 DEF LandsFor
  <2>2. /\ git[c].content = index /\ git[c].staged = Staged
        /\ git[c].staged = "manifest" => git[c].env.marked
        /\ \A o \in Op : Working(o) => c = Own(o) /\ Is(o, "git")
    BY <2>0, Landing DEF CommitInv
  <2>3. NoGhost'
    <3>1. CASE head'.manifest = head.manifest
      BY <1>1, <3>1 DEF CommitInv, NoGhost
    <3>2. CASE head'.manifest # head.manifest
      <4>1. git[c].env.marked
        BY <2>0, <2>2, <3>2 DEF Staged
      <4>2. PendingGhost(c)
        BY DEF CommitInv
      <4> QED
        BY <1>1, <2>0, <4>1, <4>2 DEF PendingGhost, NoGhost
    <3> QED
      BY <3>1, <3>2
  <2>4. ASSUME NEW o \in Op PROVE OnItsWay(o)' /\ SeesManifest(o)'
    <3>1. op'[o].at \notin {"stage", "commit", "readLock", "probe", "writeLock", "change"}
      <4>1. Working(o)' => op[o].at = "git" \/ op'[o] # op[o]
        BY <2>2 DEF Working, Is
      <4>2. op'[o] = op[o] \/ op'[o].at \in {"launch", "finally", "device"}
        BY <1>0, <1>3, LandedBecomes DEF LandsFor, Is, Others
      <4> QED
        BY <4>1, <4>2 DEF Working, AtWork, Prelude, Attempt
    <3>2. git'[Own(o)] = None
      BY <2>1 DEF Own, Committer
    <3> QED
      BY <3>1, <3>2 DEF OnItsWay, SeesManifest, Is
  <2>5. ASSUME NEW o \in Op, op'[o].success, ~op[o].success
        PROVE  Wanted(op[o].kind, head'.manifest)
    <3>1. c = Own(o) /\ Is(o, "git")
      BY <1>3, <2>5 DEF LandsFor, Others
    <3> QED
      BY <2>0, <3>1 DEF CommitInv, OnItsWay
  <2> QED
    BY <2>1, <2>3, <2>4, <2>5 DEF CommitInv, PendingGhost
<1> QED
  BY <1>1, <1>2, <1>3

LEMMA CommitStep ==
  ASSUME CommitInv, ~Overlap, [Next]_vars
  PROVE  /\ CommitInv'
         /\ \A o \in Op : op'[o].success /\ ~op[o].success => Wanted(op[o].kind, head'.manifest)
<1>0. GitInv' /\ Discipline
  BY GitStep DEF CommitInv, GitInv, HookInv
<1>1. CASE UNCHANGED vars
  BY <1>0, <1>1, CommitSurvives DEF vars
<1>2. ASSUME NEW o \in Op, Begin(o) \/ Advances(o) \/ Answers(o) \/ SessionEnds(o) \/ Throw(o)
      PROVE  /\ CommitInv'
             /\ \A x \in Op : op'[x].success /\ ~op[x].success => Wanted(op[x].kind, head'.manifest)
  <2>1. CommitInv' /\ (op'[o].success /\ ~op[o].success => Wanted(op[o].kind, head'.manifest))
    BY <1>0, <1>2, CommitAdvances, CommitOthers
  <2>2. \A x \in Op : x # o => op'[x] = op[x]
    BY <1>0, <1>2, OperationsOthers DEF Others
  <2> QED
    BY <2>1, <2>2
<1>3. CASE \E s \in NoneOr(Op) : TypesAdd(s) \/ TypesCommit(s) \/ (s \in Op /\ Works(s))
  BY <1>0, <1>3, CommitAgents
<1>4. ASSUME NEW p \in Process, Crash(p)
      PROVE  /\ CommitInv'
             /\ \A x \in Op : op'[x].success /\ ~op[x].success => Wanted(op[x].kind, head'.manifest)
  <2>1. /\ UNCHANGED <<files, git>>
        /\ \A x \in Op : op'[x] = op[x] \/ (op'[x].at \in {"idle", "orphan"} /\ ~op'[x].success)
    BY <1>0, <1>4, CrashDiscipline
  <2> QED
    BY <1>0, <2>1, CommitSurvives
<1>5. CASE \E c \in Committer : Commits(c)
  BY <1>0, <1>5, CommitGit
<1> QED
  BY <1>1, <1>2, <1>3, <1>4, <1>5 DEF Next, NoneOr

LEMMA CommitInit == Init => CommitInv
<1> SUFFICES ASSUME Init PROVE CommitInv
  OBVIOUS
<1>1. \A o \in Op : op[o].at = "idle"
  BY DEF Init, Idle
<1>2. \A c \in Committer : git[c] = None
  BY DEF Init
<1>3. tree = head
  BY DEF Init
<1> QED
  BY <1>1, <1>2, <1>3, GitInit DEF CommitInv, OnItsWay, SeesManifest, NoGhost, PendingGhost, Is

(* What an operation reports done is committed when it says so, where operations at  *)
(* work and commits do not overlap, whatever agents and people write and commit in   *)
(* between, whatever the hook refuses and git fails at, and whoever dies.            *)
THEOREM ReportsAreTrue == ~Overlap /\ Spec => ReportedIsCommitted
<1>1. CASE Overlap
  BY <1>1
<1>2. CASE ~Overlap
  <2>1. CommitInv /\ [Next]_vars => CommitInv'
    BY <1>2, CommitStep
  <2>2. CommitInv /\ [Next]_vars =>
          [\A o \in Op : op'[o].success /\ ~op[o].success => Wanted(op[o].kind, head'.manifest)]_vars
    BY <1>2, CommitStep
  <2> QED
    BY <1>2, <2>1, <2>2, CommitInit, PTL DEF Spec, ReportedIsCommitted
<1> QED
  BY <1>1, <1>2

-----------------------------------------------------------------------------
(* The lock of operations at work, and commits, that do not overlap, of operations *)
(* each in a process of its own.                                                  *)

Serial == ~Overlap /\ OwnHosts

\* What is between the reading of the lock and what is done about it.
NothingBetween(o) ==
  /\ Is(o, "probe") => op[o].seen = lock
  /\ Is(o, "writeLock") => ~isAlive(lock)
  /\ Is(o, "clear") \/ Is(o, "clearFinally") => lock # None /\ lock.pid = HostOf[o]

\* A live process that the lock names has an operation that took it.
NamedAcquired(o) == isAlive(lock) /\ lock.pid = HostOf[o] => op[o].acquired

\* Whoever commits with the lock, or after a removal, does so beside no holder.
CommitsUnheld(o) ==
  op[o].at \in {"stage", "commit", "git"} /\ op[o].kind # "addRepo" =>
    \A x \in Op : Holds(x) => x = o

\* A commit under way knows of no process, and is of the session it names; or it is of
\* the holder, if there is one.
PendingIsWriters(c) ==
  git[c] # None =>
    \/ /\ git[c].env.process = None
       /\ git[c].env.session # None => git[c].who = git[c].env.session
    \/ \A h \in Op : Holds(h) => Actor(h) = git[c].who

LockInv ==
  /\ GitInv
  /\ LockKept
  /\ \A o \in Op : NothingBetween(o) /\ NamedAcquired(o) /\ CommitsUnheld(o)
  /\ \A c \in Committer : PendingIsWriters(c)

\* There is one holder, and it lives.
LEMMA OneHolder ==
  ASSUME LockInv, Serial, NEW o \in Op, NEW x \in Op, Holds(x),
         Holds(o) \/ (lock # None /\ lock.pid = HostOf[o])
  PROVE  x = o
<1>1. lock = Mine(x)
  BY DEF LockInv, LockKept
<1>2. HostOf[x] = HostOf[o]
  BY <1>1 DEF LockInv, LockKept, Mine
<1> QED
  BY <1>2 DEF Serial, OwnHosts

LEMMA HolderLives ==
  ASSUME LockInv, NEW x \in Op, Holds(x)
  PROVE  isAlive(lock) /\ lock = Mine(x) /\ lock # None
<1>1. lock = Mine(x)
  BY DEF LockInv, LockKept
<1>2. op[x] \in Operation /\ Remembers(op[x], alive[HostOf[x]])
  BY Typed DEF LockInv, GitInv, HookInv
<1>3. alive[HostOf[x]]
  BY <1>2 DEF Holds, Remembers
<1>4. Mine(x) \in Lock
  BY <1>2, HostAssumption DEF Mine, Lock, NoneOr, Operation
<1> QED
  BY <1>1, <1>3, <1>4, NoneLockAssumption DEF isAlive, Mine

LEMMA LockUnchanged ==
  ASSUME LockInv, Serial, GitInv', NEW o \in Op, Floor(o), Others(o), UNCHANGED lock,
         op[o].acquired /\ isAlive(lock) /\ lock.pid = HostOf[o] => op'[o].acquired,
         Holds(o)' => Holds(o) /\ op'[o].kind = op[o].kind /\ op'[o].from = op[o].from,
         op'[o].at \in {"stage", "commit", "git"} =>
           /\ op'[o].kind = op[o].kind
           /\ op[o].kind = "addRepo" \/ Holds(o) \/ op[o].at \in {"stage", "commit", "git"},
         NothingBetween(o)', \A c \in Committer : PendingIsWriters(c)'
  PROVE  LockInv'
<1>2. LockKept'
  <2> SUFFICES ASSUME NEW x \in Op, Holds(x)'
               PROVE  lock' = Mine(x)'
    BY DEF LockKept
  <2>1. Holds(x) /\ op'[x].kind = op[x].kind /\ op'[x].from = op[x].from
    BY DEF Others, Holds
  <2> QED
    BY <2>1 DEF Mine, LockInv, LockKept
<1>3. ASSUME NEW x \in Op
      PROVE  NothingBetween(x)' /\ NamedAcquired(x)' /\ CommitsUnheld(x)'
  <2>1. NothingBetween(x)'
    BY DEF Floor, Others, Working, NothingBetween, Is, AtWork, Prelude, Closing
  <2>2. NamedAcquired(x)'
    BY DEF Others, LockInv, NamedAcquired, isAlive
  <2>3. CommitsUnheld(x)'
    <3>1. CASE x # o
      BY <3>1 DEF Floor, Others, Working, CommitsUnheld, AtWork, Attempt
    <3>2. CASE x = o
      <4> SUFFICES ASSUME op'[o].at \in {"stage", "commit", "git"}, op'[o].kind # "addRepo",
                          NEW y \in Op, Holds(y)', y # o
                   PROVE  FALSE
        BY <3>2 DEF CommitsUnheld
      <4>1. Holds(y)
        BY DEF Others, Holds
      <4> QED
        BY <4>1, OneHolder DEF LockInv, CommitsUnheld
    <3> QED
      BY <3>1, <3>2
  <2> QED
    BY <2>1, <2>2, <2>3
<1> QED
  BY <1>2, <1>3 DEF LockInv

\* Operations that end, with the process that dies or with the session that outlived it.
LEMMA LockSurvives ==
  ASSUME LockInv, GitInv', UNCHANGED <<lock, git>>,
         \A p \in Process : alive'[p] => alive[p],
         \A x \in Op : \/ op'[x] = op[x]
                       \/ /\ op'[x].at \in {"idle", "orphan"} /\ ~op'[x].acquired
                          /\ ~op[x].acquired \/ ~alive'[HostOf[x]]
  PROVE  LockInv'
<1>0. lock # None => lock.pid \in Process
  BY DEF LockInv, GitInv, HookInv, Discipline, TypeOK, NoneOr, Lock
<1>1. \A x \in Op : Holds(x)' => Holds(x) /\ op'[x] = op[x]
  BY DEF Holds
<1>2. \A x \in Op : Working(x)' => op'[x] = op[x]
  BY DEF Working, AtWork, Prelude, Attempt, Closing
<1>3. \A c \in Committer : PendingIsWriters(c)'
  BY <1>1 DEF LockInv, PendingIsWriters, Actor
<1>4. LockKept'
  BY <1>1 DEF LockKept, LockInv, Mine
<1>5. ASSUME NEW x \in Op
      PROVE  NothingBetween(x)' /\ NamedAcquired(x)' /\ CommitsUnheld(x)'
  <2>1. NothingBetween(x)'
    BY <1>0, <1>2 DEF LockInv, NothingBetween, Is, isAlive, Working, AtWork, Prelude, Closing
  <2>2. NamedAcquired(x)'
    BY <1>0 DEF LockInv, NamedAcquired, isAlive
  <2>3. CommitsUnheld(x)'
    BY <1>1, <1>2 DEF LockInv, CommitsUnheld, Working, AtWork, Attempt
  <2> QED
    BY <2>1, <2>2, <2>3
<1> QED
  BY <1>3, <1>4, <1>5 DEF LockInv

LEMMA LockAdvances ==
  ASSUME LockInv, Serial, GitInv', NEW o \in Op, Advances(o)
  PROVE  LockInv'
<1>0. op[o] \in Operation /\ Remembers(op[o], alive[HostOf[o]]) /\ Discipline /\ op \in [Op -> Operation]
  BY Typed DEF LockInv, GitInv, HookInv, Discipline, TypeOK
<1>a. Discipline' /\ Others(o)
  BY <1>0, AdvanceDiscipline
<1>b. Floor(o) /\ NoCommit
  BY FloorOf DEF LockInv, Serial
<1>c. UNCHANGED git => \A c \in Committer : PendingIsWriters(c)'
  BY <1>b DEF NoCommit, PendingIsWriters
<1>1. CASE restoreProjectManifestIfChanged(o) \/ ReadManifest(o)
  <2>1. op'[o].at \in {"idle", "manifest", "change", "readLock"} /\ (op'[o].acquired => op[o].acquired)
    BY <1>0, <1>1, GoTo DEF restoreProjectManifestIfChanged, ReadManifest, Operation
  <2>2. ~op[o].acquired
    BY <1>0, <1>1 DEF restoreProjectManifestIfChanged, ReadManifest, Is, Remembers, Prelude
  <2>3. UNCHANGED <<lock, git>>
    BY <1>1 DEF restoreProjectManifestIfChanged, ReadManifest
  <2> QED
    BY <1>a, <1>b, <1>c, <2>1, <2>2, <2>3, LockUnchanged DEF Holds, NothingBetween, Is
<1>2. CASE ReadLock(o)
  <2>1. op'[o].at = "probe" /\ op'[o].seen = lock /\ op'[o].acquired = op[o].acquired /\ UNCHANGED <<lock, git>>
    BY <1>0, <1>2 DEF ReadLock, Operation
  <2> QED
    BY <1>a, <1>b, <1>c, <2>1, LockUnchanged DEF Holds, NothingBetween, Is
<1>3. CASE Probe(o)
  <2>1. ~op[o].acquired /\ op[o].seen = lock /\ UNCHANGED <<lock, git>> /\ UNCHANGED alive
    BY <1>0, <1>3 DEF Probe, LockInv, NothingBetween, Is, Remembers, Prelude
  <2>2. \/ op'[o].at = "writeLock" /\ ~isAlive(lock) /\ op'[o].acquired = op[o].acquired
        \/ op'[o].at = "askReadOnly" /\ op'[o].acquired = op[o].acquired
        \/ op'[o].at = "idle" /\ ~op'[o].acquired
    BY <1>0, <1>3, <2>1, GoTo DEF Probe, Forget, MayAcquire, isAlive, Operation
  <2> QED
    BY <1>a, <1>b, <1>c, <2>1, <2>2, LockUnchanged DEF Holds, NothingBetween, Is, isAlive
<1>4. CASE WriteLock(o)
  <2>1. ~isAlive(lock) /\ lock' = Mine(o) /\ UNCHANGED <<alive, git>>
    BY <1>4 DEF WriteLock, LockInv, NothingBetween
  <2>2. /\ op'[o].acquired /\ op'[o].at \in {"leftover", "askRemove", "change"}
        /\ op'[o].kind = op[o].kind /\ op'[o].from = op[o].from
    BY <1>0, <1>4 DEF WriteLock, Operation
  <2>3. \A x \in Op : ~Holds(x)
    BY <2>1, HolderLives
  <2>4. \A x \in Op : Holds(x)' => x = o
    BY <1>a, <2>3 DEF Others, Holds
  <2>5. Mine(o)' = Mine(o) /\ lock'.pid = HostOf[o]
    BY <2>1, <2>2 DEF Mine
  <2>6. LockKept'
    BY <2>1, <2>4, <2>5 DEF LockKept
  <2>7. ASSUME NEW x \in Op
        PROVE  NothingBetween(x)' /\ NamedAcquired(x)' /\ CommitsUnheld(x)'
    <3>1. NothingBetween(x)'
      BY <1>a, <1>b, <2>2 DEF Floor, Others, Working, NothingBetween, Is, AtWork, Prelude, Closing
    <3>2. NamedAcquired(x)'
      BY <2>2, <2>5 DEF NamedAcquired, Serial, OwnHosts
    <3>3. CommitsUnheld(x)'
      BY <1>a, <1>b, <2>2, <2>4 DEF CommitsUnheld, Floor, Others, Working, AtWork, Attempt
    <3> QED
      BY <3>1, <3>2, <3>3
  <2> QED
    BY <1>c, <2>1, <2>6, <2>7 DEF LockInv
<1>5. CASE ReadForRelease(o)
  <2>1. /\ UNCHANGED <<lock, git>>
        /\ \/ op'[o].at = "finally" /\ op'[o].acquired = op[o].acquired
           \/ /\ op'[o].at \in {"clear", "clearFinally"} /\ op'[o].acquired = op[o].acquired
              /\ lock # None /\ lock.pid = HostOf[o]
           \/ op'[o].at = "idle" /\ ~op'[o].acquired /\ ~(lock # None /\ lock.pid = HostOf[o])
    BY <1>0, <1>5, GoTo DEF ReadForRelease, Past, MayRelease, Is
  <2> QED
    BY <1>a, <1>b, <1>c, <2>1, LockUnchanged DEF Holds, NothingBetween, Is, isAlive
<1>6. CASE Clear(o) \/ removeProjectDirectory(o)
  <2>1. /\ lock' = None /\ UNCHANGED git
        /\ op'[o].at \in {"idle", "finally", "stage"}
    BY <1>0, <1>6, GoTo DEF Clear, removeProjectDirectory
  <2>2. Holds(o) \/ (lock # None /\ lock.pid = HostOf[o])
    <3>1. CASE Clear(o)
      BY <3>1 DEF Clear, LockInv, NothingBetween
    <3>2. CASE removeProjectDirectory(o)
      BY <1>0, <3>2 DEF removeProjectDirectory, Remembers, Is, Holds
    <3> QED
      BY <1>6, <3>1, <3>2
  <2>3. ~Holds(o)'
    <3>1. CASE Clear(o)
      BY <1>0, <3>1, GoTo DEF Clear, Holds
    <3>2. CASE removeProjectDirectory(o)
      <4>1. op'[o].at = "stage" /\ op'[o].kind = "remove"
        BY <1>0, <3>2, GoTo DEF removeProjectDirectory, Remembers, Is
      <4> QED
        BY <4>1 DEF Holds
    <3> QED
      BY <1>6, <3>1, <3>2
  <2>4. \A x \in Op : ~Holds(x)'
    BY <1>a, <2>2, <2>3, OneHolder DEF Others, Holds
  <2>5. LockKept'
    BY <2>4 DEF LockKept
  <2>6. \A x \in Op : NothingBetween(x)'
    BY <1>a, <1>b, <2>1 DEF Floor, Others, Working, NothingBetween, Is, AtWork, Prelude, Closing
  <2>7. \A x \in Op : NamedAcquired(x)' /\ CommitsUnheld(x)'
    BY <2>1, <2>4 DEF NamedAcquired, isAlive, CommitsUnheld
  <2> QED
    BY <1>c, <2>1, <2>5, <2>6, <2>7 DEF LockInv
<1>7. CASE ListLeftover(o) \/ Launch(o)
  <2>1. /\ UNCHANGED <<lock, git>> /\ op'[o].acquired = op[o].acquired
        /\ op'[o].kind = op[o].kind /\ op'[o].from = op[o].from
        /\ op[o].at \in {"leftover", "launch"}
        /\ op'[o].at \in {"launch", "askLeftover", "running", "release", "finally"}
    BY <1>0, <1>7, GoTo DEF ListLeftover, Launch, Tail, Is
  <2> QED
    BY <1>a, <1>b, <1>c, <2>1, LockUnchanged DEF Holds, NothingBetween, Is
<1>8. CASE Change(o)
  <2>1. /\ UNCHANGED <<lock, git>> /\ op'[o].acquired = op[o].acquired
        /\ op'[o].kind = op[o].kind /\ op'[o].from = op[o].from
        /\ op[o].at = "change" /\ op'[o].at = "stage"
    BY <1>0, <1>8 DEF Change, Forget, Operation, Is
  <2>2. op[o].kind = "addRepo" \/ Holds(o)
    BY <1>0, <2>1 DEF Remembers, Holds
  <2>3. Holds(o)' => Holds(o)
    BY <2>1 DEF Holds
  <2>4. NothingBetween(o)'
    BY <2>1 DEF NothingBetween, Is
  <2> QED
    BY <1>a, <1>b, <1>c, <2>1, <2>2, <2>3, <2>4, LockUnchanged
<1>9. CASE Stage(o)
  <2>1. /\ UNCHANGED <<lock, git>> /\ op[o].at = "stage"
        /\ \/ /\ op'[o].acquired = op[o].acquired /\ op'[o].kind = op[o].kind
              /\ op'[o].from = op[o].from /\ op'[o].at \in {"commit", "finally"}
           \/ op'[o].at = "idle" /\ ~op'[o].acquired /\ op[o].kind = "addRepo"
    BY <1>0, <1>9, GoTo DEF Stage, Failed, Is
  <2>2. op[o].kind = "addRepo" => ~op[o].acquired
    BY <1>0 DEF Remembers
  <2>3. Holds(o)' => Holds(o) /\ op'[o].kind = op[o].kind /\ op'[o].from = op[o].from
    BY <2>1 DEF Holds
  <2>4. NothingBetween(o)'
    BY <2>1 DEF NothingBetween, Is
  <2> QED
    BY <1>a, <1>b, <1>c, <2>1, <2>2, <2>3, <2>4, LockUnchanged
<1>10. CASE Commit(o)
  <2>1. /\ UNCHANGED lock /\ op[o].at = "commit"
        /\ op'[o].acquired = op[o].acquired /\ op'[o].kind = op[o].kind
        /\ op'[o].from = op[o].from /\ op'[o].at \in {"git", "launch", "finally", "device"}
        /\ op'[o].at = "launch" => op[o].kind = "open"
    BY <1>0, <1>10, GoTo, LandedBecomes DEF Commit, Is
  <2>2. Holds(o)' => Holds(o) /\ op'[o].kind = op[o].kind /\ op'[o].from = op[o].from
    BY <2>1 DEF Holds
  <2>3. NothingBetween(o)'
    BY <2>1 DEF NothingBetween, Is
  <2>4. CASE UNCHANGED git
    BY <1>a, <1>b, <1>c, <2>1, <2>2, <2>3, <2>4, LockUnchanged
  <2>5. CASE Starts(Own(o), CommitOf(o), Actor(o))
    <3>1. /\ git'[Own(o)] = Started(CommitOf(o), Actor(o)) /\ Own(o) \in Committer
          /\ \A d \in Committer : d # Own(o) => git'[d] = None
      BY <1>0, <1>b, <2>5, EnvTyped, StartsTyped DEF NoneOr, NoCommit
    <3>2. git'[Own(o)].env = CommitOf(o) /\ git'[Own(o)].who = Actor(o)
      BY <3>1 DEF Started
    <3>3. PendingIsWriters(Own(o))'
      <4>1. CASE op[o].kind = "addRepo"
        <5>1. CommitOf(o).process = None /\ CommitOf(o).session = op[o].from
          BY <4>1 DEF CommitOf
        <5>2. op[o].from # None => Actor(o) = op[o].from
          BY <4>1 DEF Actor
        <5> QED
          BY <3>2, <5>1, <5>2 DEF PendingIsWriters
      <4>2. CASE op[o].kind # "addRepo"
        <5>1. \A h \in Op : Holds(h) => h = o
          BY <2>1, <4>2 DEF LockInv, CommitsUnheld
        <5>2. \A h \in Op : Holds(h)' => h = o
          BY <1>a, <2>2, <5>1 DEF Others, Holds
        <5>3. Actor(o)' = Actor(o)
          BY <2>1 DEF Actor
        <5> QED
          BY <3>2, <5>2, <5>3 DEF PendingIsWriters
      <4> QED
        BY <4>1, <4>2
    <3>5. \A c \in Committer : PendingIsWriters(c)'
      BY <3>1, <3>3 DEF PendingIsWriters
    <3> QED
      BY <1>a, <1>b, <2>1, <2>2, <2>3, <3>5, LockUnchanged
  <2> QED
    BY <1>10, <2>4, <2>5 DEF Commit
<1>11. CASE SaveDeviceRecord(o)
  <2>1. /\ UNCHANGED <<lock, git>>
        /\ \/ op'[o].acquired = op[o].acquired /\ op'[o].at = "release"
           \/ op'[o].at = "idle" /\ ~op'[o].acquired /\ op[o].kind = "addRepo"
    BY <1>0, <1>11, GoTo DEF SaveDeviceRecord
  <2>2. op[o].kind = "addRepo" => ~op[o].acquired
    BY <1>0 DEF Remembers
  <2> QED
    BY <1>a, <1>b, <1>c, <2>1, <2>2, LockUnchanged DEF Holds, NothingBetween, Is
<1>12. CASE Refused(o)
  <2>1. /\ UNCHANGED <<lock, git>>
        /\ \/ op'[o].acquired = op[o].acquired /\ op'[o].at = "finally"
           \/ op'[o].at = "idle" /\ ~op'[o].acquired /\ op[o].kind = "addRepo"
    BY <1>0, <1>12, GoTo DEF Refused, Failed
  <2>2. op[o].kind = "addRepo" => ~op[o].acquired
    BY <1>0 DEF Remembers
  <2> QED
    BY <1>a, <1>b, <1>c, <2>1, <2>2, LockUnchanged DEF Holds, NothingBetween, Is
<1> QED
  BY <1>1, <1>2, <1>3, <1>4, <1>5, <1>6, <1>7, <1>8, <1>9, <1>10, <1>11, <1>12 DEF Advances

LEMMA LockOthers ==
  ASSUME LockInv, Serial, GitInv', NEW o \in Op, Begin(o) \/ Answers(o) \/ SessionEnds(o) \/ Throw(o)
  PROVE  LockInv'
<1>0. op[o] \in Operation /\ Remembers(op[o], alive[HostOf[o]]) /\ Discipline /\ op \in [Op -> Operation]
  BY Typed DEF LockInv, GitInv, HookInv, Discipline, TypeOK
<1>a. Discipline' /\ Others(o)
  BY <1>0, BeginDiscipline, OtherDiscipline DEF Begin, Others
<1>b. UNCHANGED git
  BY DEF Begin, Answers, AnswerReadOnly, AnswerLeftover, AnswerRemove, SessionEnds, Throw
<1>c. NoCommit => \A c \in Committer : PendingIsWriters(c)'
  BY <1>b DEF NoCommit, PendingIsWriters
<1>1. CASE Begin(o)
  <2>1. /\ UNCHANGED lock /\ op'[o].at \in {"restore", "manifest"}
        /\ op'[o].acquired = op[o].acquired
    BY <1>0, <1>1, BeginDiscipline DEF Begin
  <2>2. ~Holds(o)' /\ NothingBetween(o)' /\ op'[o].at \notin {"stage", "commit", "git"}
    BY <2>1 DEF Holds, NothingBetween, Is
  <2>3. Floor(o) /\ NoCommit
    BY <1>1, FloorOf DEF LockInv, Serial
  <2> QED
    BY <1>a, <1>c, <2>1, <2>2, <2>3, LockUnchanged
<1>2. CASE Answers(o)
  <2>1. /\ UNCHANGED lock /\ op'[o].acquired = op[o].acquired
        /\ op'[o].kind = op[o].kind /\ op'[o].from = op[o].from
        /\ \/ op[o].at = "askReadOnly" /\ op'[o].at \in {"launch", "finally"}
           \/ op[o].at = "askLeftover" /\ op'[o].at \in {"stage", "launch", "release"}
           \/ op[o].at = "askRemove" /\ op'[o].at \in {"remove", "release"}
    BY <1>0, <1>2, GoTo DEF Answers, AnswerReadOnly, AnswerLeftover, AnswerRemove, Is
  <2>2. /\ op[o].at = "askReadOnly" => ~op[o].acquired
        /\ op[o].at = "askLeftover" => Holds(o)
    BY <1>0 DEF Remembers, Holds, Prelude
  <2>3. Holds(o)' => Holds(o)
    BY <2>1, <2>2 DEF Holds
  <2>4. NothingBetween(o)'
    BY <2>1 DEF NothingBetween, Is
  <2> QED
    BY <1>2, <1>a, <1>c, <2>1, <2>2, <2>3, <2>4, FloorOf, LockUnchanged DEF Serial, LockInv
<1>3. CASE SessionEnds(o) /\ Is(o, "running")
  <2>1. /\ UNCHANGED lock /\ op'[o].acquired = op[o].acquired
        /\ op'[o].at \in {"release", "finally"}
    BY <1>0, <1>3, GoTo DEF SessionEnds, Tail, Is
  <2> QED
    BY <1>3, <1>a, <1>c, <2>1, FloorOf, LockUnchanged DEF Serial, LockInv, Holds, NothingBetween, Is
<1>4. CASE SessionEnds(o) /\ ~Is(o, "running")
  <2>1. /\ UNCHANGED lock /\ UNCHANGED alive /\ ~op[o].acquired
        /\ op'[o].at = "idle" /\ ~op'[o].acquired
    BY <1>0, <1>4, GoTo DEF SessionEnds, Is, Remembers
  <2> QED
    BY <1>a, <1>b, <2>1, LockSurvives DEF Others
<1>5. CASE Throw(o)
  <2>1. \/ op'[o].at = "idle" /\ ~op[o].acquired
        \/ op'[o].at = "finally" /\ op'[o].acquired = op[o].acquired
    BY <1>0, <1>5, GoTo DEF Throw, Failed, Remembers
  <2>2. UNCHANGED lock
    BY <1>5 DEF Throw
  <2> QED
    BY <1>5, <1>a, <1>c, <2>1, <2>2, FloorOf, LockUnchanged DEF Serial, LockInv, Holds, NothingBetween, Is
<1> QED
  BY <1>1, <1>2, <1>3, <1>4, <1>5

LEMMA LockAgents ==
  ASSUME LockInv, GitInv', NEW s \in NoneOr(Op), TypesAdd(s) \/ TypesCommit(s) \/ (s \in Op /\ Works(s))
  PROVE  LockInv'
<1>0. Discipline
  BY DEF LockInv, GitInv, HookInv
<1>1. UNCHANGED <<op, alive, lock>>
  BY <1>0, AgentDiscipline
<1>2. \A c \in Committer : PendingIsWriters(c)'
  <2>1. CASE TypesCommit(s)
    <3>1. TypedBy(s) \in CommitEnv /\ <<s, "hand">> \in Committer
          /\ TypedBy(s).process = None /\ TypedBy(s).session = s
      BY DEF TypedBy, CommitEnv, NoneOr, Committer
    <3>2. /\ git'[<<s, "hand">>] = Started(TypedBy(s), s)
          /\ \A d \in Committer : d # <<s, "hand">> => git'[d] = git[d]
      BY <1>0, <2>1, <3>1, StartsTyped DEF TypesCommit
    <3>3. git'[<<s, "hand">>].env = TypedBy(s) /\ git'[<<s, "hand">>].who = s
      BY <3>2 DEF Started
    <3>4. PendingIsWriters(<<s, "hand">>)'
      BY <3>1, <3>3 DEF PendingIsWriters
    <3> QED
      BY <1>1, <3>2, <3>4 DEF LockInv, PendingIsWriters, Holds, Actor
  <2>2. CASE ~TypesCommit(s)
    <3>1. UNCHANGED git
      BY <2>2 DEF TypesAdd, Works
    <3> QED
      BY <1>1, <3>1 DEF LockInv, PendingIsWriters, Holds, Actor
  <2> QED
    BY <2>1, <2>2
<1> QED
  BY <1>1, <1>2 DEF LockInv, LockKept, Holds, Mine, NothingBetween, NamedAcquired, CommitsUnheld, Is, isAlive

\* But for WriteLock, no step makes a holder.
NoNewHolder == \A x \in Op : Holds(x)' => Holds(x) /\ op'[x].kind = op[x].kind /\ op'[x].from = op[x].from

LEMMA GitNoHolder ==
  ASSUME Discipline, NEW c \in Committer, Commits(c)
  PROVE  /\ NoNewHolder /\ UNCHANGED <<alive, lock>>
         /\ \A x \in Op : \/ op'[x] = op[x]
                         \/ /\ op[x].at = "git" /\ op'[x].at \in {"launch", "finally", "device"}
                            /\ op'[x].acquired = op[x].acquired
<1>1. UNCHANGED <<alive, lock>> /\ (Moved(c) \/ LandsFor(c))
  BY GitDiscipline
<1>2. \A x \in Op : \/ op'[x] = op[x]
                   \/ /\ op[x].at = "git" /\ op'[x].at \in {"launch", "finally", "device"}
                      /\ op'[x].acquired = op[x].acquired /\ op'[x].kind = op[x].kind
                      /\ op'[x].from = op[x].from /\ (op'[x].at = "launch" => op[x].kind = "open")
  BY <1>1, LandedBecomes DEF Moved, LandsFor, Is, Others
<1>3. NoNewHolder
  BY <1>2 DEF NoNewHolder, Holds
<1> QED
  BY <1>1, <1>2, <1>3

LEMMA LockGit ==
  ASSUME LockInv, GitInv', NEW c \in Committer, Commits(c)
  PROVE  LockInv'
<1>0. Discipline /\ git \in Gits
  BY DEF LockInv, GitInv, HookInv, Discipline, TypeOK, Gits
<1>1. /\ NoNewHolder /\ UNCHANGED <<alive, lock>>
      /\ \A x \in Op : \/ op'[x] = op[x]
                      \/ /\ op[x].at = "git" /\ op'[x].at \in {"launch", "finally", "device"}
                         /\ op'[x].acquired = op[x].acquired
  BY <1>0, GitNoHolder
<1>2. LockKept'
  BY <1>1 DEF NoNewHolder, LockInv, LockKept, Mine
<1>3. ASSUME NEW x \in Op PROVE NothingBetween(x)' /\ NamedAcquired(x)' /\ CommitsUnheld(x)'
  BY <1>1 DEF NoNewHolder, LockInv, NothingBetween, NamedAcquired, CommitsUnheld, Is, isAlive
<1>4. ASSUME NEW d \in Committer PROVE PendingIsWriters(d)'
  <2>1. CASE LandsFor(c)
    BY <2>1 DEF LandsFor, PendingIsWriters
  <2>2. CASE Moved(c)
    <3>1. git'[d] # None => git[d] # None /\ git'[d].env = git[d].env /\ git'[d].who = git[d].who
      BY <1>0, <2>2, MovedKeeps
    <3> QED
      BY <1>1, <3>1 DEF NoNewHolder, LockInv, PendingIsWriters, Actor
  <2> QED
    BY <1>0, <2>1, <2>2, GitDiscipline
<1> QED
  BY <1>2, <1>3, <1>4 DEF LockInv

LEMMA LockCrash ==
  ASSUME LockInv, GitInv', NEW p \in Process, Crash(p)
  PROVE  LockInv'
<1>0. Discipline
  BY DEF LockInv, GitInv, HookInv
<1>1. /\ UNCHANGED <<lock, git>> /\ alive' = [alive EXCEPT ![p] = FALSE]
      /\ \A o \in Op : op'[o] = op[o] \/ (HostOf[o] = p /\ op'[o].at \in {"idle", "orphan"} /\ ~op'[o].acquired)
  BY <1>0, CrashDiscipline
<1>2. \A q \in Process : (alive'[q] => alive[q]) /\ ~alive'[p]
  BY <1>0, <1>1 DEF Discipline, TypeOK
<1> QED
  BY <1>1, <1>2, LockSurvives

LEMMA LockInit == Init => LockInv
<1> SUFFICES ASSUME Init PROVE LockInv
  OBVIOUS
<1>1. GitInv /\ \A c \in Committer : git[c] = None
  BY GitInit DEF Init
<1>2. \A o \in Op : op[o].at = "idle" /\ ~op[o].acquired
  BY DEF Init, Idle
<1>3. lock = None
  BY DEF Init
<1> QED
  BY <1>1, <1>2, <1>3 DEF LockInv, LockKept, Holds, NothingBetween, NamedAcquired,
    CommitsUnheld, PendingIsWriters, Is, isAlive

LEMMA LockStep == Serial /\ LockInv /\ [Next]_vars => LockInv'
<1> SUFFICES ASSUME Serial, LockInv, [Next]_vars PROVE LockInv'
  OBVIOUS
<1>0. GitInv'
  BY GitStep DEF LockInv, Serial
<1>1. CASE UNCHANGED vars
  BY <1>0, <1>1 DEF vars, LockInv, LockKept, Holds, Mine, Actor, NothingBetween,
    NamedAcquired, CommitsUnheld, PendingIsWriters, Is, isAlive
<1>2. CASE \E o \in Op : Begin(o) \/ Advances(o) \/ Answers(o) \/ SessionEnds(o) \/ Throw(o)
  BY <1>0, <1>2, LockAdvances, LockOthers
<1>3. CASE \E s \in NoneOr(Op) : TypesAdd(s) \/ TypesCommit(s) \/ (s \in Op /\ Works(s))
  BY <1>0, <1>3, LockAgents
<1>4. CASE \E p \in Process : Crash(p)
  BY <1>0, <1>4, LockCrash
<1>5. CASE \E c \in Committer : Commits(c)
  BY <1>0, <1>5, LockGit
<1> QED
  BY <1>1, <1>2, <1>3, <1>4, <1>5 DEF Next, NoneOr

LEMMA LockAlways == Serial /\ Spec => []LockInv
<1>1. CASE ~Serial
  BY <1>1
<1>2. CASE Serial
  BY <1>2, LockInit, LockStep, PTL DEF Spec
<1> QED
  BY <1>1, <1>2

(* Of operations that do not overlap, each in a process of its own, one that took *)
(* the lock, and the session it launched, keep it until they give it up: no       *)
(* release, takeover or removal by another takes it away.                        *)
THEOREM LockIsKept == Serial /\ Spec => []LockKept
<1>1. LockInv => LockKept
  BY DEF LockInv
<1> QED
  BY <1>1, LockAlways, PTL

-----------------------------------------------------------------------------
(* One writer. *)

LEMMA AdvancesNoHolder ==
  ASSUME Discipline, NEW o \in Op, Advances(o), ~WriteLock(o)
  PROVE  NoNewHolder
<1>0. op[o] \in Operation /\ Remembers(op[o], alive[HostOf[o]]) /\ op \in [Op -> Operation]
  BY Typed DEF Discipline, TypeOK
<1>a. Discipline' /\ Others(o)
  BY AdvanceDiscipline
<1> SUFFICES Holds(o)' => Holds(o) /\ op'[o].kind = op[o].kind /\ op'[o].from = op[o].from
  BY <1>a DEF NoNewHolder, Others, Holds
<1>1. CASE restoreProjectManifestIfChanged(o) \/ ReadManifest(o)
  <2>1. op'[o].at \in {"idle", "manifest", "change", "readLock"} /\ (op'[o].acquired => op[o].acquired)
    BY <1>0, <1>1, GoTo DEF restoreProjectManifestIfChanged, ReadManifest, Operation
  <2>2. ~op[o].acquired
    BY <1>0, <1>1 DEF restoreProjectManifestIfChanged, ReadManifest, Is, Remembers, Prelude
  <2> QED
    BY <2>1, <2>2 DEF Holds
<1>2. CASE ReadLock(o) \/ Probe(o)
  <2>1. op'[o].at \in {"probe", "writeLock", "askReadOnly", "idle"}
    BY <1>0, <1>2, GoTo DEF ReadLock, Probe, Forget, Operation
  <2> QED
    BY <2>1 DEF Holds
<1>3. CASE ReadForRelease(o) \/ Clear(o) \/ SaveDeviceRecord(o)
  <2>1. op'[o].at \in {"finally", "clear", "clearFinally", "release", "idle"}
    BY <1>0, <1>3, GoTo DEF ReadForRelease, Past, Clear, SaveDeviceRecord, Is
  <2> QED
    BY <2>1 DEF Holds
<1>4. CASE ListLeftover(o) \/ Launch(o) \/ removeProjectDirectory(o) \/ Stage(o)
  <2>1. /\ op[o].at \in {"leftover", "launch", "remove", "stage"}
        /\ \/ op'[o].at = "idle"
           \/ /\ op'[o].acquired = op[o].acquired
              /\ op'[o].kind = op[o].kind /\ op'[o].from = op[o].from
        /\ op[o].at = "remove" => op'[o].at = "stage" /\ op'[o].kind = "remove"
        /\ op[o].at = "stage" => op'[o].at \in {"idle", "commit", "finally"}
    BY <1>0, <1>4, GoTo DEF ListLeftover, Launch, Tail, removeProjectDirectory, Stage, Failed, Is, Remembers
  <2> QED
    BY <2>1 DEF Holds
<1>5. CASE Change(o)
  <2>1. /\ op'[o].acquired = op[o].acquired /\ op[o].at = "change"
        /\ op'[o].kind = op[o].kind /\ op'[o].from = op[o].from
    BY <1>0, <1>5 DEF Change, Forget, Operation, Is
  <2> QED
    BY <2>1 DEF Holds
<1>6. CASE Commit(o) \/ Refused(o)
  <2>1. /\ op[o].at \in {"commit", "git"}
        /\ \/ op'[o].at \in {"idle", "finally", "device"}
           \/ /\ op'[o].acquired = op[o].acquired /\ op'[o].kind = op[o].kind
              /\ op'[o].from = op[o].from /\ (op'[o].at = "git" \/ op[o].kind = "open")
    <3>1. CASE Refused(o)
      BY <1>0, <3>1, GoTo DEF Refused, Failed, Is
    <3>2. CASE Commit(o)
      BY <1>0, <3>2, GoTo, LandedBecomes DEF Commit, Is
    <3> QED
      BY <1>6, <3>1, <3>2
  <2> QED
    BY <2>1 DEF Holds
<1> QED
  BY <1>1, <1>2, <1>3, <1>4, <1>5, <1>6 DEF Advances

LEMMA OthersNoHolder ==
  ASSUME Discipline, NEW o \in Op, Begin(o) \/ Answers(o) \/ SessionEnds(o) \/ Throw(o)
  PROVE  NoNewHolder
<1>0. op[o] \in Operation /\ Remembers(op[o], alive[HostOf[o]]) /\ op \in [Op -> Operation]
  BY Typed DEF Discipline, TypeOK
<1>a. Discipline' /\ Others(o)
  BY BeginDiscipline, OtherDiscipline DEF Begin, Others
<1> SUFFICES Holds(o)' => Holds(o) /\ op'[o].kind = op[o].kind /\ op'[o].from = op[o].from
  BY <1>a DEF NoNewHolder, Others, Holds
<1>1. CASE Begin(o)
  <2>1. op'[o].at \in {"restore", "manifest"}
    BY <1>1, BeginDiscipline
  <2> QED
    BY <2>1 DEF Holds
<1>2. CASE Answers(o)
  <2>1. /\ op'[o].acquired = op[o].acquired /\ op'[o].kind = op[o].kind /\ op'[o].from = op[o].from
        /\ op[o].at \in {"askReadOnly", "askLeftover", "askRemove"}
    BY <1>0, <1>2, GoTo DEF Answers, AnswerReadOnly, AnswerLeftover, AnswerRemove, Is
  <2> QED
    BY <1>0, <2>1 DEF Remembers, Holds, Prelude
<1>3. CASE SessionEnds(o) \/ Throw(o)
  <2>1. op'[o].at \in {"release", "finally", "idle"}
    BY <1>0, <1>3, GoTo DEF SessionEnds, Tail, Is, Throw, Failed
  <2> QED
    BY <2>1 DEF Holds
<1> QED
  BY <1>1, <1>2, <1>3

LEMMA WriterIs ==
  ASSUME LockInv, Serial
  PROVE  /\ \A o \in Op : Holds(o) => Writer = Actor(o)
         /\ (\A o \in Op : ~Holds(o)) => Writer = None
<1>1. ASSUME NEW o \in Op, Holds(o)
      PROVE  Writer = Actor(o)
  <2> DEFINE x == CHOOSE q \in Op : Holds(q)
  <2>1. x \in Op /\ Holds(x)
    BY <1>1
  <2>2. x = o
    BY <1>1, <2>1, OneHolder
  <2> QED
    BY <1>1, <2>2 DEF Writer
<1> QED
  BY <1>1 DEF Writer

WriterCase == Writer = None \/ \E x \in Op : Holds(x) /\ Writer = Actor(x)

LEMMA WriterCases == WriterCase
BY DEF WriterCase, Writer

LEMMA WriterFades ==
  ASSUME LockInv, Serial, NoNewHolder
  PROVE  Writer' \in {Writer, None}
<1>0. WriterCase'
  BY WriterCases, PTL
<1>1. Writer' = None \/ \E x \in Op : Holds(x)' /\ Writer' = Actor(x)'
  BY <1>0 DEF WriterCase
<1>2. ASSUME NEW x \in Op, Holds(x)', Writer' = Actor(x)'
      PROVE  Writer' = Writer
  <2>1. Holds(x) /\ Actor(x)' = Actor(x)
    BY <1>2 DEF NoNewHolder, Actor
  <2> QED
    BY <1>2, <2>1, WriterIs
<1> QED
  BY <1>1, <1>2

\* Beside a holder only it, or its session, commits.
LEMMA LandsAsWriter ==
  ASSUME LockInv, Serial, NEW c \in Committer, IsAt(c, "passed")
  PROVE  Writer \in {None, git[c].who}
<1>1. CASE \A h \in Op : ~Holds(h)
  BY <1>1, WriterIs
<1>2. CASE \E h \in Op : Holds(h)
  <2> PICK h \in Op : Holds(h)
    BY <1>2
  <2>1. Writer = Actor(h)
    BY WriterIs
  <2>2. isAlive(lock) /\ lock = Mine(h) /\ lock # None
    BY HolderLives
  <2>3. HoldsBySession(git[c].env, lock) \/ isLockHolderProcess(git[c].env, lock)
    BY <2>2, Landing DEF LockInv, NoConflict
  <2>4. PendingIsWriters(c) /\ git[c] # None
    BY DEF LockInv, IsAt
  <2>5. CASE git[c].env.process = None /\ (git[c].env.session # None => git[c].who = git[c].env.session)
    <3>1. Mine(h).session # None /\ Mine(h).session = git[c].who
      BY <2>2, <2>3, <2>5 DEF HoldsBySession, isLockHolderProcess
    <3> QED
      BY <2>1, <3>1 DEF Actor, Mine
  <2>6. CASE \A x \in Op : Holds(x) => Actor(x) = git[c].who
    BY <2>1, <2>6
  <2> QED
    BY <2>4, <2>5, <2>6 DEF PendingIsWriters
<1> QED
  BY <1>1, <1>2

LEMMA AbstractStep == Serial /\ LockInv /\ [Next]_vars => [Abstract!Next]_<<Writer, head, author>>
<1> SUFFICES ASSUME Serial, LockInv, [Next]_vars
             PROVE  [Abstract!Next]_<<Writer, head, author>>
  OBVIOUS
<1>a. LockInv' /\ Discipline
  BY LockStep DEF LockInv, GitInv, HookInv
<1> USE DEF Abstract!Next, Abstract!Take, Abstract!Leave, Abstract!Commit
<1>b. ASSUME NoNewHolder, UNCHANGED <<head, author>>
      PROVE  [Abstract!Next]_<<Writer, head, author>>
  BY <1>a, <1>b, WriterFades
<1>1. CASE UNCHANGED vars
  <2>1. NoNewHolder /\ UNCHANGED <<head, author>>
    BY <1>1 DEF vars, files, NoNewHolder, Holds
  <2> QED
    BY <1>b, <2>1
<1>2. ASSUME NEW o \in Op, Begin(o) \/ Answers(o) \/ SessionEnds(o) \/ Throw(o)
      PROVE  [Abstract!Next]_<<Writer, head, author>>
  <2>1. UNCHANGED <<head, author>>
    BY <1>2 DEF Begin, Answers, AnswerReadOnly, AnswerLeftover, AnswerRemove, SessionEnds, Throw, files
  <2> QED
    BY <1>a, <1>b, <1>2, <2>1, OthersNoHolder
<1>3. ASSUME NEW o \in Op, Advances(o), ~WriteLock(o)
      PROVE  [Abstract!Next]_<<Writer, head, author>>
  <2>1. UNCHANGED <<head, author>>
    BY <1>3 DEF Advances, restoreProjectManifestIfChanged, ReadManifest, ReadLock, Probe, ReadForRelease,
      Clear, ListLeftover, Launch, removeProjectDirectory, Change, Stage, Commit, Refused,
      SaveDeviceRecord, files
  <2> QED
    BY <1>a, <1>b, <1>3, <2>1, AdvancesNoHolder
<1>4. ASSUME NEW o \in Op, WriteLock(o)
      PROVE  [Abstract!Next]_<<Writer, head, author>>
  <2>1. UNCHANGED <<head, author>> /\ ~isAlive(lock)
    BY <1>4 DEF WriteLock, files, LockInv, NothingBetween
  <2>2. Writer = None
    BY <2>1, HolderLives, WriterIs
  <2>3. Writer' \in Op \cup {None}
    <3>0. WriterCase'
      BY WriterCases, PTL
    <3>1. Writer' = None \/ \E x \in Op : Holds(x)' /\ Writer' = Actor(x)'
      BY <3>0 DEF WriterCase
    <3>2. \A x \in Op : op'[x] \in Operation
      BY <1>a DEF LockInv, GitInv, HookInv, Discipline, TypeOK
    <3> QED
      BY <3>1, <3>2 DEF Actor, Operation, NoneOr
  <2> QED
    BY <2>1, <2>2, <2>3
<1>5. ASSUME NEW c \in Committer, Commits(c)
      PROVE  [Abstract!Next]_<<Writer, head, author>>
  <2>1. NoNewHolder
    BY <1>a, <1>5, GitNoHolder
  <2>2. Writer' \in {Writer, None}
    BY <1>a, <2>1, WriterFades
  <2>3. \/ UNCHANGED <<head, author>>
        \/ author' = git[c].who /\ IsAt(c, "passed")
    BY <1>5 DEF Commits, HookLists, HookReads, HookDecides, GitFails, CommitLands, files
  <2> QED
    BY <1>b, <2>1, <2>2, <2>3, LandsAsWriter
<1>6. ASSUME NEW s \in NoneOr(Op), TypesAdd(s) \/ TypesCommit(s) \/ (s \in Op /\ Works(s))
      PROVE  [Abstract!Next]_<<Writer, head, author>>
  <2>1. UNCHANGED <<op, head, author>>
    BY <1>a, <1>6, AgentDiscipline
  <2>2. NoNewHolder
    BY <2>1 DEF NoNewHolder, Holds
  <2> QED
    BY <1>b, <2>1, <2>2
<1>7. ASSUME NEW p \in Process, Crash(p)
      PROVE  [Abstract!Next]_<<Writer, head, author>>
  <2>1. NoNewHolder /\ UNCHANGED <<head, author>>
    BY <1>a, <1>7, CrashDiscipline DEF NoNewHolder, Holds, files
  <2> QED
    BY <1>b, <2>1
<1> QED
  BY <1>1, <1>2, <1>3, <1>4, <1>5, <1>6, <1>7 DEF Next, NoneOr, Advances

(* The lock and the commit guard together keep one writer, where operations at work, *)
(* and commits, do not overlap: whoever has the lock commits, and beside a holder   *)
(* only the session it belongs to does.                                           *)
THEOREM Implementation == Serial /\ Spec => ImplementsSingleWriter
<1>1. Init => Abstract!Init
  <2> SUFFICES ASSUME Init PROVE Writer = None
    BY DEF Abstract!Init
  <2>1. \A o \in Op : ~Holds(o)
    BY DEF Init, Idle, Holds
  <2> QED
    BY <2>1 DEF Writer
<1>2. CASE ~Serial
  BY <1>2
<1>3. CASE Serial
  BY <1>1, <1>3, LockAlways, AbstractStep, PTL DEF Spec, ImplementsSingleWriter, Abstract!Spec
<1> QED
  BY <1>2, <1>3

-----------------------------------------------------------------------------
(* The manifest of a project that is open. *)

Active(m) == m # None /\ ~m.archived

OpenHolder(o) == op[o].kind = "open" /\ Holds(o)

OpenRule(o) ==
  op[o].kind = "open" =>
    /\ Is(o, "manifest") /\ Active(tree.manifest) => Active(head.manifest)
    /\ op[o].at \in {"readLock", "probe", "writeLock"} => Active(tree.manifest) /\ Active(head.manifest)
    /\ Holds(o) => Active(tree.manifest) /\ Active(head.manifest)

\* An addition of a repository to a project that is open leaves it so.
AdditionRule(x) ==
  op[x].kind = "addRepo" /\ (\E o \in Op : OpenHolder(o)) =>
    /\ Is(x, "change") => Active(op[x].manifest)
    /\ Is(x, "commit") => Active(index.manifest)

\* And so does what seeya is about to commit.
PendingOpen(c) ==
  git[c] # None /\ git[c].env.marked /\ (\E o \in Op : OpenHolder(o)) =>
    Active(git[c].content.manifest)

OpenInv ==
  /\ LockInv
  /\ CommitInv
  /\ \A o \in Op : OpenRule(o) /\ AdditionRule(o)
  /\ \A c \in Committer : PendingOpen(c)

\* A step of the operation o that has the floor, and leaves what others hold active.
LEMMA OpenMoves ==
  ASSUME OpenInv, LockInv', CommitInv', NEW o \in Op, Floor(o), Others(o), OpenRule(o)', AdditionRule(o)',
         \A c \in Committer : PendingOpen(c)',
         \A x \in Op : x # o /\ OpenHolder(x) => Active(tree'.manifest) /\ Active(head'.manifest)
  PROVE  OpenInv'
<1> SUFFICES ASSUME NEW x \in Op, x # o PROVE OpenRule(x)' /\ AdditionRule(x)'
  BY DEF OpenInv
<1>1. op'[x] = op[x] /\ op[x].at \notin AtWork
  BY DEF Floor, Others, Working
<1>2. OpenRule(x)'
  BY <1>1 DEF OpenRule, OpenHolder, Holds, Is, AtWork, Prelude, Attempt
<1>3. AdditionRule(x)'
  BY <1>1 DEF AdditionRule, Is, AtWork, Attempt
<1> QED
  BY <1>2, <1>3

\* A step that takes the files, and a shorter list of operations, as they were.
LEMMA OpenSurvives ==
  ASSUME OpenInv, LockInv', CommitInv', UNCHANGED <<files, git>>,
         \A x \in Op : op'[x] = op[x] \/ (op'[x].at \in {"idle", "orphan"} /\ ~op'[x].acquired)
  PROVE  OpenInv'
<1>1. \A x \in Op : Holds(x)' => Holds(x) /\ op'[x] = op[x]
  BY DEF Holds
<1>2. ASSUME NEW x \in Op PROVE OpenRule(x)' /\ AdditionRule(x)'
  <2>1. CASE op'[x] = op[x]
    <3>1. OpenRule(x)'
      BY <2>1 DEF OpenInv, OpenRule, Holds, Is, files
    <3>2. AdditionRule(x)'
      BY <1>1, <2>1 DEF OpenInv, AdditionRule, OpenHolder, Is, files
    <3> QED
      BY <3>1, <3>2
  <2>2. CASE op'[x].at \in {"idle", "orphan"}
    BY <2>2 DEF OpenRule, AdditionRule, Holds, Is
  <2> QED
    BY <2>1, <2>2
<1>3. \A c \in Committer : PendingOpen(c)'
  BY <1>1 DEF OpenInv, PendingOpen, OpenHolder
<1> QED
  BY <1>2, <1>3 DEF OpenInv

\* Beside an open that holds the lock nobody else does, nor is about to commit with it.
LEMMA OpenAlone ==
  ASSUME OpenInv, Serial, NEW o \in Op, NEW x \in Op, x # o, OpenHolder(x),
         op[o].at \in {"change", "remove", "stage", "commit", "git"}
  PROVE  op[o].kind = "addRepo"
<1>1. ~Holds(o)
  BY OneHolder DEF OpenInv, OpenHolder
<1>2. Remembers(op[o], alive[HostOf[o]])
  BY Typed DEF OpenInv, LockInv, GitInv, HookInv
<1>3. CommitsUnheld(o) /\ Holds(x)
  BY DEF OpenInv, LockInv, OpenHolder
<1> QED
  BY <1>1, <1>2, <1>3 DEF Remembers, Holds, CommitsUnheld

LEMMA OpenAdvances ==
  ASSUME OpenInv, Serial, LockInv', CommitInv', NEW o \in Op, Advances(o)
  PROVE  OpenInv'
<1>0. op[o] \in Operation /\ Remembers(op[o], alive[HostOf[o]]) /\ Discipline /\ op \in [Op -> Operation]
  BY Typed DEF OpenInv, LockInv, GitInv, HookInv, Discipline, TypeOK
<1>a. Others(o) /\ Floor(o) /\ NoCommit
  BY <1>0, AdvanceDiscipline, FloorOf DEF OpenInv, LockInv, Serial
<1>b. OpenRule(o) /\ AdditionRule(o)
  BY DEF OpenInv
<1>e. UNCHANGED git => \A c \in Committer : PendingOpen(c)'
  BY <1>a DEF NoCommit, PendingOpen
<1>c. \A x \in Op : OpenHolder(x) => Active(tree.manifest) /\ Active(head.manifest)
  BY DEF OpenInv, OpenRule, OpenHolder
<1>d. \A x \in Op : x # o => (OpenHolder(x)' <=> OpenHolder(x))
  BY <1>a DEF Others, OpenHolder, Holds
<1>1. CASE restoreProjectManifestIfChanged(o)
  <2>1. /\ op'[o].at \in {"idle", "manifest"} /\ ~op'[o].acquired
        /\ UNCHANGED <<head, git>>
    BY <1>0, <1>1, GoTo DEF restoreProjectManifestIfChanged, Is, Remembers, Prelude
  <2>2. tree'.manifest \in {tree.manifest, head.manifest}
    BY <1>0, <1>1, Typed DEF restoreProjectManifestIfChanged, Content
  <2>3. op'[o].at = "manifest" => tree'.manifest = head.manifest
    <3>1. CASE ManifestDiffers
      BY <1>0, <1>1, <2>1, <3>1, GoTo, Typed DEF restoreProjectManifestIfChanged, Content
    <3>2. CASE ~ManifestDiffers
      <4>1. UNCHANGED tree
        BY <1>1, <3>2 DEF restoreProjectManifestIfChanged
      <4>2. tree.manifest = head.manifest
        BY <3>2 DEF ManifestDiffers, OpenInv, CommitInv, NoGhost
      <4> QED
        BY <4>1, <4>2
    <3> QED
      BY <3>1, <3>2
  <2>4. OpenRule(o)' /\ AdditionRule(o)'
    BY <2>1, <2>3 DEF OpenRule, AdditionRule, Holds, Is
  <2>5. \A x \in Op : x # o /\ OpenHolder(x) => Active(tree'.manifest) /\ Active(head'.manifest)
    BY <1>c, <2>1, <2>2
  <2> QED
    BY <1>a, <1>e, <2>1, <2>4, <2>5, OpenMoves
<1>2. CASE ReadManifest(o)
  <2>0. UNCHANGED <<tree, index, head, git>>
    BY <1>2 DEF ReadManifest, files
  <2>1. CASE Go(o, "idle")
    <3>1. op'[o].at = "idle" /\ ~op'[o].acquired
      BY <1>0, <2>1, GoTo
    <3>2. OpenRule(o)' /\ AdditionRule(o)'
      BY <3>1 DEF OpenRule, AdditionRule, Holds, Is
    <3> QED
      BY <1>a, <1>c, <1>e, <2>0, <3>2, OpenMoves
  <2>2. CASE ~Go(o, "idle")
    <3>1. /\ op'[o].kind = op[o].kind /\ op'[o].at \in {"change", "readLock"} /\ op[o].at = "manifest"
          /\ op'[o].acquired = op[o].acquired
          /\ op'[o].at = "change" => op'[o].manifest = tree.manifest
          /\ Accepts(op[o].kind, tree.manifest)
          /\ op'[o].at = "change" => op[o].kind = "addRepo"
      BY <1>0, <1>2, <2>2 DEF ReadManifest, Operation, Is
    <3>2. ~op[o].acquired
      BY <1>0, <3>1 DEF Remembers, Prelude
    <3>3. OpenRule(o)'
      BY <1>b, <2>0, <3>1, <3>2 DEF OpenRule, Accepts, Active, Holds, Is
    <3>4. AdditionRule(o)'
      <4> SUFFICES ASSUME op'[o].kind = "addRepo", NEW x \in Op, OpenHolder(x)'
                   PROVE  (Is(o, "change")' => Active(op'[o].manifest))
        BY <3>1 DEF AdditionRule, Is
      <4>1. OpenHolder(x)
        BY <1>d, <3>1 DEF OpenHolder
      <4> QED
        BY <1>c, <3>1, <4>1 DEF Is
    <3> QED
      BY <1>a, <1>c, <1>e, <2>0, <3>3, <3>4, OpenMoves
  <2> QED
    BY <2>1, <2>2
<1>3. CASE ReadLock(o) \/ Probe(o)
  <2>0. UNCHANGED <<tree, index, head, git>>
    BY <1>3 DEF ReadLock, Probe, files
  <2>1. /\ op[o].at \in {"readLock", "probe"} /\ ~op[o].acquired
        /\ \/ op'[o].at = "idle" /\ ~op'[o].acquired
           \/ op'[o].at \in {"probe", "writeLock", "askReadOnly"} /\ op'[o].kind = op[o].kind
              /\ op'[o].acquired = op[o].acquired
    BY <1>0, <1>3, GoTo DEF ReadLock, Probe, Forget, Operation, Is, Remembers, Prelude
  <2>2. OpenRule(o)'
    BY <1>b, <2>0, <2>1 DEF OpenRule, Holds, Is
  <2>3. AdditionRule(o)'
    BY <2>1 DEF AdditionRule, Is
  <2> QED
    BY <1>a, <1>c, <1>e, <2>0, <2>2, <2>3, OpenMoves
<1>4. CASE WriteLock(o)
  <2>0. UNCHANGED <<tree, index, head, git>>
    BY <1>4 DEF WriteLock, files
  <2>1. /\ op[o].at = "writeLock" /\ op'[o].kind = op[o].kind /\ op[o].kind # "addRepo"
        /\ op'[o].at \in {"leftover", "askRemove", "change"}
    BY <1>0, <1>4 DEF WriteLock, Operation, Is, Remembers
  <2>2. OpenRule(o)'
    BY <1>b, <2>0, <2>1 DEF OpenRule, Is
  <2>3. AdditionRule(o)'
    BY <2>1 DEF AdditionRule
  <2> QED
    BY <1>a, <1>c, <1>e, <2>0, <2>2, <2>3, OpenMoves
<1>5. CASE ReadForRelease(o) \/ Clear(o) \/ SaveDeviceRecord(o)
  <2>0. UNCHANGED <<tree, index, head, git>>
    BY <1>5 DEF ReadForRelease, Clear, SaveDeviceRecord, files
  <2>1. op'[o].at \in {"finally", "clear", "clearFinally", "release", "idle"}
    BY <1>0, <1>5, GoTo DEF ReadForRelease, Past, Clear, SaveDeviceRecord, Is
  <2>2. OpenRule(o)' /\ AdditionRule(o)'
    BY <2>1 DEF OpenRule, AdditionRule, Holds, Is
  <2> QED
    BY <1>a, <1>c, <1>e, <2>0, <2>2, OpenMoves
<1>6. CASE ListLeftover(o) \/ Launch(o)
  <2>0. UNCHANGED <<tree, index, head, git>>
    BY <1>6 DEF ListLeftover, Launch, files
  <2>1. /\ op[o].at \in {"leftover", "launch"} /\ op'[o].kind = op[o].kind /\ op'[o].acquired = op[o].acquired
        /\ op'[o].at \in {"launch", "askLeftover", "running", "release", "finally"}
    BY <1>0, <1>6, GoTo DEF ListLeftover, Launch, Tail, Is
  <2>2. OpenRule(o)' /\ AdditionRule(o)'
    BY <1>b, <2>0, <2>1 DEF OpenRule, AdditionRule, Holds, Is
  <2> QED
    BY <1>a, <1>c, <1>e, <2>0, <2>2, OpenMoves
<1>7. CASE removeProjectDirectory(o)
  <2>1. UNCHANGED git /\ op[o].at = "remove" /\ op'[o].at = "stage" /\ op'[o].kind = "remove" /\ op[o].kind = "remove"
    BY <1>0, <1>7, GoTo DEF removeProjectDirectory, Is, Remembers
  <2>2. OpenRule(o)' /\ AdditionRule(o)'
    BY <2>1 DEF OpenRule, AdditionRule
  <2>3. \A x \in Op : x # o => ~OpenHolder(x)
    BY <2>1, OpenAlone
  <2> QED
    BY <1>a, <1>e, <2>1, <2>2, <2>3, OpenMoves
<1>8. CASE Change(o)
  <2>1. /\ op[o].at = "change" /\ op'[o].at = "stage" /\ op'[o].kind = op[o].kind
        /\ op[o].kind # "open" /\ UNCHANGED <<head, git>>
        /\ tree' = [tree EXCEPT !.manifest = Changed(op[o].kind, op[o].manifest)]
    BY <1>0, <1>8 DEF Change, Forget, Operation, Is, Remembers
  <2>2. OpenRule(o)' /\ AdditionRule(o)'
    BY <2>1 DEF OpenRule, AdditionRule, Is
  <2>3. ASSUME NEW x \in Op, x # o, OpenHolder(x)
        PROVE  Active(tree'.manifest) /\ Active(head'.manifest)
    <3>1. op[o].kind = "addRepo"
      BY <2>1, <2>3, OpenAlone
    <3>2. Active(op[o].manifest)
      BY <1>b, <2>1, <2>3, <3>1 DEF AdditionRule, Is
    <3>3. op[o].manifest \in Manifest
      BY <1>0, <3>2 DEF Active, Operation, NoneOr
    <3>4. tree'.manifest = [op[o].manifest EXCEPT !.repo = TRUE]
      BY <1>0, <2>1, <3>1, Typed DEF Changed, Content
    <3>5. tree'.manifest \in Manifest /\ tree'.manifest.archived = op[o].manifest.archived
      BY <3>3, <3>4 DEF Manifest
    <3>6. Active(tree'.manifest)
      BY <3>2, <3>5, NoneManifestAssumption DEF Active
    <3> QED
      BY <1>c, <2>1, <2>3, <3>6
  <2> QED
    BY <1>a, <1>e, <2>1, <2>2, <2>3, OpenMoves
<1>9. CASE Stage(o)
  <2>0. UNCHANGED <<tree, head, git>>
    BY <1>9 DEF Stage
  <2>1. /\ op[o].at = "stage"
        /\ \/ op'[o].at \in {"idle", "finally"}
           \/ op'[o].at = "commit" /\ op'[o].kind = op[o].kind /\ op'[o].acquired = op[o].acquired
              /\ index' = tree
    BY <1>0, <1>9, GoTo DEF Stage, Failed, Is
  <2>2. CASE op'[o].at \in {"idle", "finally"}
    <3>1. OpenRule(o)' /\ AdditionRule(o)'
      BY <2>2 DEF OpenRule, AdditionRule, Holds, Is
    <3> QED
      BY <1>a, <1>c, <1>e, <2>0, <3>1, OpenMoves
  <2>3. CASE op'[o].at = "commit"
    <3>1. op'[o].kind = op[o].kind /\ op'[o].acquired = op[o].acquired /\ index' = tree
      BY <2>1, <2>3
    <3>2. op[o].kind = "open" => Holds(o)
      BY <1>0, <2>1 DEF Remembers, Holds
    <3>3. OpenRule(o)'
      BY <1>b, <2>0, <2>3, <3>1, <3>2 DEF OpenRule, Is
    <3>4. AdditionRule(o)'
      <4> SUFFICES ASSUME op'[o].kind = "addRepo", NEW x \in Op, OpenHolder(x)'
                   PROVE  Active(index'.manifest)
        BY <2>3 DEF AdditionRule, Is
      <4>1. OpenHolder(x)
        BY <1>d, <3>1 DEF OpenHolder
      <4> QED
        BY <1>c, <3>1, <4>1
    <3> QED
      BY <1>a, <1>c, <1>e, <2>0, <3>3, <3>4, OpenMoves
  <2> QED
    BY <2>1, <2>2, <2>3
<1>10. CASE Commit(o)
  <2>0. UNCHANGED <<tree, index, head>> /\ Is(o, "commit")
    BY <1>10 DEF Commit, files
  <2>1. op'[o].at \in {"git", "launch", "finally", "device"}
    BY <1>0, <1>10, GoTo, LandedBecomes DEF Commit, Is
  <2>2. Holds(o)' => Holds(o) /\ op'[o].kind = op[o].kind
    <3>1. ~WriteLock(o)
      BY <2>0 DEF WriteLock, Is
    <3> QED
      BY <1>0, <1>10, <3>1, AdvancesNoHolder DEF NoNewHolder, Advances
  <2>3. OpenRule(o)' /\ AdditionRule(o)'
    BY <1>b, <2>0, <2>1, <2>2 DEF OpenRule, AdditionRule, Is
  <2>4. CASE UNCHANGED git
    BY <1>a, <1>c, <1>e, <2>0, <2>3, <2>4, OpenMoves
  <2>5. CASE Starts(Own(o), CommitOf(o), Actor(o))
    <3>1. /\ git'[Own(o)] = Started(CommitOf(o), Actor(o)) /\ Own(o) \in Committer
          /\ \A d \in Committer : d # Own(o) => git'[d] = None
      BY <1>0, <1>a, <2>5, EnvTyped, StartsTyped DEF NoneOr, NoCommit
    <3>2. git'[Own(o)].env = CommitOf(o) /\ git'[Own(o)].content = index
      BY <3>1 DEF Started
    <3>3. PendingOpen(Own(o))'
      <4>1. CASE op[o].kind = "open"
        <5>1. ~CommitOf(o).marked
          BY <4>1 DEF CommitOf
        <5>2. ~git'[Own(o)].env.marked
          BY <3>2, <5>1
        <5> QED
          BY <5>2 DEF PendingOpen
      <4>2. CASE op[o].kind # "open"
        <5> SUFFICES ASSUME NEW x \in Op, OpenHolder(x)' PROVE Active(index.manifest)
          BY <3>2 DEF PendingOpen
        <5>1. x # o /\ OpenHolder(x)
          BY <1>d, <2>2, <4>2 DEF OpenHolder
        <5>2. op[o].kind = "addRepo"
          BY <2>0, <5>1, OpenAlone DEF Is
        <5> QED
          BY <1>b, <2>0, <5>1, <5>2 DEF AdditionRule
      <4> QED
        BY <4>1, <4>2
    <3>4. \A c \in Committer : PendingOpen(c)'
      BY <3>1, <3>3 DEF PendingOpen
    <3> QED
      BY <1>a, <1>c, <2>0, <2>3, <3>4, OpenMoves
  <2> QED
    BY <1>10, <2>4, <2>5 DEF Commit
<1>11. CASE Refused(o)
  <2>0. UNCHANGED <<tree, index, head, git>>
    BY <1>11 DEF Refused, files
  <2>1. op'[o].at \in {"finally", "idle"}
    BY <1>0, <1>11, GoTo DEF Refused, Failed
  <2>2. OpenRule(o)' /\ AdditionRule(o)'
    BY <2>1 DEF OpenRule, AdditionRule, Holds, Is
  <2> QED
    BY <1>a, <1>c, <1>e, <2>0, <2>2, OpenMoves
<1> QED
  BY <1>1, <1>2, <1>3, <1>4, <1>5, <1>6, <1>7, <1>8, <1>9, <1>10, <1>11 DEF Advances

LEMMA OpenOthers ==
  ASSUME OpenInv, Serial, LockInv', CommitInv', NEW o \in Op, Begin(o) \/ Answers(o) \/ SessionEnds(o) \/ Throw(o)
  PROVE  OpenInv'
<1>0. op[o] \in Operation /\ Remembers(op[o], alive[HostOf[o]]) /\ Discipline /\ op \in [Op -> Operation]
  BY Typed DEF OpenInv, LockInv, GitInv, HookInv, Discipline, TypeOK
<1>a. Others(o)
  BY <1>0, BeginDiscipline, OtherDiscipline DEF Begin, Others
<1>b. OpenRule(o)
  BY DEF OpenInv
<1>c. \A x \in Op : OpenHolder(x) => Active(tree.manifest) /\ Active(head.manifest)
  BY DEF OpenInv, OpenRule, OpenHolder
<1>d. UNCHANGED <<files, git, tree, index, head>>
  BY DEF Begin, Answers, AnswerReadOnly, AnswerLeftover, AnswerRemove, SessionEnds, Throw, files
<1>e. NoCommit => \A c \in Committer : PendingOpen(c)'
  BY <1>d DEF NoCommit, PendingOpen
<1>1. CASE Begin(o)
  <2>1. op'[o].at \in {"restore", "manifest"} /\ (op'[o].kind = "open" => op'[o].at = "restore")
    BY <1>0, <1>1, BeginDiscipline
  <2>2. OpenRule(o)' /\ AdditionRule(o)'
    BY <2>1 DEF OpenRule, AdditionRule, Holds, Is
  <2> QED
    BY <1>1, <1>a, <1>c, <1>d, <1>e, <2>2, FloorOf, OpenMoves DEF Serial, OpenInv, LockInv
<1>2. CASE Answers(o)
  <2>1. /\ op'[o].acquired = op[o].acquired /\ op'[o].kind = op[o].kind
        /\ \/ op[o].at = "askReadOnly" /\ op'[o].at \in {"launch", "finally"}
           \/ op[o].at = "askLeftover" /\ op'[o].at \in {"stage", "launch", "release"}
           \/ op[o].at = "askRemove" /\ op'[o].at \in {"remove", "release"}
    BY <1>0, <1>2, GoTo DEF Answers, AnswerReadOnly, AnswerLeftover, AnswerRemove, Is
  <2>2. /\ op[o].at = "askReadOnly" => ~op[o].acquired
        /\ op[o].at = "askLeftover" => Holds(o)
        /\ op[o].at = "askRemove" => op[o].kind = "remove"
    BY <1>0 DEF Remembers, Holds, Prelude
  <2>3. OpenRule(o)' /\ AdditionRule(o)'
    BY <1>b, <1>d, <2>1, <2>2 DEF OpenRule, AdditionRule, Holds, Is
  <2> QED
    BY <1>2, <1>a, <1>c, <1>d, <1>e, <2>3, FloorOf, OpenMoves DEF Serial, OpenInv, LockInv
<1>3. CASE (SessionEnds(o) /\ Is(o, "running")) \/ Throw(o)
  <2>1. op'[o].at \in {"release", "finally", "idle"}
    BY <1>0, <1>3, GoTo DEF SessionEnds, Tail, Is, Throw, Failed
  <2>2. OpenRule(o)' /\ AdditionRule(o)'
    BY <2>1 DEF OpenRule, AdditionRule, Holds, Is
  <2> QED
    BY <1>3, <1>a, <1>c, <1>d, <1>e, <2>2, FloorOf, OpenMoves DEF Serial, OpenInv, LockInv
<1>4. CASE SessionEnds(o) /\ ~Is(o, "running")
  <2>1. op'[o].at = "idle" /\ ~op'[o].acquired
    BY <1>0, <1>4, GoTo DEF SessionEnds, Is
  <2> QED
    BY <1>a, <1>d, <2>1, OpenSurvives DEF Others
<1> QED
  BY <1>1, <1>2, <1>3, <1>4

\* Agents stage what an open project has.
LEMMA OpenAgents ==
  ASSUME OpenInv, LockInv', CommitInv', NEW s \in NoneOr(Op),
         TypesAdd(s) \/ TypesCommit(s) \/ (s \in Op /\ Works(s))
  PROVE  OpenInv'
<1>0. Discipline
  BY DEF OpenInv, LockInv, GitInv, HookInv
<1>1. UNCHANGED <<op, alive, lock, head>>
  BY <1>0, AgentDiscipline
<1>2. Active(tree'.manifest) <=> Active(tree.manifest)
  <2>1. CASE tree'.manifest = tree.manifest
    BY <2>1
  <2>2. CASE tree'.manifest # tree.manifest
    <3>1. tree.manifest # None /\ tree' = [tree EXCEPT !.manifest.edited = TRUE]
      BY <1>0, <2>2, Typed DEF TypesAdd, TypesCommit, Works, Content, files
    <3>2. tree \in Content /\ tree.manifest \in Manifest
      BY <1>0, <3>1, Typed DEF Content, NoneOr
    <3>3. tree'.manifest \in Manifest /\ tree'.manifest.archived = tree.manifest.archived
      BY <3>1, <3>2 DEF Content, Manifest
    <3> QED
      BY <3>1, <3>3, NoneManifestAssumption DEF Active
  <2> QED
    BY <2>1, <2>2
<1>3. index' = index \/ index' = tree
  BY DEF TypesAdd, TypesCommit, Works, files
<1>4. ASSUME NEW x \in Op PROVE OpenRule(x)' /\ AdditionRule(x)'
  <2>1. OpenRule(x) /\ AdditionRule(x)
    BY DEF OpenInv
  <2>2. OpenRule(x)'
    BY <1>1, <1>2, <2>1 DEF OpenRule, Holds, Is
  <2>3. (\E y \in Op : OpenHolder(y)) => Active(tree.manifest)
    BY DEF OpenInv, OpenRule, OpenHolder
  <2>4. AdditionRule(x)'
    BY <1>1, <1>3, <2>1, <2>3 DEF AdditionRule, OpenHolder, Holds, Is
  <2> QED
    BY <2>2, <2>4
<1>5. ASSUME NEW c \in Committer PROVE PendingOpen(c)'
  <2>1. git'[c] = git[c] \/ ~git'[c].env.marked
    BY <1>0, HandGits
  <2>2. \A o \in Op : OpenHolder(o)' <=> OpenHolder(o)
    BY <1>1 DEF OpenHolder, Holds
  <2> QED
    BY <2>1, <2>2 DEF OpenInv, PendingOpen
<1> QED
  BY <1>4, <1>5 DEF OpenInv

\* What lands while a project is open leaves it active.
LEMMA OpenGit ==
  ASSUME OpenInv, LockInv', CommitInv', NEW c \in Committer, Commits(c)
  PROVE  OpenInv'
<1>0. Discipline /\ GitInv
  BY DEF OpenInv, LockInv, GitInv, HookInv
<1>1. UNCHANGED <<alive, lock, tree, index>> /\ (Moved(c) \/ LandsFor(c)) /\ NoNewHolder
  BY <1>0, GitDiscipline, GitNoHolder
<1>2. \A x \in Op : OpenHolder(x)' => OpenHolder(x)
  BY <1>1 DEF NoNewHolder, OpenHolder
<1>3. CASE Moved(c)
  <2>1. UNCHANGED <<op, head>>
    BY <1>3 DEF Moved, files
  <2>2. \A x \in Op : OpenRule(x)' /\ AdditionRule(x)'
    BY <1>1, <2>1 DEF OpenInv, OpenRule, AdditionRule, OpenHolder, Holds, Is
  <2>3. ASSUME NEW d \in Committer PROVE PendingOpen(d)'
    <3>1. git'[d] # None => /\ git[d] # None /\ git'[d].env = git[d].env
                            /\ git'[d].content = git[d].content
      BY <1>0, <1>3, MovedKeeps
    <3> QED
      BY <1>2, <3>1 DEF OpenInv, PendingOpen
  <2> QED
    BY <2>2, <2>3 DEF OpenInv
<1>4. CASE LandsFor(c)
  <2>1. /\ IsAt(c, "passed") /\ head' = git[c].content /\ git[c] # None
        /\ \A d \in Committer : git'[d] = None
    BY <1>4 DEF LandsFor, IsAt
  <2>2. /\ git[c].content = index /\ git[c].staged = Staged
        /\ git[c].staged = "manifest" => git[c].env.marked
        /\ \A o \in Op : Working(o) => Is(o, "git")
    BY <1>0, <2>1, Landing
  <2>3. ASSUME NEW x \in Op, OpenHolder(x)
        PROVE  Active(tree'.manifest) /\ Active(head'.manifest)
    <3>1. Active(tree.manifest) /\ Active(head.manifest)
      BY <2>3 DEF OpenInv, OpenRule, OpenHolder
    <3>2. CASE head'.manifest = head.manifest
      BY <1>1, <3>1, <3>2
    <3>3. CASE head'.manifest # head.manifest
      <4>1. git[c].env.marked
        BY <2>1, <2>2, <3>3 DEF Staged
      <4> QED
        BY <1>1, <2>1, <2>3, <3>1, <4>1 DEF OpenInv, PendingOpen
    <3> QED
      BY <3>2, <3>3
  <2>4. ASSUME NEW x \in Op PROVE OpenRule(x)' /\ AdditionRule(x)'
    <3>1. op'[x] = op[x] \/ op'[x].at \in {"launch", "finally", "device"}
      BY <1>0, GitNoHolder
    <3>2. op'[x].at \notin {"manifest", "readLock", "probe", "writeLock", "change", "commit"}
      BY <2>2, <3>1 DEF Working, Is, AtWork, Prelude, Attempt
    <3> QED
      BY <1>2, <2>3, <3>2 DEF OpenRule, AdditionRule, OpenHolder, Is
  <2> QED
    BY <2>1, <2>4 DEF OpenInv, PendingOpen
<1> QED
  BY <1>1, <1>3, <1>4

LEMMA OpenStep == Serial /\ OpenInv /\ [Next]_vars => OpenInv'
<1> SUFFICES ASSUME Serial, OpenInv, [Next]_vars PROVE OpenInv'
  OBVIOUS
<1>0. LockInv' /\ CommitInv' /\ Discipline
  BY LockStep, CommitStep DEF OpenInv, LockInv, GitInv, HookInv, Serial
<1>1. CASE UNCHANGED vars
  BY <1>0, <1>1, OpenSurvives DEF vars
<1>2. CASE \E o \in Op : Begin(o) \/ Advances(o) \/ Answers(o) \/ SessionEnds(o) \/ Throw(o)
  BY <1>0, <1>2, OpenAdvances, OpenOthers
<1>3. CASE \E s \in NoneOr(Op) : TypesAdd(s) \/ TypesCommit(s) \/ (s \in Op /\ Works(s))
  BY <1>0, <1>3, OpenAgents
<1>4. ASSUME NEW p \in Process, Crash(p) PROVE OpenInv'
  <2>1. /\ UNCHANGED <<files, git>>
        /\ \A x \in Op : op'[x] = op[x] \/ (op'[x].at \in {"idle", "orphan"} /\ ~op'[x].acquired)
    BY <1>0, <1>4, CrashDiscipline
  <2> QED
    BY <1>0, <2>1, OpenSurvives
<1>5. CASE \E c \in Committer : Commits(c)
  BY <1>0, <1>5, OpenGit
<1> QED
  BY <1>1, <1>2, <1>3, <1>4, <1>5 DEF Next, NoneOr

(* Of operations that do not overlap, each in a process of its own, none archives *)
(* or removes a project while a session that took its lock runs in it; nor does    *)
(* anything an agent stages, or commits, or a repository that is added meanwhile,   *)
(* or the commit of an operation that died.                                       *)
THEOREM OpenProjectIsKept == Serial /\ Spec => []OpenProjectStays
<1>1. OpenInv => OpenProjectStays
  <2> SUFFICES ASSUME OpenInv, NEW o \in Op, op[o].acquired, Is(o, "running")
               PROVE  head.manifest # None /\ ~head.manifest.archived
    BY DEF OpenProjectStays
  <2>1. op[o].kind = "open" /\ Holds(o)
    BY Typed DEF OpenInv, LockInv, GitInv, HookInv, Remembers, Holds, Is
  <2> QED
    BY <2>1 DEF OpenInv, OpenRule, Active
<1>2. Init => OpenInv
  <2> SUFFICES ASSUME Init PROVE OpenInv
    OBVIOUS
  <2>1. \A o \in Op : op[o].at = "idle" /\ ~op[o].acquired
    BY DEF Init, Idle
  <2>2. \A c \in Committer : git[c] = None
    BY DEF Init
  <2> QED
    BY <2>1, <2>2, LockInit, CommitInit DEF OpenInv, OpenRule, AdditionRule, PendingOpen, Holds, Is
<1>3. CASE ~Serial
  BY <1>3
<1>4. CASE Serial
  BY <1>1, <1>2, <1>4, OpenStep, PTL DEF Spec
<1> QED
  BY <1>3, <1>4
=============================================================================
