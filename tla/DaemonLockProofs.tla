-------------------------- MODULE DaemonLockProofs --------------------------
(***************************************************************************)
(* Proofs about DaemonLock, for any set of workers, foreign processes and  *)
(* stop requests, any assignment of pids and any failing liveness check.   *)
(***************************************************************************)
EXTENDS DaemonLock, TLAPS

(* ---------------- what holds whatever the order of calls ---------------- *)

\* A worker process exists exactly while it is between its spawn and its exit.
LiveInv == \A w \in Worker : w \in live <=> wpc[w] \in BootState \cup LoopState

\* Once a worker's name was on disk the worker has been past its write, so it
\* can never be spawned (again).
Past(x) == x # None => wpc[x] \in LoopState \cup {"exited"}

OwnerInv == Past(lock) /\ \A s \in Stopper : Past(target[s])

\* A stop request acts on a lock it read, and clears it or reports a stop only
\* once the worker that lock names is gone.
StopInv == \A s \in Stopper :
  /\ spc[s] \in ActiveStop \cup {"stopped"} => target[s] # None
  /\ spc[s] \in {"clear", "clearStale", "stopped"} => target[s] \notin live

IInv == TypeOK /\ LiveInv /\ OwnerInv /\ StopInv

\* The liveness check may fail to answer or call a dead worker alive, but it
\* never calls a live worker dead (resolveIsAlive).
LEMMA DeadIsDead ==
  ASSUME NEW w \in Worker, "dead" \in LivenessAnswers(w)
  PROVE  w \notin live
<1>1. SUFFICES ASSUME w \in live PROVE FALSE
  OBVIOUS
<1>2. w \in Process
  BY DEF Process
<1>3. processExists(PidOf[w])
  BY <1>1 DEF processExists, Holders
<1>4. \A c \in Captures(w) : c \in {"same", "unavailable"}
  BY <1>1 DEF Captures
<1>5. isAlive(w) \subseteq {TRUE}
  BY <1>3, <1>4 DEF isAlive, resolveIsAlive
<1>6. "dead" \notin LivenessAnswers(w)
  BY <1>5 DEF LivenessAnswers
<1> QED
  BY <1>6

\* The pid nobody has is not the pid of a live worker.
LEMMA GonePidIsDead ==
  ASSUME NEW w \in Worker, ~processExists(PidOf[w])
  PROVE  w \notin live
BY DEF processExists, Holders

USE DEF LaunchState, BootState, LoopState, ActiveStop

\* The initial states satisfy the invariant.
LEMMA InitIInv == Init => IInv
BY NoneAssumption DEF Init, IInv, TypeOK, LiveInv, OwnerInv, Past, StopInv, WorkerState, StopState

\* Every step preserves the types of the variables.
LEMMA StepTypeOK == TypeOK /\ [Next]_vars => TypeOK'
<1> SUFFICES ASSUME TypeOK, [Next]_vars PROVE TypeOK'
  OBVIOUS
<1> USE DEF TypeOK, Goto, StopGoto, WorkerState, StopState, ClearDaemonLock, Process
<1>1. ASSUME NEW w \in Worker, LauncherStep(w) \/ UserSignal(w) \/ Crash(w) PROVE TypeOK'
  <2>1. CASE Launch(w)
    BY <2>1 DEF Launch
  <2>2. CASE LauncherDecide(w)
    <3>1. PICK st \in {"spawning", "refused"} : Goto(w, st)
      BY <2>2 DEF LauncherDecide
    <3> QED
      BY <2>2, <3>1 DEF LauncherDecide
  <2>3. CASE Spawn(w)
    BY <2>3 DEF Spawn
  <2>4. CASE UserSignal(w)
    BY <2>4 DEF UserSignal
  <2>5. CASE Crash(w)
    BY <2>5 DEF Crash
  <2> QED
    BY <1>1, <2>1, <2>2, <2>3, <2>4, <2>5 DEF LauncherStep
<1>2. ASSUME NEW w \in Worker, WorkerStep(w) PROVE TypeOK'
  <2>1. CASE WorkerRead(w)
    BY <2>1 DEF WorkerRead
  <2>2. CASE WorkerDecide(w)
    BY <2>2 DEF WorkerDecide
  <2>3. CASE WriteLock(w)
    BY <2>3 DEF WriteLock
  <2>4. CASE LeaveLoop(w)
    BY <2>4 DEF LeaveLoop
  <2>5. CASE ClearOnExit(w)
    BY <2>5 DEF ClearOnExit
  <2>6. CASE Exit(w)
    BY <2>6 DEF Exit
  <2> QED
    BY <1>2, <2>1, <2>2, <2>3, <2>4, <2>5, <2>6 DEF WorkerStep
<1>3. ASSUME NEW p \in Foreign, ForeignStart(p) \/ ForeignExit(p) PROVE TypeOK'
  BY <1>3 DEF ForeignStart, ForeignExit
<1>4. ASSUME NEW s \in Stopper, StopStep(s) PROVE TypeOK'
  <2>1. CASE StopRead(s)
    BY <2>1 DEF StopRead
  <2>2. CASE StopCheck(s)
    <3>1. PICK a \in {"dead", "throws", "alive"} : StopGoto(s, AfterCheck(s, a))
      BY <2>2 DEF StopCheck, LivenessAnswers
    <3>2. AfterCheck(s, a) \in StopState
      BY DEF AfterCheck
    <3> QED
      BY <2>2, <3>1, <3>2 DEF StopCheck
  <2>3. CASE StopClearStale(s)
    BY <2>3 DEF StopClearStale
  <2>4. CASE SendTerm(s)
    BY <2>4 DEF SendTerm
  <2>5. CASE WaitOver(s)
    BY <2>5 DEF WaitOver
  <2>6. CASE SendKill(s)
    BY <2>6 DEF SendKill
  <2>7. CASE ConfirmDead(s)
    BY <2>7 DEF ConfirmDead
  <2>8. CASE StopClear(s)
    BY <2>8 DEF StopClear
  <2> QED
    BY <1>4, <2>1, <2>2, <2>3, <2>4, <2>5, <2>6, <2>7, <2>8 DEF StopStep
<1>5. CASE UNCHANGED vars
  BY <1>5 DEF vars
<1> QED
  BY <1>1, <1>2, <1>3, <1>4, <1>5 DEF Next

\* Every step preserves the rest of the unconditional invariant.  What the
\* actions can disturb: a spawn makes a process live (of a worker nobody has
\* named yet), a write puts a name on disk (of a worker that is past its
\* write), a stop request moves on only with evidence.
LEMMA StepIInv == IInv /\ [Next]_vars => IInv'
<1> SUFFICES ASSUME IInv, [Next]_vars PROVE IInv'
  OBVIOUS
<1> USE NoneAssumption, ForeignAssumption
<1>t. TypeOK /\ TypeOK'
  BY StepTypeOK DEF IInv
<1>i. LiveInv /\ OwnerInv /\ StopInv
  BY DEF IInv
<1> SUFFICES LiveInv' /\ OwnerInv' /\ StopInv'
  BY <1>t DEF IInv
<1> USE DEF TypeOK, LiveInv, OwnerInv, Past, StopInv, Goto, StopGoto
<1>1. ASSUME NEW w \in Worker, LauncherStep(w) PROVE LiveInv' /\ OwnerInv' /\ StopInv'
  <2>1. CASE Launch(w)
    BY <2>1, <1>t, <1>i DEF Launch
  <2>2. CASE LauncherDecide(w)
    <3>1. PICK st \in {"spawning", "refused"} : Goto(w, st)
      BY <2>2 DEF LauncherDecide
    <3> QED
      BY <2>2, <3>1, <1>t, <1>i DEF LauncherDecide
  <2>3. CASE Spawn(w)
    BY <2>3, <1>t, <1>i DEF Spawn
  <2> QED
    BY <1>1, <2>1, <2>2, <2>3 DEF LauncherStep
<1>2. ASSUME NEW w \in Worker, WorkerStep(w) PROVE LiveInv' /\ OwnerInv' /\ StopInv'
  <2>1. CASE WorkerRead(w)
    BY <2>1, <1>t, <1>i DEF WorkerRead
  <2>2. CASE WorkerDecide(w)
    BY <2>2, <1>t, <1>i DEF WorkerDecide
  <2>3. CASE WriteLock(w)
    BY <2>3, <1>t, <1>i DEF WriteLock
  <2>4. CASE LeaveLoop(w)
    BY <2>4, <1>t, <1>i DEF LeaveLoop
  <2>5. CASE ClearOnExit(w)
    BY <2>5, <1>t, <1>i DEF ClearOnExit, ClearDaemonLock
  <2>6. CASE Exit(w)
    BY <2>6, <1>t, <1>i DEF Exit
  <2> QED
    BY <1>2, <2>1, <2>2, <2>3, <2>4, <2>5, <2>6 DEF WorkerStep
<1>3. ASSUME NEW w \in Worker, UserSignal(w) \/ Crash(w) PROVE LiveInv' /\ OwnerInv' /\ StopInv'
  BY <1>3, <1>t, <1>i DEF UserSignal, Crash
<1>4. ASSUME NEW p \in Foreign, ForeignStart(p) \/ ForeignExit(p)
      PROVE  LiveInv' /\ OwnerInv' /\ StopInv'
  BY <1>4, <1>t, <1>i DEF ForeignStart, ForeignExit
<1>5. ASSUME NEW s \in Stopper, StopStep(s) PROVE LiveInv' /\ OwnerInv' /\ StopInv'
  <2>1. CASE StopRead(s)
    BY <2>1, <1>t, <1>i DEF StopRead
  <2>2. CASE StopCheck(s)
    <3>0. target[s] \in Worker
      BY <2>2, <1>t, <1>i DEF StopCheck
    <3>1. PICK a \in LivenessAnswers(target[s]) : StopGoto(s, AfterCheck(s, a))
      BY <2>2 DEF StopCheck
    <3>2. a \in {"dead", "throws", "alive"}
      BY DEF LivenessAnswers
    <3>3. AfterCheck(s, a) \in {"clearStale", "gaveUp", "killing", "terminating"}
      BY <3>2 DEF AfterCheck
    <3>4. AfterCheck(s, a) = "clearStale" => target[s] \notin live
      <4>1. a # "dead" => AfterCheck(s, a) # "clearStale"
        BY <3>2 DEF AfterCheck
      <4> QED
        BY <4>1, <3>0, DeadIsDead
    <3> QED
      BY <2>2, <3>1, <3>3, <3>4, <1>t, <1>i DEF StopCheck
  <2>3. CASE StopClearStale(s)
    BY <2>3, <1>t, <1>i DEF StopClearStale, ClearDaemonLock
  <2>4. CASE SendTerm(s)
    <3>0. target[s] \in Worker
      BY <2>4, <1>t, <1>i DEF SendTerm
    <3>1. processExists(TargetPid(s)) \/ target[s] \notin live
      BY <3>0, GonePidIsDead DEF TargetPid
    <3> QED
      BY <2>4, <3>1, <1>t, <1>i DEF SendTerm
  <2>5. CASE WaitOver(s)
    <3>0. target[s] \in Worker
      BY <2>5, <1>t, <1>i DEF WaitOver
    <3>1. processExists(TargetPid(s)) \/ target[s] \notin live
      BY <3>0, GonePidIsDead DEF TargetPid
    <3> QED
      BY <2>5, <3>1, <1>t, <1>i DEF WaitOver
  <2>6. CASE SendKill(s)
    BY <2>6, <1>t, <1>i DEF SendKill
  <2>7. CASE ConfirmDead(s)
    <3>0. target[s] \in Worker
      BY <2>7, <1>t, <1>i DEF ConfirmDead
    <3>1. processExists(TargetPid(s)) \/ target[s] \notin live
      BY <3>0, GonePidIsDead DEF TargetPid
    <3> QED
      BY <2>7, <3>1, <1>t, <1>i DEF ConfirmDead
  <2>8. CASE StopClear(s)
    BY <2>8, <1>t, <1>i DEF StopClear, ClearDaemonLock
  <2> QED
    BY <1>5, <2>1, <2>2, <2>3, <2>4, <2>5, <2>6, <2>7, <2>8 DEF StopStep
<1>6. CASE UNCHANGED vars
  BY <1>6, <1>t, <1>i DEF vars
<1> QED
  BY <1>1, <1>2, <1>3, <1>4, <1>5, <1>6 DEF Next

\* The unconditional invariant holds in every reachable state.
LEMMA AlwaysIInv == Spec => []IInv
<1>1. Init => IInv
  BY InitIInv
<1>2. IInv /\ [Next]_vars => IInv'
  BY StepIInv
<1> QED
  BY <1>1, <1>2, PTL DEF Spec

\* The variables keep their types: the lock always names a worker or nothing.
THEOREM TypeCorrect == Spec => []TypeOK
<1>1. IInv => TypeOK
  BY DEF IInv
<1> QED
  BY <1>1, AlwaysIInv, PTL

\* runDaemonStop never says "Stopped the daemon" of a worker that is alive, in
\* any interleaving of launches, stops, crashes and recycled pids.
THEOREM StopIsTruthful == Spec => []StopReportTruthful
<1>1. IInv => StopReportTruthful
  BY DEF IInv, StopInv, StopReportTruthful
<1> QED
  BY <1>1, AlwaysIInv, PTL

\* Who removes the lock, in any interleaving: a worker told to stop, on its way out, or
\* a stop whose own reading of the lock named a worker that has exited since.
ClearedAfterAnEnd ==
  [][lock # None /\ lock' = None =>
       \/ \E w \in Worker : wpc[w] = "clearing" /\ w \in sigterm
       \/ \E s \in Stopper : target[s] # None /\ wpc[target[s]] = "exited"]_vars

ToldToStop == \A w \in Worker : wpc[w] = "clearing" => w \in sigterm

LEMMA StepToldToStop == TypeOK /\ ToldToStop /\ [Next]_vars => ToldToStop'
<1> SUFFICES ASSUME TypeOK, ToldToStop, [Next]_vars PROVE ToldToStop'
  OBVIOUS
<1> USE DEF TypeOK, ToldToStop, Goto
<1>1. ASSUME NEW w \in Worker, LauncherStep(w) \/ WorkerStep(w) \/ UserSignal(w) \/ Crash(w)
      PROVE  ToldToStop'
  <2>1. sigterm \subseteq sigterm'
    BY <1>1 DEF LauncherStep, Launch, LauncherDecide, Spawn, WorkerStep, WorkerRead, WorkerDecide, WriteLock,
                LeaveLoop, ClearOnExit, Exit, UserSignal, Crash
  <2>2. CASE LeaveLoop(w)
    BY <2>2 DEF LeaveLoop
  <2>3. CASE ~LeaveLoop(w)
    <3>1. wpc' = wpc \/ \E st \in WorkerState \ {"clearing"} : wpc' = [wpc EXCEPT ![w] = st]
      BY <1>1, <2>3
      DEF LauncherStep, Launch, LauncherDecide, Spawn, WorkerStep, WorkerRead, WorkerDecide, WriteLock,
          ClearOnExit, Exit, UserSignal, Crash, WorkerState
    <3> QED
      BY <2>1, <3>1
  <2> QED
    BY <2>2, <2>3
<1>2. ASSUME NEW s \in Stopper, StopStep(s) PROVE ToldToStop'
  <2>1. sigterm \subseteq sigterm' /\ \A w \in Worker : wpc'[w] \in {wpc[w], "exited"}
    BY <1>2 DEF StopStep, StopRead, StopCheck, StopClearStale, SendTerm, WaitOver, SendKill, ConfirmDead,
                StopClear
  <2> QED
    BY <2>1
<1>3. ASSUME NEW p \in Foreign, ForeignStart(p) \/ ForeignExit(p) PROVE ToldToStop'
  BY <1>3 DEF ForeignStart, ForeignExit
<1>4. CASE UNCHANGED vars
  BY <1>4 DEF vars
<1> QED
  BY <1>1, <1>2, <1>3, <1>4 DEF Next

\* The most a race of launches and stops can cost the file is the name of a daemon that
\* took it in between: no step removes it without the end of some daemon for reason.
THEOREM ClearingFollowsAnEnd == Spec => ClearedAfterAnEnd
<1>1. ASSUME IInv, ToldToStop, [Next]_vars, lock # None, lock' = None
      PROVE  \/ \E w \in Worker : wpc[w] = "clearing" /\ w \in sigterm
             \/ \E s \in Stopper : target[s] # None /\ wpc[target[s]] = "exited"
  <2> USE NoneAssumption
  <2>1. ASSUME NEW w \in Worker, LauncherStep(w) \/ WorkerStep(w) \/ UserSignal(w) \/ Crash(w)
        PROVE  wpc[w] = "clearing"
    BY <1>1, <2>1 DEF LauncherStep, Launch, LauncherDecide, Spawn, WorkerStep, WorkerRead, WorkerDecide,
                      WriteLock, LeaveLoop, ClearOnExit, Exit, UserSignal, Crash
  <2>2. ASSUME NEW s \in Stopper, StopStep(s)
        PROVE  target[s] # None /\ wpc[target[s]] = "exited"
    <3>1. spc[s] \in {"clear", "clearStale"}
      BY <1>1, <2>2 DEF StopStep, StopRead, StopCheck, StopClearStale, SendTerm, WaitOver, SendKill,
                        ConfirmDead, StopClear
    <3>2. target[s] \in Worker /\ target[s] \notin live
      BY <1>1, <3>1 DEF IInv, StopInv, TypeOK
    <3> QED
      BY <1>1, <3>2 DEF IInv, LiveInv, OwnerInv, Past
  <2>3. ASSUME NEW p \in Foreign, ForeignStart(p) \/ ForeignExit(p) PROVE FALSE
    BY <1>1, <2>3 DEF ForeignStart, ForeignExit
  <2>4. CASE UNCHANGED vars
    BY <1>1, <2>4 DEF vars
  <2> QED
    BY <1>1, <2>1, <2>2, <2>3, <2>4 DEF Next, ToldToStop
<1>2. IInv /\ ToldToStop /\ [Next]_vars =>
        [lock # None /\ lock' = None =>
           \/ \E w \in Worker : wpc[w] = "clearing" /\ w \in sigterm
           \/ \E s \in Stopper : target[s] # None /\ wpc[target[s]] = "exited"]_vars
  BY <1>1
<1>3. Init => ToldToStop
  BY DEF Init, ToldToStop
<1>4. IInv => TypeOK
  BY DEF IInv
<1> QED
  BY <1>2, <1>3, <1>4, StepToldToStop, AlwaysIInv, PTL DEF Spec, ClearedAfterAnEnd

(* ---------------- starts and stops one at a time ---------------- *)

\* The environment the single instance rests on: no two launches in flight at
\* once, no stop request overlapping a launch.
Serial == SerialStarts /\ StopsAlone

Starting == {w \in Worker : wpc[w] \in LaunchState \cup BootState}

\* The environment's promise, as a state predicate.
OneAtATime ==
  /\ \A v, w \in Starting : v = w
  /\ Starting # {} => ~StopInFlight

\* A worker in the loop, until it clears, is the one the lock names.
HoldInv == \A w \in Worker : wpc[w] \in {"running", "clearing"} => lock = w

\* Between the read and the decision the lock can only have been cleared.
SeenInv == \A w \in Worker : wpc[w] = "checking" => lock \in {seen[w], None}

\* A worker about to write is alone.
WriteInv == \A v, w \in Worker : wpc[v] = "writing" => wpc[w] \notin {"running", "clearing"}

\* While a stop request is active the lock is the one it read, or gone.
TargetInv == \A s \in Stopper : spc[s] \in ActiveStop => lock \in {target[s], None}

SerialInv == OneAtATime /\ HoldInv /\ SeenInv /\ WriteInv /\ TargetInv

LEMMA InitSerialInv == Init => SerialInv
BY NoneAssumption
   DEF Init, SerialInv, OneAtATime, Starting, HoldInv, SeenInv, WriteInv, TargetInv

\* A worker only decides to write when nobody is in the loop: what it read was
\* absent or dead, and the lock has not been taken since.
LEMMA AcquireMeansAlone ==
  ASSUME IInv, SerialInv, NEW w \in Worker, wpc[w] = "checking",
         "acquire" \in LockDecisions(seen[w])
  PROVE  \A v \in Worker : wpc[v] \notin {"running", "clearing"}
<1> USE NoneAssumption
<1>1. SUFFICES ASSUME NEW v \in Worker, wpc[v] \in {"running", "clearing"} PROVE FALSE
  OBVIOUS
<1>2. lock = v /\ v \in live
  BY <1>1 DEF SerialInv, HoldInv, IInv, LiveInv
<1>3. seen[w] = v
  BY <1>2 DEF SerialInv, SeenInv
<1>4. PICK a \in LivenessAnswers(v) : decideLockAcquisition(v, a) = "acquire"
  BY <1>3 DEF LockDecisions
<1>5. a = "dead"
  BY <1>4 DEF decideLockAcquisition
<1> QED
  BY <1>2, <1>4, <1>5, DeadIsDead

LEMMA StepSerialInv ==
  ASSUME Serial, IInv, SerialInv, [Next]_vars
  PROVE  SerialInv'
<1> USE NoneAssumption, ForeignAssumption
<1>t. TypeOK /\ TypeOK' /\ LiveInv /\ OwnerInv /\ StopInv
  BY StepTypeOK DEF IInv
<1>i. OneAtATime /\ HoldInv /\ SeenInv /\ WriteInv /\ TargetInv
  BY DEF SerialInv
<1>s. SerialStarts /\ StopsAlone
  BY DEF Serial
<1> USE DEF TypeOK, OneAtATime, Starting, HoldInv, SeenInv, WriteInv, TargetInv,
            StopInFlight, StartInFlight, Goto, StopGoto
<1>1. ASSUME NEW w \in Worker, LauncherStep(w) PROVE SerialInv'
  <2>1. CASE Launch(w)
    BY <2>1, <1>t, <1>i, <1>s DEF Launch, MayLaunch, SerialInv
  <2>2. CASE LauncherDecide(w)
    <3>1. PICK st \in {"spawning", "refused"} : Goto(w, st)
      BY <2>2 DEF LauncherDecide
    <3> QED
      BY <2>2, <3>1, <1>t, <1>i DEF LauncherDecide, SerialInv
  <2>3. CASE Spawn(w)
    BY <2>3, <1>t, <1>i DEF Spawn, SerialInv
  <2> QED
    BY <1>1, <2>1, <2>2, <2>3 DEF LauncherStep
<1>2. ASSUME NEW w \in Worker, WorkerStep(w) PROVE SerialInv'
  <2>1. CASE WorkerRead(w)
    BY <2>1, <1>t, <1>i DEF WorkerRead, SerialInv
  <2>2. CASE WorkerDecide(w)
    <3>1. CASE wpc'[w] = "writing"
      <4>1. Goto(w, "writing") /\ "acquire" \in LockDecisions(seen[w])
        BY <2>2, <3>1, <1>t DEF WorkerDecide
      <4>2. \A v \in Worker : wpc[v] \notin {"running", "clearing"}
        BY <2>2, <4>1, AcquireMeansAlone DEF WorkerDecide
      <4> QED
        BY <2>2, <4>1, <4>2, <1>t, <1>i DEF WorkerDecide, SerialInv
    <3>2. CASE wpc'[w] # "writing"
      <4>1. Goto(w, "exited")
        BY <2>2, <3>2, <1>t DEF WorkerDecide
      <4> QED
        BY <2>2, <4>1, <1>t, <1>i DEF WorkerDecide, SerialInv
    <3> QED
      BY <3>1, <3>2
  <2>3. CASE WriteLock(w)
    BY <2>3, <1>t, <1>i DEF WriteLock, SerialInv
  <2>4. CASE LeaveLoop(w)
    BY <2>4, <1>t, <1>i DEF LeaveLoop, SerialInv
  <2>5. CASE ClearOnExit(w)
    BY <2>5, <1>t, <1>i DEF ClearOnExit, ClearDaemonLock, SerialInv
  <2>6. CASE Exit(w)
    BY <2>6, <1>t, <1>i DEF Exit, SerialInv
  <2> QED
    BY <1>2, <2>1, <2>2, <2>3, <2>4, <2>5, <2>6 DEF WorkerStep
<1>3. ASSUME NEW w \in Worker, UserSignal(w) \/ Crash(w) PROVE SerialInv'
  BY <1>3, <1>t, <1>i DEF UserSignal, Crash, SerialInv
<1>4. ASSUME NEW p \in Foreign, ForeignStart(p) \/ ForeignExit(p) PROVE SerialInv'
  BY <1>4, <1>t, <1>i DEF ForeignStart, ForeignExit, SerialInv
<1>5. ASSUME NEW s \in Stopper, StopStep(s) PROVE SerialInv'
  <2>1. CASE StopRead(s)
    BY <2>1, <1>t, <1>i, <1>s DEF StopRead, SerialInv
  <2>2. CASE StopClearStale(s)
    \* the lock it may clear names a dead worker, so nobody in the loop
    <3>1. lock \in {target[s], None} /\ target[s] \notin live
      BY <2>2, <1>t, <1>i DEF StopClearStale, StopInv
    <3>2. \A w \in Worker : wpc[w] \notin {"running", "clearing"} \/ lock' = lock
      BY <3>1, <1>t, <1>i DEF LiveInv
    <3> QED
      BY <2>2, <3>1, <3>2, <1>t, <1>i DEF StopClearStale, ClearDaemonLock, SerialInv
  <2>3. CASE StopClear(s)
    <3>1. lock \in {target[s], None} /\ target[s] \notin live
      BY <2>3, <1>t, <1>i DEF StopClear, StopInv
    <3>2. \A w \in Worker : wpc[w] \notin {"running", "clearing"} \/ lock' = lock
      BY <3>1, <1>t, <1>i DEF LiveInv
    <3> QED
      BY <2>3, <3>1, <3>2, <1>t, <1>i DEF StopClear, ClearDaemonLock, SerialInv
  <2>4. CASE StopCheck(s)
    BY <2>4, <1>t, <1>i DEF StopCheck, SerialInv
  <2>5. CASE SendTerm(s)
    BY <2>5, <1>t, <1>i DEF SendTerm, SerialInv
  <2>6. CASE WaitOver(s)
    BY <2>6, <1>t, <1>i DEF WaitOver, SerialInv
  <2>7. CASE SendKill(s)
    BY <2>7, <1>t, <1>i DEF SendKill, SerialInv
  <2>8. CASE ConfirmDead(s)
    BY <2>8, <1>t, <1>i DEF ConfirmDead, SerialInv
  <2> QED
    BY <1>5, <2>1, <2>2, <2>3, <2>4, <2>5, <2>6, <2>7, <2>8 DEF StopStep
<1>6. CASE UNCHANGED vars
  BY <1>6, <1>t, <1>i DEF vars, SerialInv
<1> QED
  BY <1>1, <1>2, <1>3, <1>4, <1>5, <1>6 DEF Next

LEMMA AlwaysSerialInv == ASSUME Serial PROVE Spec => [](IInv /\ SerialInv)
<1>1. Init => IInv /\ SerialInv
  BY InitIInv, InitSerialInv
<1>2. (IInv /\ SerialInv) /\ [Next]_vars => (IInv /\ SerialInv)'
  BY StepIInv, StepSerialInv
<1> QED
  BY <1>1, <1>2, PTL DEF Spec

\* D-005: with launches and stops one at a time, two workers never poll at
\* once, whatever crashes, pids recycled or liveness checks that fail.
THEOREM SingleInstanceHolds == ASSUME Serial PROVE Spec => []SingleInstance
<1>1. IInv /\ SerialInv => SingleInstance
  BY DEF SerialInv, HoldInv, SingleInstance, Running
<1> QED
  BY <1>1, AlwaysSerialInv, PTL

\* Under the same environment a daemon that polls is always the one
\* daemon.lock names, so a stop or a launch always finds it.
THEOREM RunningIsNamed == ASSUME Serial PROVE Spec => []RunningHoldsLock
<1>1. IInv /\ SerialInv => RunningHoldsLock
  BY DEF SerialInv, HoldInv, RunningHoldsLock, Running
<1> QED
  BY <1>1, AlwaysSerialInv, PTL

\* No step removes the lock of a live daemon, except its own exit path.
LEMMA ClearStep ==
  ASSUME IInv, SerialInv, [Next]_vars, lock # None, lock' = None
  PROVE  wpc[lock] = "clearing" \/ lock \notin live
<1> USE NoneAssumption, ForeignAssumption
<1>t. TypeOK /\ LiveInv /\ StopInv /\ HoldInv /\ TargetInv
  BY DEF IInv, SerialInv
<1>1. lock \in Worker
  BY <1>t DEF TypeOK
<1>2. ASSUME NEW w \in Worker, LauncherStep(w) \/ UserSignal(w) \/ Crash(w) PROVE FALSE
  BY <1>2 DEF LauncherStep, Launch, LauncherDecide, Spawn, UserSignal, Crash
<1>3. ASSUME NEW w \in Worker, WorkerStep(w) PROVE wpc[lock] = "clearing"
  <2>1. ClearOnExit(w)
    BY <1>3 DEF WorkerStep, WorkerRead, WorkerDecide, WriteLock, LeaveLoop, Exit
  <2> QED
    BY <2>1, <1>t DEF ClearOnExit, HoldInv
<1>4. ASSUME NEW p \in Foreign, ForeignStart(p) \/ ForeignExit(p) PROVE FALSE
  BY <1>4 DEF ForeignStart, ForeignExit
<1>5. ASSUME NEW s \in Stopper, StopStep(s) PROVE lock \notin live
  <2>1. StopClear(s) \/ StopClearStale(s)
    BY <1>5 DEF StopStep, StopRead, StopCheck, SendTerm, WaitOver, SendKill, ConfirmDead
  <2> QED
    BY <2>1, <1>t DEF StopClear, StopClearStale, TargetInv, StopInv
<1>6. CASE UNCHANGED vars
  BY <1>6 DEF vars
<1> QED
  BY <1>2, <1>3, <1>4, <1>5, <1>6 DEF Next

\* daemon-control.ts: the lock is cleared only on positive evidence of death
\* (or by its own worker), as long as starts and stops do not overlap.
THEOREM ClearedOnlyOnEvidence == ASSUME Serial PROVE Spec => ClearedOnlyByOwnerOrDead
<1>1. (IInv /\ SerialInv) /\ [Next]_vars
      => [lock # None /\ lock' = None => wpc[lock] = "clearing" \/ lock \notin live]_vars
  BY ClearStep
<1> QED
  BY <1>1, AlwaysSerialInv, PTL DEF Spec, ClearedOnlyByOwnerOrDead

(* ---------------- refinement of SingleDaemon ---------------- *)

\* With a single running worker the mapped daemon is that worker.
LEMMA DaemonIs ==
  ASSUME SingleInstance, NEW w \in Running
  PROVE  daemon = w
BY DEF SingleInstance, daemon

\* Every step changes the set of running workers as the abstract daemon does.
LEMMA RunningStep ==
  ASSUME IInv, SerialInv, [Next]_vars
  PROVE  \/ Running' = Running
         \/ Running' = {}
         \/ Running = {} /\ \E w \in Worker : Running' = {w}
<1> USE DEF Running, Goto, StopGoto, TypeOK
<1>t. TypeOK /\ HoldInv /\ WriteInv
  BY DEF IInv, SerialInv
<1>1. ASSUME NEW w \in Worker, wpc[w] # "running", wpc' = [wpc EXCEPT ![w] = "running"],
             wpc[w] = "writing"
      PROVE  Running = {} /\ Running' = {w}
  BY <1>1, <1>t DEF WriteInv
<1>2. ASSUME \A v \in Worker : wpc'[v] = "running" => wpc[v] = "running"
      PROVE  Running' = Running \/ Running' = {}
  BY <1>2, <1>t DEF HoldInv
<1>3. ASSUME NEW w \in Worker, LauncherStep(w) \/ UserSignal(w) \/ Crash(w)
      PROVE  \A v \in Worker : wpc'[v] = "running" => wpc[v] = "running"
  BY <1>3, <1>t DEF LauncherStep, Launch, LauncherDecide, Spawn, UserSignal, Crash
<1>4. ASSUME NEW w \in Worker, WorkerStep(w), ~WriteLock(w)
      PROVE  \A v \in Worker : wpc'[v] = "running" => wpc[v] = "running"
  BY <1>4, <1>t DEF WorkerStep, WorkerRead, WorkerDecide, LeaveLoop, ClearOnExit, Exit
<1>5. ASSUME NEW w \in Worker, WriteLock(w)
      PROVE  Running = {} /\ Running' = {w}
  BY <1>1, <1>5 DEF WriteLock
<1>6. ASSUME NEW p \in Foreign, ForeignStart(p) \/ ForeignExit(p)
      PROVE  Running' = Running
  BY <1>6 DEF ForeignStart, ForeignExit
<1>7. ASSUME NEW s \in Stopper, StopStep(s)
      PROVE  \A v \in Worker : wpc'[v] = "running" => wpc[v] = "running"
  <2>1. CASE SendKill(s)
    BY <2>1, <1>t DEF SendKill
  <2>2. CASE ~SendKill(s)
    BY <1>7, <2>2 DEF StopStep, StopRead, StopCheck, StopClearStale, SendTerm, WaitOver,
                      ConfirmDead, StopClear
  <2> QED
    BY <2>1, <2>2
<1>8. CASE UNCHANGED vars
  BY <1>8 DEF vars
<1> QED
  BY <1>2, <1>3, <1>4, <1>5, <1>6, <1>7, <1>8 DEF Next

\* The lock protocol implements SingleDaemon: taking and clearing daemon.lock
\* around the loop gives one daemon at a time.
THEOREM Implementation == ASSUME Serial PROVE Spec => ImplementsSingleDaemon
<1> USE NoneAssumption
<1>1. Init => Abstract!Init
  BY DEF Init, Abstract!Init, daemon, Running
<1>2. (IInv /\ SerialInv) /\ (IInv /\ SerialInv)' /\ [Next]_vars => [Abstract!Next]_daemon
  <2> SUFFICES ASSUME IInv, SerialInv, IInv', SerialInv', [Next]_vars
               PROVE  [Abstract!Next]_daemon
    OBVIOUS
  <2>1. SingleInstance /\ SingleInstance'
    BY DEF SerialInv, HoldInv, SingleInstance, Running
  <2>2. CASE Running' = Running
    BY <2>2 DEF daemon
  <2>3. CASE Running' = {} /\ Running # {}
    <3>1. daemon' = None
      BY <2>3 DEF daemon
    <3>2. PICK w \in Running : TRUE
      BY <2>3
    <3>3. daemon = w /\ w # None
      BY <3>2, <2>1, DaemonIs DEF Running
    <3> QED
      BY <3>1, <3>3 DEF Abstract!Next, Abstract!Leave
  <2>4. CASE Running = {} /\ \E w \in Worker : Running' = {w}
    <3>1. PICK w \in Worker : Running' = {w}
      BY <2>4
    <3>2. daemon = None
      BY <2>4 DEF daemon
    <3>3. daemon' = w
      BY <3>1 DEF daemon
    <3> QED
      BY <3>2, <3>3 DEF Abstract!Next, Abstract!Take
  <2> QED
    BY <2>2, <2>3, <2>4, RunningStep
<1> QED
  BY <1>1, <1>2, AlwaysSerialInv, PTL DEF Spec, Abstract!Spec, ImplementsSingleDaemon

(* ------------------------- who turns a launch away ---------------------- *)

\* A procStart that is recorded and can be read tells a live worker from
\* another process under its pid.
LEMMA AliveIsAlive ==
  ASSUME CaptureWorks, NEW w \in Recorded, "refuse" \in LockDecisions(w)
  PROVE  w \in live
<1>1. w \in Worker /\ w # None
  BY RecordedAssumption, NoneAssumption
<1>2. PICK a \in LivenessAnswers(w) : decideLockAcquisition(w, a) = "refuse"
  BY <1>1 DEF LockDecisions
<1>3. a = "alive"
  BY <1>2 DEF decideLockAcquisition, LivenessAnswers
<1>4. TRUE \in isAlive(w)
  BY <1>2, <1>3 DEF LivenessAnswers
<1>5. "same" \in Captures(w)
  BY <1>4 DEF isAlive, resolveIsAlive, Captures
<1> QED
  BY <1>5 DEF Captures

\* Whatever launches, stops and crashes overlap: no pid that was given away
\* turns a launch away, where procStart can be read.
THEOREM OnlyTheLiveRefuse == ASSUME CaptureWorks PROVE Spec => RefusedOnlyByLive
<1>1. ASSUME IInv, [Next]_vars, NEW w \in Worker, seen[w] \in Recorded,
             wpc[w] # "refused", wpc'[w] = "refused"
      PROVE  seen[w] \in live
  <2>1. wpc \in [Worker -> WorkerState]
    BY <1>1 DEF IInv, TypeOK
  <2>2. LauncherDecide(w)
    <3>1. \A v \in Worker : LauncherDecide(v) => v = w
      BY <1>1, <2>1 DEF LauncherDecide, Goto
    <3>2. ASSUME ~\E v \in Worker : LauncherDecide(v) PROVE FALSE
      BY <1>1, <2>1, <3>2
      DEF Next, LauncherStep, WorkerStep, StopStep, Launch, Spawn, WorkerRead, WorkerDecide,
          WriteLock, LeaveLoop, ClearOnExit, Exit, UserSignal, Crash, ForeignStart, ForeignExit,
          StopRead, StopCheck, StopClearStale, SendTerm, WaitOver, SendKill, ConfirmDead,
          StopClear, Goto, vars
    <3> QED
      BY <3>1, <3>2
  <2>3. "refuse" \in LockDecisions(seen[w])
    <3>1. PICK d \in LockDecisions(seen[w]) :
            wpc' = [wpc EXCEPT ![w] = IF d = "acquire" THEN "spawning" ELSE "refused"]
      BY <2>2 DEF LauncherDecide, Goto
    <3>2. d # "acquire"
      BY <1>1, <2>1, <3>1
    <3>3. d \in {"acquire", "refuse"}
      BY <3>1 DEF LockDecisions, decideLockAcquisition
    <3> QED
      BY <3>1, <3>2, <3>3
  <2> QED
    BY <1>1, <2>3, AliveIsAlive
<1>2. IInv /\ [Next]_vars =>
        [\A w \in Worker :
           /\ seen[w] \in Recorded
           /\ wpc[w] # "refused" /\ wpc'[w] = "refused"
           => seen[w] \in live]_vars
  BY <1>1
<1> QED
  BY <1>2, AlwaysIInv, PTL DEF Spec, RefusedOnlyByLive
=============================================================================
