----------------------------- MODULE DaemonLock -----------------------------
(***************************************************************************)
(* The life of ~/.seeya/daemon.lock (decision D-005): launchers that check *)
(* it before they spawn a worker, workers that check it again, write it,   *)
(* poll and clear it on their way out, and `seeya daemon --stop` requests  *)
(* that read it, end the process it names and clear it.  Every read, every *)
(* liveness answer and every write is a step of its own, as in the code,   *)
(* where an await separates them: the lock has no compare-and-swap.        *)
(*                                                                         *)
(* A worker stands for one process incarnation: its identity is the pair   *)
(* (pid, procStart), so a lock that names worker w holds PidOf[w] and, when *)
(* w \in Recorded, the procStart of w.  A foreign process is anything else *)
(* the operating system may give a recycled pid to.                        *)
(***************************************************************************)
EXTENDS Naturals, FiniteSets

CONSTANTS
  Worker,        \* daemon worker processes (one launch each)
  Foreign,       \* unrelated processes
  Stopper,       \* stop requests, from the CLI or the application's button
  PidOf,         \* the pid each process incarnation gets
  Recorded,      \* the workers whose own procStart could be captured
  None,          \* no lock on disk / nothing read yet
  CaptureWorks,  \* environment: a live pid's procStart can always be read
  Forced,        \* the requests made where no graceful termination exists: Windows
  SerialStarts,  \* environment: a launch begins only when no other is in flight
  StopsAlone     \* environment: stops and launches never overlap

Process == Worker \cup Foreign
Pid     == {PidOf[p] : p \in Process}

ASSUME NoneAssumption == None \notin Worker
ASSUME ForeignAssumption == Worker \cap Foreign = {}
ASSUME RecordedAssumption == Recorded \subseteq Worker
ASSUME ForcedAssumption == Forced \subseteq Stopper
ASSUME FlagAssumption == {CaptureWorks, SerialStarts, StopsAlone} \subseteq BOOLEAN

VARIABLES
  lock,     \* the worker daemon.lock names, or None when the file is absent
  live,     \* the processes that exist
  wpc,      \* where each worker, or the launcher that precedes it, is
  seen,     \* the lock it has read and not yet decided on
  sigterm,  \* workers whose signal handler has set stopRequested
  spc,      \* where each stop request is
  target    \* the lock each stop request has read

vars == <<lock, live, wpc, seen, sigterm, spc, target>>

LaunchState == {"launchCheck", "spawning"}                  \* the launcher's process
BootState   == {"starting", "checking", "writing"}          \* the worker, before the loop
LoopState   == {"running", "clearing", "leaving"}           \* the worker, from its lock on
WorkerState == {"none", "refused", "exited"} \cup LaunchState \cup BootState \cup LoopState

ActiveStop == {"checking", "clearStale", "terminating", "waiting", "killing", "confirming", "clear"}
StopState  == {"idle", "noDaemon", "gaveUp", "stopped"} \cup ActiveStop

TypeOK ==
  /\ lock \in Worker \cup {None}
  /\ live \subseteq Process
  /\ wpc \in [Worker -> WorkerState]
  /\ seen \in [Worker -> Worker \cup {None}]
  /\ sigterm \subseteq Worker
  /\ spc \in [Stopper -> StopState]
  /\ target \in [Stopper -> Worker \cup {None}]

Init ==
  /\ lock = None
  /\ live = {}
  /\ wpc = [w \in Worker |-> "none"]
  /\ seen = [w \in Worker |-> None]
  /\ sigterm = {}
  /\ spc = [s \in Stopper |-> "idle"]
  /\ target = [s \in Stopper |-> None]

-----------------------------------------------------------------------------
(* Liveness of a pid, as ProcessControl.isAlive answers it. *)

Holders(pid) == {p \in live : PidOf[p] = pid}

processExists(pid) == Holders(pid) # {}

\* What reading the operating system's procStart of w's pid may give:
\* the value of w itself, the one of another process, or nothing.
Captures(w) == {IF w \in live THEN "same" ELSE "other"}
               \cup (IF CaptureWorks THEN {} ELSE {"unavailable"})

\* Mutant: a procStart that cannot be read counts as another process.
resolveIsAlive_UnreadIsDead(pidExists, recorded, capture) ==
  pidExists /\ (recorded => capture = "same")

resolveIsAlive(pidExists, recorded, capture) ==
  pidExists /\ (recorded => capture \in {"same", "unavailable"})

\* Mutant: plain pid liveness, no procStart tie-break.
isAlive_PidOnly(w) == {processExists(PidOf[w])}

isAlive(w) ==
  {resolveIsAlive(processExists(PidOf[w]), w \in Recorded, c) : c \in Captures(w)}

\* The liveness check may also throw, when the OS answers with an error the
\* adapter does not recognise.
LivenessAnswers(w) ==
  {IF a THEN "alive" ELSE "dead" : a \in isAlive(w)}
  \cup (IF CaptureWorks THEN {} ELSE {"throws"})

\* Mutant: no evidence of life is taken for death.
decideLockAcquisition_UnlessAlive(existing, answer) ==
  IF existing = None \/ answer # "alive" THEN "acquire" ELSE "refuse"

decideLockAcquisition(existing, answer) ==
  IF existing = None \/ answer = "dead" THEN "acquire" ELSE "refuse"

\* checkDaemonLock once the file is read: an absent lock asks nobody.
LockDecisions(existing) ==
  IF existing = None THEN {"acquire"}
  ELSE {decideLockAcquisition(existing, a) : a \in LivenessAnswers(existing)}

-----------------------------------------------------------------------------
(* The launcher (`seeya daemon`, the application's Start button) and the
   worker it spawns. *)

StartInFlight == \E w \in Worker : wpc[w] \in LaunchState \cup BootState
StopInFlight  == \E s \in Stopper : spc[s] \in ActiveStop

MayLaunch == /\ SerialStarts => ~StartInFlight
             /\ StopsAlone => ~StopInFlight

Goto(w, state) == wpc' = [wpc EXCEPT ![w] = state]

\* runDaemonLauncher / startDaemonAndWait: read the lock ...
Launch(w) ==
  /\ wpc[w] = "none"
  /\ MayLaunch
  /\ seen' = [seen EXCEPT ![w] = lock]
  /\ Goto(w, "launchCheck")
  /\ UNCHANGED <<lock, live, sigterm, spc, target>>

\* ... and refuse, or go on to spawn.  A check that throws starts nothing.
LauncherDecide(w) ==
  /\ wpc[w] = "launchCheck"
  /\ \E d \in LockDecisions(seen[w]) : Goto(w, IF d = "acquire" THEN "spawning" ELSE "refused")
  /\ UNCHANGED <<lock, live, seen, sigterm, spc, target>>

\* spawnDetachedDaemon: the system gives the child a pid no live process has.
Spawn(w) ==
  /\ wpc[w] = "spawning"
  /\ ~processExists(PidOf[w])
  /\ live' = live \cup {w}
  /\ Goto(w, "starting")
  /\ UNCHANGED <<lock, seen, sigterm, spc, target>>

\* acquireDaemonLock, the authoritative check: read ...
WorkerRead(w) ==
  /\ wpc[w] = "starting"
  /\ seen' = [seen EXCEPT ![w] = lock]
  /\ Goto(w, "checking")
  /\ UNCHANGED <<lock, live, sigterm, spc, target>>

\* ... decide ...
WorkerDecide(w) ==
  /\ wpc[w] = "checking"
  /\ \E d \in LockDecisions(seen[w]) :
       IF d = "acquire"
       THEN Goto(w, "writing") /\ UNCHANGED live
       ELSE Goto(w, "exited") /\ live' = live \ {w}
  /\ UNCHANGED <<lock, seen, sigterm, spc, target>>

\* ... and write: an atomic rename, over whatever is there by now.
WriteLock(w) ==
  /\ wpc[w] = "writing"
  /\ lock' = w
  /\ Goto(w, "running")
  /\ UNCHANGED <<live, seen, sigterm, spc, target>>

\* Mutant: the loop only honours a stop while the lock is still its own.
LeaveLoop_IfLockMine(w) ==
  /\ wpc[w] = "running"
  /\ w \in sigterm
  /\ lock = w
  /\ Goto(w, "clearing")
  /\ UNCHANGED <<lock, live, seen, sigterm, spc, target>>

\* The loop sees shouldStop between polls, within a second of the signal.
LeaveLoop(w) ==
  /\ wpc[w] = "running"
  /\ w \in sigterm
  /\ Goto(w, "clearing")
  /\ UNCHANGED <<lock, live, seen, sigterm, spc, target>>

\* unlink: best effort, and whoever's lock the file holds.
ClearDaemonLock == lock' \in {None, lock}

ClearOnExit(w) ==
  /\ wpc[w] = "clearing"
  /\ ClearDaemonLock
  /\ Goto(w, "leaving")
  /\ UNCHANGED <<live, seen, sigterm, spc, target>>

Exit(w) ==
  /\ wpc[w] = "leaving"
  /\ live' = live \ {w}
  /\ Goto(w, "exited")
  /\ UNCHANGED <<lock, seen, sigterm, spc, target>>

\* SIGINT or SIGTERM from anyone else (Ctrl+C, a bare kill).
UserSignal(w) ==
  /\ w \in live
  /\ sigterm' = sigterm \cup {w}
  /\ UNCHANGED <<lock, live, wpc, seen, spc, target>>

\* The worker dies without running any of its own code.
Crash(w) ==
  /\ w \in live
  /\ live' = live \ {w}
  /\ Goto(w, "exited")
  /\ UNCHANGED <<lock, seen, sigterm, spc, target>>

-----------------------------------------------------------------------------
(* Unrelated processes, which may be given a dead worker's pid. *)

ForeignStart(p) ==
  /\ ~processExists(PidOf[p])
  /\ live' = live \cup {p}
  /\ UNCHANGED <<lock, wpc, seen, sigterm, spc, target>>

ForeignExit(p) ==
  /\ p \in live
  /\ live' = live \ {p}
  /\ UNCHANGED <<lock, wpc, seen, sigterm, spc, target>>

-----------------------------------------------------------------------------
(* runDaemonStop. *)

StopGoto(s, state) == spc' = [spc EXCEPT ![s] = state]

TargetPid(s) == PidOf[target[s]]

\* Mutant: the request keeps the pid of the lock it read, not the lock.
StopRead_PidOnly(s) ==
  /\ spc[s] = "idle"
  /\ StopsAlone => ~StartInFlight
  /\ target' = [target EXCEPT ![s] = IF lock = None THEN None ELSE PidOf[lock]]
  /\ StopGoto(s, IF lock = None THEN "noDaemon" ELSE "checking")
  /\ UNCHANGED <<lock, live, wpc, seen, sigterm>>

\* checkLiveLock, first half.
StopRead(s) ==
  /\ spc[s] = "idle"
  /\ StopsAlone => ~StartInFlight
  /\ target' = [target EXCEPT ![s] = lock]
  /\ StopGoto(s, IF lock = None THEN "noDaemon" ELSE "checking")
  /\ UNCHANGED <<lock, live, wpc, seen, sigterm>>

\* Mutant: a liveness check that threw counts as a dead daemon.
AfterCheck_UnknownIsDead(s, answer) ==
  IF answer \in {"dead", "throws"} THEN "clearStale"
  ELSE IF s \in Forced THEN "killing" ELSE "terminating"

\* checkLiveLock, second half: dead, alive, or unknown (the check threw).
AfterCheck(s, answer) ==
  CASE answer = "dead"   -> "clearStale"
    [] answer = "throws" -> "gaveUp"
    [] answer = "alive"  -> IF s \in Forced THEN "killing" ELSE "terminating"

StopCheck(s) ==
  /\ spc[s] = "checking"
  /\ \E a \in LivenessAnswers(target[s]) : StopGoto(s, AfterCheck(s, a))
  /\ UNCHANGED <<lock, live, wpc, seen, sigterm, target>>

StopClearStale(s) ==
  /\ spc[s] = "clearStale"
  /\ ClearDaemonLock
  /\ StopGoto(s, "noDaemon")
  /\ UNCHANGED <<live, wpc, seen, sigterm, target>>

\* SIGTERM to whoever has the pid: gone (ESRCH), refused by a process of
\* somebody else (EPERM), an error nobody recognises, or delivered.
SendTerm(s) ==
  /\ spc[s] = "terminating"
  /\ \/ /\ ~processExists(TargetPid(s))
        /\ StopGoto(s, "clear")
        /\ UNCHANGED sigterm
     \/ /\ Holders(TargetPid(s)) \cap Foreign # {}
        /\ StopGoto(s, "killing")
        /\ UNCHANGED sigterm
     \/ /\ StopGoto(s, "gaveUp")
        /\ UNCHANGED sigterm
     \/ /\ processExists(TargetPid(s))
        /\ sigterm' = sigterm \cup (Holders(TargetPid(s)) \cap Worker)
        /\ StopGoto(s, "waiting")
  /\ UNCHANGED <<lock, live, wpc, seen, target>>

\* Mutant: the wait has no deadline.
WaitOver_Forever(s) ==
  /\ spc[s] = "waiting"
  /\ ~processExists(TargetPid(s))
  /\ StopGoto(s, "clear")
  /\ UNCHANGED <<lock, live, wpc, seen, sigterm, target>>

\* Mutant: after fifteen seconds the worker is taken for gone.
WaitOver_Assumed(s) ==
  /\ spc[s] = "waiting"
  /\ StopGoto(s, "clear")
  /\ UNCHANGED <<lock, live, wpc, seen, sigterm, target>>

\* Fifteen seconds, or the pid is gone: existence only, procStart not asked.
WaitOver(s) ==
  /\ spc[s] = "waiting"
  /\ StopGoto(s, IF processExists(TargetPid(s)) THEN "killing" ELSE "clear")
  /\ UNCHANGED <<lock, live, wpc, seen, sigterm, target>>

\* SIGKILL to whoever has the pid.  The victim may take a while to go.
SendKill(s) ==
  LET victims == Holders(TargetPid(s)) IN
  /\ spc[s] = "killing"
  /\ \/ /\ victims \cap Foreign # {}
        /\ StopGoto(s, "gaveUp")
        /\ UNCHANGED <<live, wpc>>
     \/ /\ StopGoto(s, "confirming")
        /\ UNCHANGED <<live, wpc>>
     \/ /\ StopGoto(s, "confirming")
        /\ live' = live \ victims
        /\ wpc' = [w \in Worker |-> IF w \in victims THEN "exited" ELSE wpc[w]]
  /\ UNCHANGED <<lock, seen, sigterm, target>>

\* Mutant: "the kill was sent" is taken for death.
ConfirmDead_Assumed(s) ==
  /\ spc[s] = "confirming"
  /\ StopGoto(s, "clear")
  /\ UNCHANGED <<lock, live, wpc, seen, sigterm, target>>

\* waitUntilDead and the last isAlive(pid), which may throw as well.
ConfirmDead(s) ==
  /\ spc[s] = "confirming"
  /\ \/ StopGoto(s, "gaveUp")
     \/ ~processExists(TargetPid(s)) /\ StopGoto(s, "clear")
  /\ UNCHANGED <<lock, live, wpc, seen, sigterm, target>>

StopClear(s) ==
  /\ spc[s] = "clear"
  /\ ClearDaemonLock
  /\ StopGoto(s, "stopped")
  /\ UNCHANGED <<live, wpc, seen, sigterm, target>>

-----------------------------------------------------------------------------
LauncherStep(w) == Launch(w) \/ LauncherDecide(w) \/ Spawn(w)

WorkerStep(w) == \/ WorkerRead(w) \/ WorkerDecide(w) \/ WriteLock(w)
                 \/ LeaveLoop(w) \/ ClearOnExit(w) \/ Exit(w)

StopStep(s) == \/ StopRead(s) \/ StopCheck(s) \/ StopClearStale(s) \/ SendTerm(s)
               \/ WaitOver(s) \/ SendKill(s) \/ ConfirmDead(s) \/ StopClear(s)

Next ==
  \/ \E w \in Worker : LauncherStep(w) \/ WorkerStep(w) \/ UserSignal(w) \/ Crash(w)
  \/ \E p \in Foreign : ForeignStart(p) \/ ForeignExit(p)
  \/ \E s \in Stopper : StopStep(s)

Spec == Init /\ [][Next]_vars

\* A worker that is scheduled keeps executing, and so does a stop request:
\* its two waits are bounded by deadlines.  Launches, signals, crashes and
\* foreign processes owe nothing.
Fairness ==
  /\ \A w \in Worker : WF_vars(WorkerStep(w))
  /\ \A s \in Stopper : WF_vars(spc[s] # "idle" /\ StopStep(s))

FairSpec == Spec /\ Fairness

-----------------------------------------------------------------------------
(* Properties. *)

Running == {w \in Worker : wpc[w] = "running"}

\* D-005, "instancia unica obrigatoria": two workers never poll at once.
SingleInstance == \A v, w \in Running : v = w

\* A worker that polls is the one daemon.lock names.  Without it the next
\* launch, `--status` and `--stop` all believe there is no daemon
\* (finishAbruptStop clears "exactly when there is positive evidence").
RunningHoldsLock == \A w \in Running : lock = w

\* "Stopped the daemon (pid ...)" is only ever said of a worker that is dead,
\* whatever the pid was given to in the meantime.
StopReportTruthful == \A s \in Stopper : spc[s] = "stopped" => target[s] \notin live

\* The lock leaves the disk only by its own worker's exit path or after that
\* worker died: nobody clears the lock of a live daemon.
ClearedOnlyByOwnerOrDead ==
  [][lock # None /\ lock' = None => wpc[lock] = "clearing" \/ lock \notin live]_vars

\* Where procStart is recorded and readable, a launch is only turned away by a
\* daemon that is alive, never by its old pid on another process: the failure
\* daemon-lock.ts calls silent (nothing runs and everybody believes it does).
RefusedOnlyByLive ==
  [][\A w \in Worker :
       /\ seen[w] \in Recorded
       /\ wpc[w] # "refused" /\ wpc'[w] = "refused"
       => seen[w] \in live]_vars

\* A stop request always comes to an answer.
StopAnswers == \A s \in Stopper : spc[s] \in ActiveStop ~> spc[s] \notin ActiveStop

\* A worker that was asked to stop while it polls does exit.
SignalEndsWorker == \A w \in Worker : (w \in sigterm /\ wpc[w] = "running") ~> wpc[w] = "exited"

\* The daemon the outside world sees, for the abstract specification.
daemon == IF Running = {} THEN None ELSE CHOOSE w \in Running : TRUE

Abstract == INSTANCE SingleDaemon

\* Starts and stops one at a time, with crashes, recycled pids and failing
\* liveness checks: the lock protocol implements the single instance.
ImplementsSingleDaemon == Abstract!Spec
=============================================================================
