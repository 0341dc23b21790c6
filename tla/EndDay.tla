------------------------------- MODULE EndDay -------------------------------
(***************************************************************************)
(* The closing of a day (application/end-day.ts, capture-session.ts): a     *)
(* pool of workers takes the sessions one after the other through evidence, *)
(* eligibility, generation, handoff and termination; then the briefing, and *)
(* the cleanup of the forks seeya made (forks.json, adapters/generation/    *)
(* fork-registration.ts, adapters/discovery/fork-cleanup.ts).              *)
(* The daemon, the command line and the application each may run one, and   *)
(* no lock keeps them apart.  One day: its folder is the one all runs use.  *)
(***************************************************************************)
EXTENDS Integers, FiniteSets

CONSTANTS
  Session,         \* sessions with a record in Claude's registry
  Runner,          \* processes that may run a closing
  Limit,           \* captureConcurrency
  Deep,            \* sessions of projects with deepCapture
  CanTerminate,    \* sessions of projects with canTerminate
  forkCleanupDays,
  Today,           \* environment: the day, which Clock.now() answers all along
  OldForks,        \* forks.json at the start: the forks of earlier days
  MaxChanges,      \* bound: changes of the sessions' evidence and processes
  MaxRuns,         \* bound: closings started
  MaxCrashes,      \* bound: closings that die half way
  None

NoneOr(S) == S \cup {None}
Entry == [id : Int, createdAt : NoneOr(Nat)] \* new forks count from 1, OldForks end at 0

ASSUME LimitAssumption == Limit \in Nat \ {0}
ASSUME PolicyAssumption == Deep \subseteq Session /\ CanTerminate \subseteq Session
ASSUME DaysAssumption == forkCleanupDays \in Nat \ {0} /\ Today \in Nat
ASSUME OldForksAssumption == OldForks \subseteq Entry /\ \A e \in OldForks : e.id < 1
ASSUME BoundAssumption == {MaxChanges, MaxRuns, MaxCrashes} \subseteq Nat
ASSUME NoneAssumption == None \notin Int

VARIABLES
  evidence,    \* per session: the state its transcript and git tree are in
  proc,        \* per session: what its recorded pid is now
  handoffs,    \* the day's sessions/<sessionId>.json
  summary,     \* the day's summary.md: the handoffs it tells of
  forks,       \* forks.json
  transcripts, \* forks with a transcript under ~/.claude/projects
  spawned,     \* forks whose claude process may be running
  run,         \* per runner: its closing, what it holds in memory
  lastFork,    \* the last random UUID
  runs, crashes, changes

disk  == <<handoffs, summary, forks>>
world == <<evidence, proc>>
claude == <<transcripts, spawned>>
counts == <<lastFork, runs, crashes, changes>>
vars  == <<disk, world, claude, run, counts>>

Source  == {"model", "deterministic"}
Handoff == [evidence : Nat, source : Source]
ASSUME NoneRecordAssumption == None \notin Handoff
Capturing == {"gather", "compare", "register", "write", "spawn", "generate",
              "save", "verify", "terminate"}
Work == [at : {"out", "queued"} \cup Capturing, evidence : Nat,
         source : Source, fork : NoneOr(Int), registry : SUBSET Entry]

Run == [pc : {"idle", "pool", "brief", "cleanup", "delete", "rewrite"},
        dryRun : BOOLEAN, skipTermination : BOOLEAN,
        work    : [Session -> Work],            \* each session's capture
        listing : [Session -> NoneOr(Handoff)], \* the handoffs listed for the briefing
        entries : SUBSET Entry,                 \* the registry the cleanup has read
        handled : SUBSET Int]                   \* the stale forks it is done with

NoWork == [at |-> "out", evidence |-> 0, source |-> "deterministic",
           fork |-> None, registry |-> {}]
NoHandoffs == [s \in Session |-> None]
Idle == [pc |-> "idle", dryRun |-> FALSE, skipTermination |-> FALSE,
         work |-> [s \in Session |-> NoWork], listing |-> NoHandoffs,
         entries |-> {}, handled |-> {}]

TypeOK ==
  /\ evidence \in [Session -> Nat]
  /\ proc \in [Session -> {"alive", "closed", "dead", "recycled"}]
  /\ handoffs \in [Session -> NoneOr(Handoff)]
  /\ summary \in NoneOr([Session -> NoneOr(Handoff)])
  /\ forks \subseteq Entry
  /\ transcripts \subseteq Int /\ spawned \subseteq Int
  /\ run \in [Runner -> Run]
  /\ {lastFork, runs, crashes, changes} \subseteq Nat

IdsOf(S) == {e.id : e \in S}

Init ==
  /\ evidence = [s \in Session |-> 0]
  /\ proc = [s \in Session |-> "alive"]
  /\ handoffs = NoHandoffs /\ summary = None
  /\ forks = OldForks /\ transcripts = IdsOf(OldForks) /\ spawned = {}
  /\ run = [r \in Runner |-> Idle]
  /\ lastFork = 0 /\ runs = 0 /\ crashes = 0 /\ changes = 0

-----------------------------------------------------------------------------
(* The pool: mapWithConcurrencyLimit, with a try/catch around each session. *)

WorkOf(r, s) == run[r].work[s]
At(r, s, where) == WorkOf(r, s).at = where
Holds(r, s, work) == run' = [run EXCEPT ![r].work[s] = work]
To(r, s, where) == Holds(r, s, [WorkOf(r, s) EXCEPT !.at = where])
Out(r, s) == Holds(r, s, NoWork) \* captured, ineligible or failed

Becomes(r, closing) == run' = [run EXCEPT ![r] = closing]

\* readConfig, list, clock, applyCaptureScope: all sessions with a pid, or the
\* one --session names.
Discover(r) ==
  /\ run[r].pc = "idle" /\ runs < MaxRuns
  /\ \E scope \in {Session} \cup {{s} : s \in Session}, dry, skip \in BOOLEAN :
       Becomes(r, [Idle EXCEPT !.pc = "pool", !.dryRun = dry, !.skipTermination = skip,
                     !.work = [s \in Session |-> [NoWork EXCEPT
                       !.at = IF s \in scope /\ proc[s] # "closed" THEN "queued" ELSE "out"]]])
  /\ runs' = runs + 1
  /\ UNCHANGED <<disk, world, claude, lastFork, crashes, changes>>

Busy(r) == {s \in Session : WorkOf(r, s).at \in Capturing}

\* A worker takes the next session; its folder or its age may rule it out.
Take(r, s) ==
  /\ At(r, s, "queued")
  /\ Cardinality(Busy(r)) < Limit
  /\ To(r, s, "gather") \/ Out(r, s)
  /\ UNCHANGED <<disk, world, claude, counts>>

Gather(r, s) ==
  /\ At(r, s, "gather")
  /\ Holds(r, s, [WorkOf(r, s) EXCEPT !.at = "compare", !.evidence = evidence[s]])
  /\ UNCHANGED <<disk, world, claude, counts>>

\* Mutant: the criteria of the cheap stage, which know of no earlier capture.
duplicateToday_Cheap(r, s) == FALSE

duplicateToday(r, s) ==
  /\ handoffs[s] # None
  /\ handoffs[s].source = "model"
  /\ handoffs[s].evidence = WorkOf(r, s).evidence

\* Mutant: a preview forks too.
resolveGeneration_ForksInDryRun(r, s) == IF s \in Deep THEN "register" ELSE "generate"

\* No fork is made for a preview.
resolveGeneration(r, s) ==
  CASE s \notin Deep -> "generate"
    [] s \in Deep /\ run[r].dryRun -> "save"
    [] OTHER -> "register"

Compare(r, s) ==
  /\ At(r, s, "compare")
  /\ IF duplicateToday(r, s) THEN Out(r, s)
                              ELSE To(r, s, resolveGeneration(r, s))
  /\ UNCHANGED <<disk, world, claude, counts>>

\* registerFork, before the fork is spawned: reads the whole registry, ...
ReadForks(r, s) ==
  /\ At(r, s, "register")
  /\ lastFork' = lastFork + 1
  /\ Holds(r, s, [WorkOf(r, s) EXCEPT !.at = "write", !.fork = lastFork + 1, !.registry = forks])
  /\ UNCHANGED <<disk, world, claude, runs, crashes, changes>>

\* Mutant: the entry of a new fork carries no date.
WriteForks_Undated(r, s) ==
  /\ At(r, s, "write")
  /\ forks' = WorkOf(r, s).registry \cup {[id |-> WorkOf(r, s).fork]}
  /\ Holds(r, s, [WorkOf(r, s) EXCEPT !.at = "spawn", !.registry = {}])
  /\ UNCHANGED <<handoffs, summary, world, claude, counts>>

\* Mutant: the fork is spawned although it could not be registered.
WriteForks_Swallowed(r, s) ==
  /\ At(r, s, "write")
  /\ \/ forks' = WorkOf(r, s).registry \cup {[id |-> WorkOf(r, s).fork, createdAt |-> Today]}
     \/ UNCHANGED forks
  /\ Holds(r, s, [WorkOf(r, s) EXCEPT !.at = "spawn", !.registry = {}])
  /\ UNCHANGED <<handoffs, summary, world, claude, counts>>

\* ... and renames a whole registry over it.  A write that throws is a failed
\* generation: no fork is spawned.
WriteForks(r, s) ==
  /\ At(r, s, "write")
  /\ \/ /\ forks' = WorkOf(r, s).registry \cup {[id |-> WorkOf(r, s).fork, createdAt |-> Today]}
        /\ Holds(r, s, [WorkOf(r, s) EXCEPT !.at = "spawn", !.registry = {}])
     \/ /\ Holds(r, s, [WorkOf(r, s) EXCEPT !.at = "save", !.registry = {}, !.fork = None])
        /\ UNCHANGED forks
  /\ UNCHANGED <<handoffs, summary, world, claude, counts>>

Spawn(r, s) ==
  /\ At(r, s, "spawn")
  /\ spawned' = spawned \cup {WorkOf(r, s).fork}
  /\ To(r, s, "generate")
  /\ UNCHANGED <<disk, world, transcripts, counts>>

\* The answer of the model, or a failure or timeout, which the facts alone survive;
\* a claude that is timed out may still be writing.
Generate(r, s) ==
  /\ At(r, s, "generate")
  /\ \E source \in Source :
       /\ Holds(r, s, [WorkOf(r, s) EXCEPT !.at = "save", !.source = source, !.fork = None])
       /\ IF source = "model" /\ s \in Deep
            THEN WorkOf(r, s).fork \in transcripts /\ spawned' = spawned \ {WorkOf(r, s).fork}
            ELSE UNCHANGED spawned
  /\ UNCHANGED <<disk, world, transcripts, counts>>

\* Mutant: a write that throws goes on to be verified.
SaveHandoff_Swallowed(r, s) ==
  /\ At(r, s, "save")
  /\ IF run[r].dryRun
       THEN Out(r, s) /\ UNCHANGED handoffs
       ELSE /\ \/ handoffs' = [handoffs EXCEPT ![s] =
                    [evidence |-> WorkOf(r, s).evidence, source |-> WorkOf(r, s).source]]
               \/ UNCHANGED handoffs
            /\ To(r, s, "verify")
  /\ UNCHANGED <<summary, forks, world, claude, counts>>

\* A dry run stops before its first write.
SaveHandoff(r, s) ==
  /\ At(r, s, "save")
  /\ IF run[r].dryRun
       THEN Out(r, s) /\ UNCHANGED handoffs
       ELSE \/ /\ handoffs' = [handoffs EXCEPT ![s] =
                     [evidence |-> WorkOf(r, s).evidence, source |-> WorkOf(r, s).source]]
               /\ To(r, s, "verify")
            \/ Out(r, s) /\ UNCHANGED handoffs
  /\ UNCHANGED <<summary, forks, world, claude, counts>>

MayTerminate(r, s) == s \in CanTerminate /\ ~run[r].skipTermination

\* The read that verifies the write may throw.
Verify(r, s) ==
  /\ At(r, s, "verify")
  /\ \/ Out(r, s)
     \/ /\ handoffs[s] # None
        /\ IF MayTerminate(r, s) THEN To(r, s, "terminate") ELSE Out(r, s)
  /\ UNCHANGED <<disk, world, claude, counts>>

\* terminateGracefully(pid): the signal goes to whatever has the pid now, whatever its
\* procStart, which ends, or is alive when the deadline comes (Q-007).
Terminate(r, s) ==
  /\ At(r, s, "terminate")
  /\ \E ends \in BOOLEAN :
       proc' = [proc EXCEPT ![s] = CASE ends /\ @ = "alive"    -> "closed"
                                     [] ends /\ @ = "recycled" -> "dead"
                                     [] OTHER -> @]
  /\ Out(r, s)
  /\ UNCHANGED <<disk, evidence, claude, counts>>

-----------------------------------------------------------------------------
(* The end of the run. *)

Ended(r) == Becomes(r, Idle)

\* Mutant: the pool is left when nothing is queued.
Drained_NoneQueued(r) == \A s \in Session : WorkOf(r, s).at # "queued"

Drained(r) == \A s \in Session : WorkOf(r, s) = NoWork

\* The briefing tells of every handoff of the day, this run's or not.
ListHandoffs(r) ==
  /\ run[r].pc = "pool" /\ Drained(r)
  /\ IF run[r].dryRun
       THEN Ended(r)
       ELSE Becomes(r, [run[r] EXCEPT !.pc = "brief", !.listing = handoffs])
  /\ UNCHANGED <<disk, world, claude, counts>>

\* A briefing that cannot be written ends the run with an error.
SaveBriefing(r) ==
  /\ run[r].pc = "brief"
  /\ \/ summary' = run[r].listing /\ Becomes(r, [run[r] EXCEPT !.pc = "cleanup"])
     \/ Ended(r) /\ UNCHANGED summary
  /\ UNCHANGED <<handoffs, forks, world, claude, counts>>

\* Mutant: a fork as old as forkCleanupDays is stale.
Stale_OrEqual(e) == e.createdAt # None /\ Today - e.createdAt >= forkCleanupDays

\* Strictly older than forkCleanupDays; a fork of unknown age is never stale.
Stale(e) == e.createdAt # None /\ Today - e.createdAt > forkCleanupDays

planForkCleanup(S) == IdsOf({e \in S : Stale(e)})

ReadEntries(r) ==
  /\ run[r].pc = "cleanup"
  /\ Becomes(r, [run[r] EXCEPT !.pc = "delete", !.entries = forks])
  /\ UNCHANGED <<disk, world, claude, counts>>

\* Some deletions may fail; a transcript that is not there counts as deleted.
DeleteForks(r) ==
  /\ run[r].pc = "delete"
  /\ \E kept \in SUBSET (planForkCleanup(run[r].entries) \cap transcripts) :
       LET gone == planForkCleanup(run[r].entries) \ kept
       IN  /\ transcripts' = transcripts \ gone
           /\ IF gone = {} THEN Ended(r)
                ELSE Becomes(r, [run[r] EXCEPT !.pc = "rewrite", !.handled = gone])
  /\ UNCHANGED <<disk, world, spawned, counts>>

\* The rewrite may throw: the run ends all the same.
dropHandledEntries(r) ==
  /\ run[r].pc = "rewrite"
  /\ \/ forks' = {e \in run[r].entries : e.id \notin run[r].handled}
     \/ UNCHANGED forks
  /\ Ended(r)
  /\ UNCHANGED <<handoffs, summary, world, claude, counts>>

-----------------------------------------------------------------------------
(* The environment. *)

\* The process of a closing dies; the claude it has spawned may live on.
Crash(r) ==
  /\ run[r].pc # "idle" /\ crashes < MaxCrashes
  /\ Ended(r)
  /\ crashes' = crashes + 1
  /\ UNCHANGED <<disk, world, claude, lastFork, runs, changes>>

\* --fork-session writes the transcript of the fork at some moment, even if the
\* call is about to fail.
ForkWrites(f) ==
  /\ f \in spawned \ transcripts
  /\ transcripts' = transcripts \cup {f}
  /\ UNCHANGED <<disk, world, spawned, run, counts>>

Changes == changes < MaxChanges /\ changes' = changes + 1

\* The user or the session works on: the transcript or the git tree changes.
Evolves(s) ==
  /\ Changes
  /\ evidence' = [evidence EXCEPT ![s] = @ + 1]
  /\ UNCHANGED <<disk, proc, claude, run, lastFork, runs, crashes>>

\* The session is closed (its record goes), or dies and leaves its record, whose
\* pid the system may give to another process.
Ends(s) ==
  /\ Changes
  /\ \/ proc[s] = "alive" /\ \E how \in {"closed", "dead"} : proc' = [proc EXCEPT ![s] = how]
     \/ proc[s] = "dead" /\ proc' = [proc EXCEPT ![s] = "recycled"]
  /\ UNCHANGED <<disk, evidence, claude, run, lastFork, runs, crashes>>

Captures(r, s) ==
  \/ Take(r, s) \/ Gather(r, s) \/ Compare(r, s)
  \/ ReadForks(r, s) \/ WriteForks(r, s) \/ Spawn(r, s) \/ Generate(r, s)
  \/ SaveHandoff(r, s) \/ Verify(r, s) \/ Terminate(r, s)

Finishes(r) ==
  \/ ListHandoffs(r) \/ SaveBriefing(r)
  \/ ReadEntries(r) \/ DeleteForks(r) \/ dropHandledEntries(r)

Next ==
  \/ \E r \in Runner : Discover(r) \/ Finishes(r) \/ Crash(r)
  \/ \E r \in Runner, s \in Session : Captures(r, s)
  \/ \E f \in spawned : ForkWrites(f)
  \/ \E s \in Session : Evolves(s) \/ Ends(s)

Spec == Init /\ [][Next]_vars

-----------------------------------------------------------------------------
(* Properties *)

\* A running session is ended only by a run that may end it, once the handoff of
\* what that run has seen of it is on disk (D-002).
TerminatesOnlyTheCaptured ==
  [][\A r \in Runner, s \in Session :
       run[r] # run'[r] /\ At(r, s, "terminate") /\ proc'[s] # proc[s] =>
         /\ s \in CanTerminate
         /\ ~run[r].dryRun /\ ~run[r].skipTermination
         /\ handoffs[s] # None
         /\ handoffs[s].evidence = WorkOf(r, s).evidence]_vars

\* Every fork that has, or may yet have, a transcript is in forks.json, so that
\* discovery leaves it out and a later cleanup finds it (D-012).
ForkKnown == transcripts \cup spawned \subseteq IdsOf(forks)

\* A transcript goes only when its fork has been registered for longer than
\* forkCleanupDays.
DeletesOnlyStaleForks ==
  [][\A f \in transcripts \ transcripts' :
       \E e \in forks :
         e.id = f /\ e.createdAt # None /\ e.createdAt + forkCleanupDays < Today]_vars

\* When a run goes on to its cleanup the briefing tells of all the handoffs there are.
BriefingComplete == \A r \in Runner : run[r].pc = "cleanup" => summary = handoffs

\* A step of a dry run leaves files, processes and forks as they are.
DryRunTouchesNothing ==
  [][\A r \in Runner : run[r].dryRun /\ run'[r] # run[r] => UNCHANGED <<disk, proc, claude>>]_vars

\* The folder of the day keeps the promises of DayHandoffs.
DayFolder == INSTANCE DayHandoffs
ImplementsDayHandoffs == DayFolder!Spec
=============================================================================
