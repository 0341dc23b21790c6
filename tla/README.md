# Verification of seeya

seeya closes the working day of a developer who uses a coding agent: a daemon watches the clock,
captures what every agent session was doing into *handoffs*, optionally ends those sessions, and
`seeya start-day` resumes them the next morning. A desktop application shows the same data, runs
terminals, and keeps *projects* (a workspace under git with a lock per project).

Every process shares one directory, `~/.seeya`, through plain JSON files replaced by atomic
renames. There is no server, no database and no lock but the two lock files below: nearly all that
can go wrong is two processes doing read - decide - write over the same file, or a process dying
between two of its steps.

## 1. Inventory

Paths are relative to `packages/` (`engine/src` unless another package is named).

| Component | State | Operations | Hard behaviour |
|---|---|---|---|
| Daemon lock and stop (`core/daemon-lock`, `scheduler/{lock,loop,daemon-control,daemon-state}`, `adapters/process`, `cli/daemon-command`) | `daemon.lock`; the worker's stop flag | launch, acquire, leave the loop, clear, stop (graceful, forced), crash | check-then-write without compare-and-swap, stale locks, recycled pids, bounded waits |
| Schedule (`core/schedule`, `core/lead-time-hysteresis`, `core/capture-retry`, `core/daemon-health`) | `DayState`, one record per local day | `decideSchedule`, snooze, undo, skip, day rollover, attempts and health counters | boundaries in time, a deadline that moves, midnight |
| Daemon poll (`scheduler/{poll,loop,health,capture-filter}`) | `estado.json`, `config.json` | one poll: rollover, notices, capture, save; health bookkeeping | read-modify-write of `estado.json` across a capture of minutes; notify/save order under a crash |
| Schedule adjusters (`application/{schedule-adjustments,config-update}`, `cli/snooze-command`, `app/state/schedule-actions`) | the same `estado.json` | snooze, skip, undo, change of the end-of-day time | run in other processes, at any point of a poll |
| Capture and end of day (`application/{end-day,capture-session,concurrency,evidence-gathering,eligibility-assembly}`, `core/{eligibility,capture-scope}`) | handoffs of the day, `summary.md` | discover, filter, capture in a bounded pool, write, terminate, summarise | isolation of failures, termination only after a verified handoff, duplicates |
| Fork registry and cleanup (`adapters/generation/{fork-registration,deep-generator}`, `adapters/discovery/{fork-registry,fork-cleanup}`, `core/fork-cleanup`) | `forks.json`, fork transcripts | register before the fork is born, exclude from discovery, delete when stale | whole-file read-modify-write from a pool of concurrent captures |
| Discovery and early warnings (`adapters/discovery/*`, `core/early-warnings`, `adapters/transcript`) | `early-warnings.json`, the harness's own registry | list sessions, detect sessions at risk, mark as warned | marking before notifying, an external registry seen at two moments |
| Resume (`application/{start-day,find-pending-briefing,briefing}`, `core/{pending-briefing,resume-fallback-decision,consolidated-plan}`, `adapters/resumption`, `app/resume`) | `resumed.json`, pending confirmations, terminal tabs | find the pending briefing, resume, fall back to a new session, record what was resumed | exit of the child racing the grace period, a crash between launch and record |
| Project lock (`core/project-lock*`, `application/project-lock`, `adapters/workspace/project-lock`) | one lock file per project | acquire, take over, release, describe | takeover after a dead holder, release of another's lock |
| Project life (`application/{project-open,project-adopt,project-archive,project-remove*,project-revert-adoption,verify-commit}`, `core/workspace-commit-guard`, `adapters/workspace`) | the workspace repository, manifests, `adoption.json` | open, adopt, commit at session end, guard commits, archive, revert | crash between the workspace commit and the registry, two sessions of one project |
| Session adoption (`application/{harness-hook,project-adopt}`, `core/{adoption-registry,session-binding}`, `adapters/harness`) | `adoption.json`, hooks in the harness's settings | record, revoke, look up | hook processes that run concurrently with the application |
| Daemon ownership (`application/daemon-ownership`, `app/composition/{daemon-start,daemon-ownership-transition,latest-only}`) | `daemon-ownership-transition.json`, autostart entry | decide who starts the daemon after an install or an upgrade | transition interrupted half-way, several calls in flight |
| Storage (`adapters/storage`, `adapters/filesystem`) | every file above | atomic write (temporary file and rename), read with schema check, quarantine of handoffs it rejects | crash before the rename, concurrent writers |
| Generation (`adapters/generation`, `application/generation-policy`) | a child `claude` process | run with budget and timeout, parse, fall back to evidence | timeout racing a late answer |
| Application shell (`app/{main,ipc,state,pty,tabs}`) | windows, tabs, PTYs, cached view state | IPC handlers, spawn and close terminals, refresh | exit events with no listener yet, results applied out of order |
| Renderer (`app/{renderer,sidebar,text,theme}`) | view state | drawing | none that concerns the shared files |
| Autostart, notification, installation (`adapters/{autostart,notification,installation}`) | entries of the operating system | install, query, remove, show a toast | platform differences; I/O only |
| Git, text formatting, CLI parsing (`adapters/git`, `application/format-*`, `cli/format-*`) | none | run git, render | pure or read-only |

How they interact. The daemon is one process that runs the poll; the poll calls discovery, the
schedule, the end of day and the notifier in sequence, each behind an `await`. The CLI and the
application adjust the schedule in their own processes by rewriting `estado.json`. A capture, run by
the daemon or by `seeya end-day`, forks agent sessions and registers them in `forks.json`. The
morning's `start-day` reads handoffs and writes `resumed.json`. The application calls the same engine
functions from its main process, and adds terminals and an IPC layer.

What makes each component correct:

- daemon lock: one daemon at a time; the polling daemon is the one the lock names; a stop that says
  "stopped" is true; a stop always answers.
- schedule and poll: a closing happens once per day, never before the effective deadline, never on a
  skipped day; an adjustment the user was told about is not lost; a notice is not lost and not repeated;
  a session is not retried for ever; an unhealthy daemon says so once per streak.
- capture: a session is terminated only after its own handoff is on disk; one failure leaves the others
  alone; a dry run writes nothing.
- forks: a fork is never captured as if it were a user's session; one registered is not forgotten.
- resume: only a session that somebody got into is marked as resumed (not so of a fresh tab), a marked one
  is not offered again, and a failure loses the mark of one session, not of the morning.
- project lock and life: a project has one writer; an open one is not archived or removed under its
  session; what an operation reports done is committed; no lock is left behind.
- adoption: a session has one adoption at a time, by a copy that no cleanup takes, with committed work (not
  so when that was undone by hand at the question); it is released only when that work is undone.

## 2. Plan

Modules in the order of importance; a module is written so that it can be proved about as well as
checked (parameters as CONSTANTS with named assumptions, one action per step between two `await`s,
invariants in named parts, no RECURSIVE operator).

| Order | Module | Status | Composes / implements |
|---|---|---|---|
| 1 | `DaemonLock` | done | implements `SingleDaemon` |
| 2 | `Schedule` | done | the pure decisions, extended by `DaemonPoll` |
| 3 | `DaemonPoll` | done | `Schedule` with the adjusters of other processes; implements `ClosingDay` |
| 4 | `EndDay` | done | the pool of captures, the briefing and the cleanup; implements `DayHandoffs` |
| 5 | `ProjectGuard` | done | the pure decisions of the project lock and of the commit guard, extended by `ProjectLife` |
| 6 | `ProjectLife` | done | every operation that takes the lock, the sessions that work meanwhile, the commits; implements `SingleWriter` |
| 7 | `Resume` | done | `start-day` and the application's tabs over `resumed.json`; implements `MorningMarks` |
| 8 | `Adoption` | done | adopt, revert, remove over `adoptions.json` and `forks.json`; implements `SessionAdoptions` |
| 9 | early warnings | left out | one writer, the poll, that marks a warning and then shows it: one step each, nothing interleaves |
| 10 | a closing at midnight | left out | the window is the time a listing of the sessions takes, and only the product of `DaemonPoll` and `EndDay` has it |

Six abstract specifications say what a component promises, each in a page: `SingleDaemon` (daemons
alternate: one starts only when none polls), `ClosingDay` (a day is closed once, never once skipped, and
never reopened), `DayHandoffs` (a handoff stays, never describes older evidence than before, and what
the model wrote of a state is not written over for that state), `SingleWriter` (whoever holds a project
commits, and nobody else), `MorningMarks` (launched first, marked afterwards, for good) and
`SessionAdoptions` (one adoption per session, of a commit that was made or found nothing to make, until what
it made is gone).

## 3. The modules

The actions are cut where the code awaits: everything between two awaits of one process is one step, and
any other process may move in between. A file is a variable; reading it copies it to a variable of the
reader, and saving it replaces it whole, since that is what `writeFileAtomic` does. A failing call is a
disjunct of the step that makes it. Where two awaits are one step all the same, the section of the module
says so and why.

### DaemonLock (and MCDaemonLock, SingleDaemon, DaemonLockProofs)

A *worker* is one incarnation of the daemon process, with the launcher that precedes it. `Launch`,
`LauncherDecide`, `Spawn` are `runDaemonLauncher` (and the application's `startDaemonAndWait`);
`WorkerRead`, `WorkerDecide`, `WriteLock` are `acquireDaemonLock` in `lock.ts`; `LeaveLoop`, `ClearOnExit`,
`Exit` are the end of `runDaemon`. `StopRead` ... `StopClear` are `runDaemonStop`: graceful wait, forced
stop where the platform has nothing gentler, and the clearing of the lock when the process is known to be
dead. Identity is the pair (pid, procStart); `isAlive` answers what the code's comparison gives, including
the answer for a procStart that was never recorded or cannot be read at the moment. Foreign processes may be
given a pid that a dead worker had. Abstracted: the contents of the log, the words of the reports, the
polling of the two waits (each is one step that ends well or not).

### Schedule and DaemonPoll (and MCDaemonPoll, ClosingDay, ScheduleProofs, DaemonPollProofs)

`Schedule` translates `core/schedule.ts`, `lead-time-hysteresis.ts`, `capture-retry.ts` and
`daemon-health.ts` over a clock of abstract units, with days of `DayLength` units. `DaemonPoll` has the
loop: `BeginPoll` reads the configuration, `ReadClock` the instant, `ReadState` the record; then
`NotifyMissed`/`SaveReset` (the day turned), `Quiet` or `WarnNotify`/`WarnSave` (lead times), `BeginEndDay`,
`EndDay`, `CloseSave`, `Announce` (closing), and the bookkeeping of health (`SuccessRead`/`SuccessSave`,
`FailRead`/`FailSave`/`FailNotify`). `Throw` is an exception at any of these awaits and `Crash` the death of
the daemon, after which a new one starts from the file. A request of the command line or the application is
`AdjustBegin`, `AdjustClock`, `AdjustRead`, `AdjustSave`. `config.json` is reduced to the end-of-day time,
which a change sets; what `saveConfigChange` reads before it saves only tells whether the time changes
(`config-update.ts:50-52`), so that read and the save are one step, and changes of other fields that lose
each other are outside. The capture is one step with the outcomes the poll tells apart: which sessions got
no handoff of the model, and whether a turn is active. History variables (`asked`, `announced`, `tries`,
`shown`, `warned`, `unhealthy`) record what the user was told; no guard reads them.

### EndDay (and MCEndDay, DayHandoffs, EndDayProofs)

A *runner* is a process that may run a closing, one after the other; nothing in the code keeps two of them
apart. Per session, `Take`, `Gather`, `Compare` (eligibility and the mode of capture), `ReadForks` and
`WriteForks` (`registerFork`), `Spawn`, `Generate`, `SaveHandoff`, `Verify`, `Terminate`, with at most
`Limit` sessions between the first and the last; then `ListHandoffs`, `SaveBriefing`, `ReadEntries`,
`DeleteForks`, `dropHandledEntries`. The environment changes sessions, ends them, gives the pid of any that
ended to another process, lets a spawned fork write its transcript late, and kills the closing at any point.
A transcript and a git tree are one number that grows with each change: all the code asks is whether the
evidence is the one it has already captured.

### ProjectGuard and ProjectLife (and MCProjectLife, SingleWriter, ProjectLifeProofs)

`ProjectGuard` has what `core/project-lock.ts` and `core/workspace-commit-guard.ts` decide: who may take or
remove a lock, which commits the commit-msg hook lets through, and under whose name. `ProjectLife` has the
operations around them. An operation runs in its host, a process of the command line or the application's
main process, starts from a terminal or from a session that another operation launched, and may begin again
as another when it is over: `Begin`, `ReadManifest`, `ReadLock`, `Probe`, `WriteLock` are the acquisition,
its read, its liveness check and its write apart; `AnswerReadOnly`, `ListLeftover`, `AnswerLeftover`,
`Launch`, `SessionEnds` are the rest of `openProject`; `Change`, `Stage`, `Commit`, `SaveDeviceRecord` are
what the lifecycle operations and the commit at a session's end do to the tree, the index and HEAD;
`ReadForRelease` and `Clear` are the release. A commit is git's: an operation (`Commit`) or a hand, of an
agent or a person (`TypesAdd`, `TypesCommit`), starts it; the hook, a process of its own, then lists what is
staged (`HookLists`), reads the lock (`HookReads`), probes its holder and answers by `AllowsCommit`
(`HookDecides`), and only after it git moves HEAD (`CommitLands`), or fails (`GitFails`). The operation
waits for its git meanwhile (`Refused`, when it did not land), and everybody else goes on. `Works` is an
agent in its session, or on after its operation died, that edits files. That git has read the index, and the
commit it comes after, before it runs the hook is git's behaviour, not the repository's. `Throw` is any call
that fails; `onBeforeLaunch`, which an open calls between taking the lock and its `try`
(`project-open.ts:597`), only puts text together and prints it, and does not throw in the model: an
exception there would leave the lock. `Crash` is the death of a host with all that it hosts. Files are a
manifest (archived or not, with the repository the operations are about or not, edited by hand or not) and a
version number for the rest. `author` is a history variable.

### Resume (and MCResume, MorningMarks, ResumeProofs)

A *runner* is one run of `seeya start-day` after the other in a terminal, or the application's. `Look`
finds the pending briefing (`find-pending-briefing.ts` over `pending-briefing.ts`), `Choose` is `--all`,
the picker or `--session`; in the application `Refresh` shows a briefing on the panel and `Click` is
"Resume selected". Both then run the loop of `start-day.ts`: `ReadRecord`, `NextSession`, `attemptResume`,
`FailsFast`, `Answer` (the question for a fallback, with the decisions that
`resume-fallback-decision.ts` allows), `Save` after each session, and `Report` for the panel. In a terminal
a session counts when it is over (`SessionEnds`), in a tab when it outlives the grace period
(`SurvivesGrace`), and a fresh one in a tab as soon as the tab is open (`FreshTabOpens`), since
`tab-session-resumer.ts:234-244` waits for nothing there. A write that fails, a death at any point, a window
that is closed, closings that capture sessions again and the passing of the days are the environment. `got`
(somebody got into it) and `stillborn` (its fresh tab opened, its `claude` died at once) are history
variables.

### Adoption (and MCAdoption, SessionAdoptions, AdoptionProofs)

Each operation is a process that runs once. An adoption asks, takes the lock, registers its copy in
`forks.json` (read and write apart), launches the harness, and when that is closed looks at what the copy
left: discard, commit, or keep what was committed before; then it takes the copy off `forks.json`, reads
`adoptions.json`, writes it, and releases the lock. A commit finds nothing to make (`empty`) when the edits
were undone by hand at the question (`UndoneByHand`), and is followed by the record all the same. A revert
takes the lock, plans what it can revert from the history of the project, asks, undoes it in one commit,
removes the record and deletes the copy, or asks whether to when it was written to since. A removal takes
the lock, asks, commits the project away, its lock with it, and drops the records of the project. The
questions are states of their own, at which other operations go on. `Works`, `Continues` and `OthersCommit`
are the copies at work during and after their adoption and commits of others; `Cleanup` is the daily cleanup
of forks that `EndDay` has in detail. What is in a commit is abstracted to what a revert asks about it:
whether it is the last to touch its files, was touched since, was reverted, or went with its project. The
project lock is read and written, and read and removed, in two steps each, so that with `Overlap` two
operations may both have it; that its holder is dead is known in the step that reads it (`ProjectLife` has
the probe apart).

## 4. The runs

| Run | Instance | Distinct states | Shows |
|---|---|---|---|
| `lock_serial` | 3 workers, two of which get the same pid, 1 foreign process that may get it too, 2 stops (one forced), procStart unreadable at times | 517,366 | one daemon at a time, named by the lock; the lock is only cleared by its owner or after its death; implements `SingleDaemon` |
| `lock_overlap` | 2 workers, 1 foreign process, 2 stops, everything in any order, fair | 48,084 | a reported stop is true; a recycled pid blocks no launch; every stop answers; a signal ends its worker |
| `poll_serial` | 2 requests of any kind, 2 days of 4 units, 1 error, 1 crash, fair | 825,223 | adjustments kept, one announcement a day, no capture before the deadline or on a skipped day, a deadline that passes closes its day; implements `ClosingDay` |
| `poll_notices` | 2 lead times, 2 end times, 2 requests that move the deadline, 2 errors, 1 crash (up to symmetry) | 5,142,710 | each deadline gets its warnings (shown, or swallowed by the hysteresis), spaced by it; no session beyond its attempts; one report per streak of failures |
| `poll_lostSnooze` | a snooze overlaps a capture | | **violated**: the snooze is erased |
| `endday_serial` | 2 sessions (one captured through a fork, one not) in a pool of 2, 2 closings, 1 crash, 2 changes of the sessions, forks of every age | 4,530,747 | what is ended, overwritten, registered, deleted and told of is what should be; implements `DayHandoffs` |
| `endday_twoForks` | 2 sessions captured through forks at once | | **violated**: one fork is not in `forks.json` |
| `project_serial` | 2 operations of any of the 6 kinds, each in its own process, from terminals and from sessions, 1 version of the files, 1 crash | 2,663,952 | a lock taken is kept, an open project stays, nothing is left locked, what is reported is committed, no commit lands beside a holder; implements `SingleWriter` |
| `project_window` | an open or an archival after another, both in the application | | **violated**: a second, read-only open removes the lock of the first |
| `resume_serial` | 2 sessions, 2 days, the command line and the application, 1 failure or fresh tab that dies, fair | 4,760,966 | only what was launched is marked, no mark is launched again, a failure loses one mark, the button comes back; implements `MorningMarks` |
| `resume_fresh_tab` | 1 session in the application | | **violated**: a fresh tab whose `claude` died at once is marked |
| `adoption_serial` | 2 sessions, 2 projects, 2 adoptions, 2 reverts or removals, 1 failure (up to symmetry) | 2,414,909 | implements `SessionAdoptions` |

TLC explores the passing runs completely; the longest takes three minutes or so on two workers.
`project_serial` has a VIEW without `author`, which no action reads: what a step commits, and as whom, is
in the step, and the action properties that speak of it are checked at every step TLC takes.
`poll_notices` and `adoption_serial` have SYMMETRY over constants no action tells apart (requests; and
projects, adoptions, undoings); neither checks liveness.

Each violated run checks one statement of a document or comment of the repository; PROJECT.json quotes it
under `findings`. Two are a read - decide - write over a file nothing guards, of parts that overlap in
ordinary use: `estado.json` across a capture of minutes, and `forks.json` in a pool of captures. Two are
decisions: in the application every open of a project has the pid of the main process, so a read-only open
gives up the lock of the open that has the project; and a fresh session in a tab is marked without a look at
whether it started. The races it takes two starts, opens, adoptions or runs at the same moment to meet have
no run; section 6 lists them.

Why the bounds are enough. The daemon lock has a single cell, so what matters is a holder, one that reads
it, and one that comes between: three workers, and two stops, since one stop may act on what another did.
The poll keeps one record, so two requests and a daemon give every pair of read and write; two days give
every effect of midnight, and a day of 4 units has an instant before, at and after each deadline (6 when
there are lead times, 1 unit apart and closer than the hysteresis of 2, so that a notice can be due inside
the hysteresis of another). The clock of `poll_serial` stops one unit, the retry budget, after the deadline
of its second day, so that the closing there cannot be left to midnight; a snooze is of two units, which
moves that deadline out of the run. Two errors are one more than it takes to be called unhealthy in
`poll_notices` (1; `UnhealthyIsToldOnce` has every threshold). A pool of 2 has a session of either kind of capture under way at once; two closings are the first that can
find a handoff of the day already there; a crash in the first leaves the second every half-done state; two
changes are what it takes to die and lose the pid, or to work on before and after a capture. The forks of
earlier days are one that is stale, one exactly at the limit, and one of unknown age. A project has one
lock and one manifest: two operations give a holder and a comer of every pair of kinds, with the session of
one the place the other is typed in, and one crash leaves a stale lock and an orphaned session; the version
number only has to tell work that is committed from work that is not. In the morning two sessions are one
in hand and one still to come, two days are one with a plan and one that supersedes it, and the look back
of 1 day reaches exactly from the one to the other. Two adoptions, of one session or of two, into one
project or two, and two undoings give each record a rival; a failure at any step leaves each half-done
state to the other three.

Serial runs. `SerialStarts`, `StopsAlone`, `OneRunner`, `~Overlap` and `~AtOnce` restrict the environment, not the
code: they are the conditions under which the code keeps what its documents say. Operations that wait for a
person or for a session do not count as being at work, so even the serial runs have operations open inside
one another: a lifecycle command inside a project that is open, a revert during somebody's adoption, a
run of `start-day` after a window was closed at a question. In `ProjectLife`, `~Overlap` is also about git:
while an operation is at work no commit is typed, and while one is under way, from its start to the answer
of its hook and the move of HEAD, no operation begins or comes back from a wait. Outside of these conditions
the code gives way: section 6 says how, case by case, and the theorems called unconditional bound it.

Fairness. `FairSpec` of `DaemonLock`: a worker and a stop that has begun go on, since each wait in them ends
at a deadline; launches, signals, crashes and foreign processes owe nothing. `FairSpec` of `DaemonPoll`: the
loop never ends by itself and every call in it is bounded by a timeout, a request that began is executed,
and the clock goes on (weak fairness of `PollStep`, `Tick` and a request under way). `FairSpec` of `Resume`:
the application's own steps, the opening of a tab and the end of the grace period among them, and the
answers of the person in front of the window; a session owes nothing and may last for ever. `EndDay`,
`ProjectLife` and `Adoption` need none: they state no liveness. Deadlock is checked in the runs of
`ProjectLife`, where somebody can always work; the others do not check it: a bounded clock, a used-up number
of launches, closings, days or operations really ends the model.

## 5. What is proved

TLAPS checks the following for every value of the constants (any number of workers, stops, requests,
sessions, lead times, forks, operations, projects, days, errors and crashes). Every invariant and every
action property of the passing runs is among them. The runs mostly ask what a document promises, and that
holds where operations take turns. What is left of it when they do not is the subject of the theorems called
unconditional: they bound what a race, a death or a failed write can cost.

- `DaemonLockProofs`. Unconditionally: `TypeCorrect`, `StopIsTruthful`, `ClearingFollowsAnEnd` (no step
  removes `daemon.lock` but that of a worker told to stop or of a stop whose own reading named a worker that
  has exited: a race can cost the name of a daemon that took the lock in between, and no more); where
  procStart can always be read, `OnlyTheLiveRefuse`. For launches and stops that do not overlap
  (`SerialStarts /\ StopsAlone`): `SingleInstanceHolds`, `RunningIsNamed`, `ClearedOnlyOnEvidence`,
  `Implementation`. `IInv` says, in any interleaving, that a worker's process exists exactly from its spawn
  to its exit, that a name once on disk is that of a worker past its write, and that a stop which clears or
  reports has the name of a dead worker. `SingleInstance` is not inductive by itself: a worker between its
  check and its write does not poll yet. `SerialInv` adds that at most one launch is in flight and no stop
  beside it, that a worker in the loop is the one the lock names, that between a read of the lock and the
  decision the lock can only have been cleared, and that a worker about to write is alone.
- `ScheduleProofs`. About the decisions of `core/schedule.ts`, for every record, configuration and instant:
  `ADayClosesInsideItself` (a record can still close its day exactly when the day is configured, open and
  not skipped, and end-of-day time plus snoozes stay before midnight: a snooze to midnight or past it loses
  the closing, since the rollover drops the deadline with the day), `ASettledDayStaysSettled`,
  `AnUndoDoesNotClose` (an undo that is offered closes nothing at once, and leaves a closing to come),
  `AnotherDayCountsForNothing`, and, for finitely many lead times, `AWarningIsSpent` (each warning marks one
  more of them, the largest that is due, and does not move the deadline).
- `DaemonPollProofs`. Unconditionally: `TypeCorrect`, `EveryDeadlineIsWarned`, `CapturesAsRead` (under any
  overlap a capture is due, open, not skipped and within the attempts by the record and configuration its
  poll read: a race costs one stale reading), `NoRecordOfTomorrow` (with `AnotherDayCountsForNothing`:
  nothing closed or skipped today is taken for tomorrow's, however writes overlap across midnight; by
  `Arrived`, which says it of the clock and the record each poll and request holds as well). For polls and
  adjustments that do not overlap (`~Overlap`): `AdjustmentsAreKept`, `AnnouncedAtMostOnce`,
  `CapturesOnlyWhenDue`, `TriesStayWithinBudget`, `UnhealthyIsToldOnce`, `LeadNoticesAreSpaced` and
  `Implementation`. `TInv` ties the record in memory to the step the poll is at (it is there, and of today,
  from the decision on, and the decision is the one that led there). `SInv` adds that whoever is at work is
  alone, that what it has read is still what is stored and the configuration in force, that no record is of
  a day to come, that what the user was told is of no later day than the record's, and that a day that was
  announced is closed or over, while one about to be announced is closed and has not been. The last three
  relate the record to what was really done and shown: until a failure, the attempts on record are those of
  the history (`BInv`); the streak on record is past the crossing exactly when the person was told (`UInv`);
  a lead time the record calls fired was warned of for this deadline (`WInv`); and the time of the last
  notice on record is that of the last one shown, so that the hysteresis is measured from it (`NInv`).
- `EndDayProofs`. Unconditionally, closings that overlap included: `TypeCorrect`, `DryRunsTouchNothing`,
  `CleanupDeletesStaleForks`, `NoOldForkIsForgotten` (what a lost update of `forks.json` loses is an entry
  of the day itself, as in `endday_twoForks`, never one of an earlier day whose transcript exists),
  `FolderIsTrue`, `TerminationNeedsAHandoff` (a handoff, though under overlap not always the latest) and
  `PoolNeverOverflows`. `OldInv` carries the second: every list of forks that a capture has read, in memory
  or on disk, knows each old fork with its own date as long as its transcript is there; `FolderInv` bounds
  by the present the evidence of whatever a closing holds. Nothing is stated of a pid that was given to another
  process, which the code does signal (section 6). For closings that do not overlap (`OneRunner`):
  `TerminationFollowsCapture`, `Implementation`, `BriefingTellsAll`, and, with at most one session captured
  through a fork (`OneDeep`), `ForksAreKnown`. `Discipline` says which captures get where (only a deep one,
  of a run that is not dry, registers a fork; only one that may be terminated gets to `Terminate`; outside
  the pool none is under way). `HandoffInv` relates what a capture holds to what is on disk: it stands for
  at least the evidence of the handoff there, and from its write on for exactly that. `ClosingInv` says that
  what a run past its pool has read is still what is on disk, and `ForkInv` that a fork about to be spawned
  is registered with today's date, so that the cleanup spares it whether or not it has a transcript yet.
- `ProjectLifeProofs`. Unconditionally: `TypeCorrect`, by `Discipline`, which says by place what an
  operation remembers; `NoLockIsLeftBehind` (a live process that the lock names has an operation under way
  that took it), and with a process for each operation (`OwnHosts`), `NothingIsLeftLocked`. Of the commit
  guard: `OnlyTheHolderIsLetThrough`, `TheHolderIsLetThrough`, `AStaleLockSigns`, which are about every
  commit and lock; and of every commit that lands, in any interleaving, `CommitsAreLetThrough`: its hook let
  it through, by the lock the hook had read. By `HookInv` that is all a commit on its way has; the lock of
  the moment it lands may be another one. Where operations at work and commits wait
  for one another (`~Overlap`): `NothingLandsBesideALock`, `TheManifestIsSeeyas`, `ReportsAreTrue`. `GitInv`
  says that one commit is under way at a time, beside no operation but its own, so that what git and its hook
  have read is still so; `CommitInv` that from its change to its commit what an operation wants is in the
  tree and the index, and then in what git is about to make HEAD. For operations that also have a process
  each (`Serial`): `LockIsKept`, `OpenProjectIsKept`, `Implementation`. `LockInv` says that between an
  operation's read of the lock and its decision the lock is as read, that a live process the lock names has
  an operation that took it, that a release removes only what is its own, and that who commits does so
  beside no holder; `OpenInv` that while an open has the project, its manifest in the directory and in HEAD is
  that of an active project, and what an addition to it is about to write or commit is one too. The run
  `project_window` is why `Serial` asks for processes of their own.
- `ResumeProofs`. Unconditionally: `TypeCorrect`, and `MarksAreEarned` (a mark that nobody's session stands
  behind is that of a fresh tab whose `claude` died at once, and no other, even where runs forget each
  other's marks; by `EarnedInv`, which says it of what each run is about to write). For runs and closings
  that do not overlap (`~Overlap`): `LaunchesAreNew`, `Implementation`, `FailuresLoseOne`. `SerialInv` says
  that whoever is at it is alone but for a run whose question went to a window that is gone; that a session
  about to be saved was launched, in that sense; that what a run has read and added is the record on disk
  (otherwise its whole-file write would erase marks); and that what it chose from a briefing was not on it.
  `LossInv` bounds the unrecorded by a cardinality: each failure can add one, since a run has at most one
  session between launch and record.
- `AdoptionProofs`. Unconditionally: `TypeCorrect`, and `RecordsAreAlwaysEarned`: whatever overlaps, with
  the lock of a project in two hands, and even of a session adopted twice at once, a record in
  `adoptions.json` is of a copy made for that session and that project, which has made commits or whose own
  commit found nothing left to commit, and so is the record a revert works from. The second case is real
  (section 6). `Earned` adds the same of the records each operation has read, and of an adoption on
  its way to a record. For operations of which one is at work at a time, and with no session adopted twice
  at once (`~Overlap /\ ~AtOnce`): `Implementation`. `SerialInv` says that one at work is alone (`Alone`),
  that two adoptions under way are of two sessions (`Apart`), that what was read is what is on disk
  (`ReadsTrue`), who holds which lock (`Locks`), and, of each record and each adoption short of one, where
  its copy is listed and what became of its commits (`Recorded`, `Unrecorded`, `Committed`, `Undoes`): so
  that a record is made only after a commit was made or found nothing, and dropped only when what it made is
  gone, and a copy that is deleted has no work that stands.

Assumptions on the constants are the named ASSUMEs of the modules (the sets the policies are subsets of,
bounds that are natural numbers, `None` being none of the values); TLC evaluates them in every run. A
theorem about serial behaviour has that condition as its own ASSUME, in its statement.

Each proof has the same shape: TLC first checked the strengthened invariant on the instance; it is then
shown to hold at first, and to be kept by each action in a step of its own, one sub-step per conjunct the
action can disturb; the properties follow from it, and a refinement maps each action to a step of the
abstract specification or to a stutter.

The theorems named after no property of a run (`NoOldForkIsForgotten`, `FolderIsTrue`,
`TerminationNeedsAHandoff`, `PoolNeverOverflows`, `NoLockIsLeftBehind`, `CommitsAreLetThrough`,
`TheManifestIsSeeyas`, `MarksAreEarned`, `RecordsAreAlwaysEarned`, `ClearingFollowsAnEnd`, `CapturesAsRead`,
`NoRecordOfTomorrow`, those of `ScheduleProofs` and the three of the guard) state definitions of the proof
modules. The runs are of operations that take turns, where these say less than what is checked; with the
overlaps they are about, the instances are too large to explore to the end, and the proof is the evidence.

Only model-checked: the four liveness properties `StopAnswers`, `SignalEndsWorker`, `ClosureHappens` and
`ButtonComesBack`, since liveness under fairness and ENABLED are out of the prover's reach. No definition is
recursive, so nothing rests on induction over data.

## 6. What is not modelled

In the modelled parts:

- Daemon: daylight saving and days of unequal length, a clock that goes back, the wording of notices,
  reports and handoffs, `skipGeneration` (it changes what a dry run shows), outcome reports of the
  generation's cost, an `estado.json` that cannot be read. A lead-time notice or an attempt that is not
  recorded because the daemon threw or died first is made again: `TriesWithinBudget` and `LeadNoticesSpaced`
  are stated of a daemon that did neither (`Undisturbed`). The capture is one step of `DaemonPoll`, and
  `EndDay` has one day: a closing across midnight is only in the hazards.
- Forks: a `forks.json` that cannot be read for a moment counts as empty (`fork-registry.ts:91`), and the
  next write loses what was in it. Captures and adoptions each write it in their own module, not at once.
- Projects: one project, so no commit that spans two; an exception of `onBeforeLaunch`, as said above;
  creating a project; the audit and the hooks and files that `open` installs, on which neither lock nor
  manifest depends; a failing unlink or read in the release; a pid that is recycled between a holder and its
  release, as pid and procStart are one process here (`DaemonLock` has both).
- Resume: the lookup reads several folders in one step. Which sessions run at the moment is not modelled, so
  the panel may offer any handoff of its day. The application outlives its window only on macOS
  (`app/main.ts`).
- Adoption: whether the original session still runs and whether the project existed, which only refuse or
  create; the history of a project beyond what a revert asks of it. The cleanup spares the copies of
  adoptions under way, which are young. A transcript that cannot be deleted is left, and is off the list
  (`project-adopt-outcome.ts:22`).

What reading and modelling the code showed beside the findings, and no run checks:

- Two workers that start at the same moment both find no lock, both write it and both poll (`lock.ts:56`; TLC
  finds it once `SerialStarts` is dropped), though `docs/ESPECIFICACAO.md:98` asks for a single instance. A
  stop that has read the lock of a dead daemon removes that of one started since (`daemon-control.ts:144`;
  `StopsAlone`). A daemon that lost its lock, to another start or to a stop, goes on polling: nothing reads
  the lock again before it leaves its loop.
- The pid that a closing signals was read at discovery and goes without its procStart
  (`capture-session.ts:151-152`): a session that ended meanwhile, or was known to have ended, may have left
  it to another process, which is signalled.
- A snooze that is the first to touch `estado.json` after midnight rolls the day over
  (`schedule-adjustments.ts:82`), and the missed closing is not reported (`docs/ESPECIFICACAO.md:110` wants
  the daemon to tell; its rollover does).
- With `Overlap` two opens at once both take the lock of a project (`application/project-lock.ts:83`), and a
  commit that its hook let through while there was no lock lands after an open took it and launched its
  session (`verify-commit.ts:90`, and git moves HEAD only after the hook): `CommitsBesideLock` and
  `SingleWriter` hold of commits and operations that wait for one another.
- A restore that `open` does before it holds any lock undoes an archival between its write and its `git
  add`; an edit a session made to `seeya.json` is carried into HEAD by the next operation that means to
  write the manifest; a removal deletes `.seeya-lock` with the directory before it commits; `add-repo` takes
  no lock; a refused commit leaves the files staged.
- A commit without a session, beside a lock whose holder died, is signed as the session that held it
  (`AStaleLockSigns`: `decideCommitGuard` takes the session of the lock without asking whether the lock is
  live). The comment at `workspace-commit-guard.ts:20` and the unit test "passes a hand-made commit even
  with a STALE lock present, as unknown" say `unknown`.
- With `Overlap` the application and the command line, resuming at the same time, write over each other's
  marks: each reads `resumed.json` once and writes it whole after each session (`start-day.ts:225`).
- A window closed at a question of the resume leaves its loop waiting for ever, and a `resumeSelected` that
  is rejected leaves the button disabled (`useToday.ts:144`): `ButtonComesBack` is stated up to both. A
  session captured again on the day it was resumed stays marked (`pending-briefing.ts:46`).
- A session may be adopted into two projects at once (`AtOnce`): it is looked up when an adoption starts and
  recorded when it ends, hours later (`project-adopt.ts:72`). An adoption whose edits are undone by hand
  while its question is open is recorded without a commit (`commitAll` is a no-op when nothing staged differs
  from HEAD, `commit.ts:131`), though `project-revert-adoption.ts:92` takes that to be impossible, and its
  revert can then only answer that there is nothing to revert.
- With `Overlap` records and forks are lost to whole-file writes of `adoptions.json` and `forks.json`. A
  revert that dies between its commit and the removal of the record leaves an adoption that its own revert
  commit blocks from being reverted again (`project-revert-adoption.ts:272`).

Whole components, with the reason in PROJECT.json: early warnings (one writer, marked and then shown),
daemon ownership (a pure decision on what is installed), and those that are I/O, drawing, text or platform
code (discovery's parsing, storage's file system, generation's child process, process control, the renderer,
autostart, notifications, installation, git, command-line parsing). Of the application's shell only the flow
of the resume has steps that interleave over shared files; its other handlers call one engine operation
each. These are the larger part of the repository by lines, and what they could get wrong a test reaches
better than a model: that is why the map covers a small share of the code.

The hazards in PROJECT.json that no property covers carry a note that says why.
