----------------------------- MODULE DaemonPoll -----------------------------
(***************************************************************************)
(* The daemon's poll (scheduler/poll.ts, loop.ts, health.ts) and the        *)
(* adjustments that run in other processes (application/                    *)
(* schedule-adjustments.ts, config-update.ts), around the one file they     *)
(* share, estado.json.  Nobody locks it: each reads the whole record,       *)
(* awaits, and renames a whole record over whatever is there by then.  The  *)
(* daemon keeps what it read across a capture of minutes.                   *)
(***************************************************************************)
EXTENDS Schedule

CONSTANTS
  Adjuster,      \* requests to adjust the schedule, each made at most once
  Adjustments,   \* the kinds of request there may be
  EndTimes,      \* the values of endOfDayTime
  SnoozeMinutes, \* the increments the interfaces offer
  RetryBudget,   \* ACTIVE_TURN_RETRY_BUDGET_MS
  MaxTime,       \* bound: the clock stops here
  MaxThrows,     \* bound: steps of the daemon that throw
  MaxCrashes,    \* bound: deaths of the daemon, each followed by a new one
  Overlap        \* environment: an adjustment and a poll may overlap

AdjustmentKinds == {"snooze", "skip", "undo", "config"}

ASSUME AdjustmentAssumption == Adjustments \subseteq AdjustmentKinds
ASSUME TimesAssumption ==
  EndTimes \subseteq NoneOr(Nat) /\ EndTimes # {} /\ SnoozeMinutes \subseteq Nat
ASSUME BoundAssumption == {RetryBudget, MaxTime, MaxThrows, MaxCrashes} \subseteq Nat
ASSUME OverlapAssumption == Overlap \in BOOLEAN
ASSUME NoneRecordAssumption == None \notin [day : Nat, closed : BOOLEAN, skipped : BOOLEAN]

VARIABLES
  now,       \* the wall clock
  config,    \* config.json: its endOfDayTime
  file,      \* estado.json, None while it does not exist
  dpc,       \* where the daemon's loop is
  conf,      \* the configuration this poll has read
  at,        \* the instant this poll has read from the clock
  seen,      \* the record the daemon has read, and not yet written back
  result,    \* what the capture of this poll returned
  apc,       \* where each request is
  req,       \* what each request has read: its kind, increment, configuration, instant, record
  faults,    \* the throws and crashes so far
  asked,     \* history: the adjustments the user was last told of, and their day
  announced, \* history: the end-of-day notices, per day
  tries,     \* history: the attempts no model's handoff came of, per day and session
  shown,     \* history: the last lead-time notice shown
  warned,    \* history: the deadlines and lead times a notice was shown or swallowed for
  unhealthy  \* history: this streak of failures has been reported

poll     == <<dpc, conf, at, seen, result>>
requests == <<apc, req>>
history  == <<asked, announced, tries, shown, warned, unhealthy>>
vars     == <<now, config, file, poll, requests, faults, history>>

Days == 0..localDayString(MaxTime)

Window   == {"missed", "saveReset", "decide", "warnSave", "endDay", "closeSave"} \* seen is held
PollState == {"idle", "clock", "read", "announce", "success", "successSave",
              "failRead", "failSave", "failNotify"} \cup Window
RequestState == {"none", "clock", "read", "save", "done"}
Active(a) == apc[a] \in {"clock", "read", "save"}

Result  == [wasted : SUBSET Session, active : BOOLEAN]
Request == [kind : AdjustmentKinds, minutes : Nat, conf : NoneOr(Nat), at : Time, seen : NoneOr(DayState)]
Asked   == [day : Day, minutes : Nat, skipped : BOOLEAN]

NothingAsked(day) == [day |-> day, minutes |-> 0, skipped |-> FALSE]

TypeOK ==
  /\ now \in Time
  /\ config \in NoneOr(Nat)
  /\ file \in NoneOr(DayState)
  /\ dpc \in PollState
  /\ conf \in NoneOr(Nat)
  /\ at \in Time
  /\ seen \in NoneOr(DayState)
  /\ result \in Result
  /\ apc \in [Adjuster -> RequestState]
  /\ req \in [Adjuster -> Request]
  /\ faults \in [throws : Nat, crashes : Nat]
  /\ asked \in Asked
  /\ announced \in [Days -> Nat]
  /\ tries \in [Days -> [Session -> Nat]]
  /\ shown \in NoneOr(Time)
  /\ warned \subseteq Time \X LeadTimes
  /\ unhealthy \in BOOLEAN

NoRequest == [kind |-> "skip", minutes |-> 0, conf |-> None, at |-> 0, seen |-> None]

NoResult == [wasted |-> {}, active |-> FALSE]

Init ==
  /\ now = 0
  /\ config \in EndTimes
  /\ file = None
  /\ dpc = "idle"
  /\ conf = None
  /\ at = 0
  /\ seen = None
  /\ result = NoResult
  /\ apc = [a \in Adjuster |-> "none"]
  /\ req = [a \in Adjuster |-> NoRequest]
  /\ faults = [throws |-> 0, crashes |-> 0]
  /\ asked = NothingAsked(0)
  /\ announced = [d \in Days |-> 0]
  /\ tries = [d \in Days |-> [s \in Session |-> 0]]
  /\ shown = None
  /\ warned = {}
  /\ unhealthy = FALSE

Tick ==
  /\ now < MaxTime
  /\ now' = now + 1
  /\ UNCHANGED <<config, file, poll, requests, faults, history>>

\* readState() ?? emptyDayState(today)
StoredOr(day) == IF file = None THEN emptyDayState(day) ELSE file

-----------------------------------------------------------------------------
(* pollOnce. *)

Goto(pc) == dpc' = pc

\* pollOnce, or the bookkeeping after it, is over: nothing it read survives.
Return(pc) == /\ Goto(pc)
              /\ conf' = None
              /\ at' = 0
              /\ seen' = None
              /\ result' = NoResult

MayPoll   == Overlap \/ \A a \in Adjuster : ~Active(a)
MayAdjust == Overlap \/ (dpc = "idle" /\ \A a \in Adjuster : ~Active(a))

\* The configuration is read, and the sessions and early warnings looked at,
\* before the clock is.
BeginPoll ==
  /\ dpc = "idle"
  /\ MayPoll
  /\ conf' = config
  /\ Goto("clock")
  /\ UNCHANGED <<now, config, file, at, seen, result, requests, faults, history>>

ReadClock ==
  /\ dpc = "clock"
  /\ at' = now
  /\ Goto("read")
  /\ UNCHANGED <<now, config, file, conf, seen, result, requests, faults, history>>

today == localDayString(at)

missedYesterdayClosure(stored) == conf # None /\ ~stored.endOfDayFired /\ ~stored.skipped

ReadState ==
  /\ dpc = "read"
  /\ seen' = StoredOr(today)
  /\ Goto(IF seen'.day = today THEN "decide"
          ELSE IF missedYesterdayClosure(seen') THEN "missed" ELSE "saveReset")
  /\ UNCHANGED <<now, config, file, conf, at, result, requests, faults, history>>

\* The notice of a day that was not closed.
NotifyMissed ==
  /\ dpc = "missed"
  /\ Goto("saveReset")
  /\ UNCHANGED <<now, config, file, conf, at, seen, result, requests, faults, history>>

\* The record the rest of the poll works from: the day it belongs to is over
\* at most once.
persisted == resetIfNewDay(seen, today)

SaveReset ==
  /\ dpc = "saveReset"
  /\ file' = persisted
  /\ seen' = persisted
  /\ Goto("decide")
  /\ UNCHANGED <<now, config, conf, at, result, requests, faults, history>>

decision == decideSchedule(conf, seen, at)

deadline == computeEffectiveEndOfDay(conf, seen.snoozeMinutesTotal, at)

\* disabled, skipped, alreadyEnded, waiting: nothing is written.
Quiet ==
  /\ dpc = "decide"
  /\ decision.kind \notin {"leadTimeWarning", "endOfDay"}
  /\ Return("success")
  /\ UNCHANGED <<now, config, file, requests, faults, history>>

\* handleLeadTimeWarning: shown or swallowed ...
WarnNotify ==
  /\ dpc = "decide"
  /\ decision.kind = "leadTimeWarning"
  /\ shown' = IF shouldSuppressLeadTimeWarning(seen.lastLeadTimeWarningNoticeAt, at) THEN shown ELSE at
  /\ warned' = warned \cup {<<deadline, l>> : l \in decision.nextState.firedLeadTimesInMinutes}
  /\ Goto("warnSave")
  /\ UNCHANGED <<now, config, file, conf, at, seen, result, requests, faults,
                 asked, announced, tries, unhealthy>>

\* Mutant: the rule is marked, the notice leaves no stamp.
WarnSave_NoStamp ==
  /\ dpc = "warnSave"
  /\ file' = decision.nextState
  /\ Return("success")
  /\ UNCHANGED <<now, config, requests, faults, history>>

\* ... and stamped either way.
WarnSave ==
  /\ dpc = "warnSave"
  /\ file' = [decision.nextState EXCEPT !.lastLeadTimeWarningNoticeAt = at]
  /\ Return("success")
  /\ UNCHANGED <<now, config, requests, faults, history>>

\* runEndOfDay: endDay lists the sessions ...
BeginEndDay ==
  /\ dpc = "decide"
  /\ decision.kind = "endOfDay"
  /\ Goto("endDay")
  /\ UNCHANGED <<now, config, file, conf, at, seen, result, requests, faults, history>>

CountTries(wasted) ==
  tries' = [tries EXCEPT ![today] = [s \in Session |-> IF s \in wasted THEN @[s] + 1 ELSE @[s]]]

\* ... reads the clock again, for the folder it writes to, and captures the
\* sessions with attempts left.  Some fail or come back without the model;
\* some captured one may be in the middle of a turn.
EndDay ==
  /\ dpc = "endDay"
  /\ \E attempted \in SUBSET (Session \ sessionsExhaustedToday(seen)) :
       \E wasted \in SUBSET attempted, active \in BOOLEAN :
         /\ active => attempted # {}
         /\ result' = [wasted |-> wasted, active |-> active]
         /\ CountTries(wasted)
  /\ Goto("closeSave")
  /\ UNCHANGED <<now, config, file, conf, at, seen, requests, faults,
                 asked, announced, shown, warned, unhealthy>>

\* Mutant: a turn that never ends keeps the day open.
finalize_NoBudget == ~result.active

finalize == ~result.active \/ decision.delay >= RetryBudget

\* Mutant: the mark of the closing is left out of what is saved.
CloseSave_Unmarked ==
  /\ dpc = "closeSave"
  /\ file' = recordCaptureAttempts(seen, result.wasted)
  /\ IF finalize THEN Goto("announce") /\ UNCHANGED <<conf, at, seen, result>> ELSE Return("success")
  /\ UNCHANGED <<now, config, requests, faults, history>>

\* Either the day is closed, or only the attempts are kept and the next poll
\* decides the same again.
CloseSave ==
  /\ dpc = "closeSave"
  /\ LET withAttempts == recordCaptureAttempts(seen, result.wasted)
     IN  file' = IF finalize THEN [withAttempts EXCEPT !.endOfDayFired = TRUE] ELSE withAttempts
  /\ IF finalize THEN Goto("announce") /\ UNCHANGED <<conf, at, seen, result>> ELSE Return("success")
  /\ UNCHANGED <<now, config, requests, faults, history>>

Announce ==
  /\ dpc = "announce"
  /\ announced' = [announced EXCEPT ![today] = @ + 1]
  /\ Return("success")
  /\ UNCHANGED <<now, config, file, requests, faults,
                 asked, tries, shown, warned, unhealthy>>

-----------------------------------------------------------------------------
(* recordPollSuccess and recordPollFailure. *)

SuccessRead ==
  /\ dpc = "success"
  /\ unhealthy' = FALSE
  /\ IF StoredOr(localDayString(now)).consecutiveCycleFailures = 0
     THEN Return("idle")
     ELSE /\ seen' = StoredOr(localDayString(now))
          /\ Goto("successSave")
          /\ UNCHANGED <<conf, at, result>>
  /\ UNCHANGED <<now, config, file, requests, faults,
                 asked, announced, tries, shown, warned>>

SuccessSave ==
  /\ dpc = "successSave"
  /\ file' = recordCycleSuccess(seen)
  /\ Return("idle")
  /\ UNCHANGED <<now, config, requests, faults, history>>

FailRead ==
  /\ dpc = "failRead"
  /\ seen' = StoredOr(localDayString(now))
  /\ Goto("failSave")
  /\ UNCHANGED <<now, config, file, conf, at, result, requests, faults, history>>

FailSave ==
  /\ dpc = "failSave"
  /\ file' = recordCycleFailure(seen)
  /\ Return(IF ShouldNotifyFailure(file') THEN "failNotify" ELSE "idle")
  /\ UNCHANGED <<now, config, requests, faults, history>>

FailNotify ==
  /\ dpc = "failNotify"
  /\ unhealthy' = TRUE
  /\ Return("idle")
  /\ UNCHANGED <<now, config, file, requests, faults,
                 asked, announced, tries, shown, warned>>

\* A step that reads or writes, discovers or captures throws: a poll that does
\* is recorded as failed, and what fails while recording is given up.
\* Notifying cannot throw.
Throw ==
  /\ faults.throws < MaxThrows
  /\ faults' = [faults EXCEPT !.throws = @ + 1]
  /\ \/ dpc \in {"clock", "read", "saveReset", "warnSave", "endDay", "closeSave"} /\ Return("failRead")
     \/ dpc \in {"success", "successSave", "failRead", "failSave"} /\ Return("idle")
  /\ UNCHANGED <<now, config, file, requests, history>>

\* The process dies; its successor starts with nothing but the files.
Crash ==
  /\ faults.crashes < MaxCrashes
  /\ dpc # "idle"
  /\ faults' = [faults EXCEPT !.crashes = @ + 1]
  /\ Return("idle")
  /\ UNCHANGED <<now, config, file, requests, history>>

-----------------------------------------------------------------------------
(* snoozeToday, skipToday, undoSnoozeToday and saveConfigChange. *)

RequestGoto(a, pc) == apc' = [apc EXCEPT ![a] = pc]

Answer(a) == RequestGoto(a, "done") /\ req' = [req EXCEPT ![a] = NoRequest]

\* The caller has read the configuration; a change of it is saved first.  What is
\* read there only tells whether the time changes (config-update.ts:50-52), so the
\* read and the save are one step: no time it saves comes from the one it read.
AdjustBegin(a) ==
  /\ apc[a] = "none"
  /\ MayAdjust
  /\ \E kind \in Adjustments, minutes \in SnoozeMinutes :
       /\ req' = [req EXCEPT ![a].kind = kind, ![a].minutes = minutes, ![a].conf = config]
       /\ IF kind = "config" THEN config' \in EndTimes \ {config} ELSE UNCHANGED config
  /\ RequestGoto(a, "clock")
  /\ UNCHANGED <<now, file, poll, faults, history>>

AdjustClock(a) ==
  /\ apc[a] = "clock"
  /\ req' = [req EXCEPT ![a].at = now]
  /\ RequestGoto(a, "read")
  /\ UNCHANGED <<now, config, file, poll, faults, history>>

\* undo is refused unless it is available; a changed time has nothing to clear
\* unless today has a snooze.
Proceeds(r, stored) ==
  CASE r.kind = "undo"   -> UndoAvailable(r.conf, stored, r.at)
    [] r.kind = "config" -> stored.day = localDayString(r.at) /\ stored.snoozeMinutesTotal # 0
    [] r.kind \in {"snooze", "skip"} -> TRUE

AdjustRead(a) ==
  /\ apc[a] = "read"
  /\ LET stored == StoredOr(localDayString(req[a].at))
     IN  IF Proceeds(req[a], stored)
         THEN RequestGoto(a, "save") /\ req' = [req EXCEPT ![a].seen = stored]
         ELSE Answer(a)
  /\ UNCHANGED <<now, config, file, poll, faults, history>>

Adjusted(r) ==
  CASE r.kind = "snooze" -> applySnooze(r.seen, localDayString(r.at), r.minutes)
    [] r.kind = "skip"   -> applySkipToday(r.seen, localDayString(r.at))
    [] r.kind \in {"undo", "config"} -> resetSnooze(r.seen, localDayString(r.at))

\* What the user is told once the request returns.
Told(r) ==
  LET before == IF asked.day = localDayString(r.at) THEN asked ELSE NothingAsked(localDayString(r.at))
  IN  CASE r.kind = "snooze" -> [before EXCEPT !.minutes = @ + r.minutes]
        [] r.kind = "skip"   -> [before EXCEPT !.skipped = TRUE]
        [] r.kind \in {"undo", "config"} -> [before EXCEPT !.minutes = 0]

AdjustSave(a) ==
  /\ apc[a] = "save"
  /\ file' = Adjusted(req[a])
  /\ asked' = Told(req[a])
  /\ Answer(a)
  /\ UNCHANGED <<now, config, poll, faults, announced, tries, shown, warned, unhealthy>>

\* A request fails half-way, or its process dies: the user is told nothing,
\* and a configuration already changed stays changed.
AdjustThrow(a) ==
  /\ Active(a)
  /\ faults.throws < MaxThrows
  /\ faults' = [faults EXCEPT !.throws = @ + 1]
  /\ Answer(a)
  /\ UNCHANGED <<now, config, file, poll, history>>

-----------------------------------------------------------------------------
PollStep == \/ BeginPoll \/ ReadClock \/ ReadState \/ NotifyMissed \/ SaveReset
            \/ Quiet \/ WarnNotify \/ WarnSave
            \/ BeginEndDay \/ EndDay \/ CloseSave \/ Announce
            \/ SuccessRead \/ SuccessSave \/ FailRead \/ FailSave \/ FailNotify

AdjustStep(a) == AdjustBegin(a) \/ AdjustClock(a) \/ AdjustRead(a) \/ AdjustSave(a)

Next == \/ Tick \/ PollStep \/ Throw \/ Crash
        \/ \E a \in Adjuster : AdjustStep(a) \/ AdjustThrow(a)

Spec == Init /\ [][Next]_vars

\* The loop has no end, a request that began is executed, and time passes.
FairSpec == /\ Spec
            /\ WF_vars(PollStep)
            /\ WF_vars(Tick)
            /\ \A a \in Adjuster : WF_vars(Active(a) /\ AdjustStep(a))

-----------------------------------------------------------------------------
(* Properties. *)

\* The record as ClosingDay knows it.
record == IF file = None THEN None
          ELSE [day |-> file.day, closed |-> file.endOfDayFired, skipped |-> file.skipped]

Abstract == INSTANCE ClosingDay

\* With adjustments and polls one at a time, through crashes and errors: a day
\* closes once, never once skipped, and nothing reopens it.
ImplementsClosingDay == Abstract!Spec

\* D-006: an adjustment the user was told of stays in estado.json, through
\* polls, retries of the capture and restarts, until the user withdraws it or
\* the day is over, and no other day inherits it.
AdjustmentsKept ==
  file # None =>
    LET inForce == IF asked.day = file.day THEN asked ELSE NothingAsked(file.day)
    IN  file.snoozeMinutesTotal = inForce.minutes /\ file.skipped = inForce.skipped

\* A capture starts only once the deadline, as the user last set it, has
\* passed, and never on a day the user was told is skipped.
CaptureOnlyWhenDue ==
  [][dpc = "endDay" /\ dpc' = "closeSave" =>
       LET inForce == IF asked.day = today THEN asked ELSE NothingAsked(today)
       IN  /\ config # None
           /\ ~inForce.skipped
           /\ at >= computeEffectiveEndOfDay(config, inForce.minutes, at)]_vars

\* The result of the day is notified once, whatever crashes or throws: the day
\* is marked closed before the notice goes out.
AnnouncedOnce == \A d \in Days : announced[d] <= 1

\* An attempt, or a notice, that is not recorded because the daemon threw or
\* died first is made again: the next two hold of a daemon that did neither.
Undisturbed == faults.throws = 0 /\ faults.crashes = 0

\* captureAttemptsToday: no session costs more attempts in a day than the
\* ceiling, however often the closing is retried.
TriesWithinBudget ==
  Undisturbed => \A d \in Days, s \in Session : tries[d][s] <= MaxAttempts

\* Two lead-time notices shown the same day are at least the hysteresis apart.
LeadNoticesSpaced ==
  [][/\ Undisturbed
     /\ shown # None /\ shown' # shown
     /\ localDayString(shown) = localDayString(shown')
     => shown' - shown >= Hysteresis]_vars

\* "Prazo novo, aviso novo": a poll that leaves the person in peace while a
\* lead time of the deadline has come has already warned for it, for this very
\* deadline: with a notice, or, within the hysteresis of the last one, by marking
\* it as warned without one.
EveryDeadlineWarned ==
  [][dpc = "decide" /\ dpc' = "success" /\ decision.kind = "waiting" =>
       \A l \in LeadTimes : at + l >= deadline => <<deadline, l>> \in warned]_vars

\* The daemon says it is unhealthy once per streak of failures.
UnhealthyToldOnce == [][dpc = "failNotify" /\ dpc' = "idle" /\ unhealthy' => ~unhealthy]_vars

\* A deadline that passes closes its day, unless the day ends or the user moves
\* the deadline first: a turn that never ends only delays it.
DueNow(d) ==
  LET inForce == IF asked.day = d THEN asked ELSE NothingAsked(d)
  IN  /\ localDayString(now) = d
      /\ config # None
      /\ ~inForce.skipped
      /\ now >= computeEffectiveEndOfDay(config, inForce.minutes, now)

ClosedNow(d) == file # None /\ file.day = d /\ file.endOfDayFired

ClosureHappens == \A d \in Days : DueNow(d) ~> ClosedNow(d) \/ ~DueNow(d)
=============================================================================
