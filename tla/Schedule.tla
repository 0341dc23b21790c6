------------------------------ MODULE Schedule ------------------------------
(***************************************************************************)
(* core/schedule.ts and the pure rules around it: the record estado.json    *)
(* keeps for one local day, what the user's adjustments do to it, and what *)
(* is due at an instant.  Instants and durations are numbers of one unit;  *)
(* a local day has DayLength of them.                                      *)
(***************************************************************************)
EXTENDS Naturals

CONSTANTS
  None,            \* null
  Session,         \* the sessions a capture may attempt
  DayLength,
  LeadTimes,       \* Config.leadTimesInMinutes
  Hysteresis,      \* Config.leadTimeHysteresisMinutes
  MaxAttempts,     \* Config.maxCaptureAttemptsPerSessionPerDay
  NotifyThreshold  \* NOTIFY_AFTER_CONSECUTIVE_CYCLE_FAILURES

ASSUME DayLengthAssumption == DayLength \in Nat \ {0}
ASSUME LimitAssumption == /\ LeadTimes \subseteq Nat
                          /\ {Hysteresis, MaxAttempts, NotifyThreshold} \subseteq Nat

Time     == Nat
Day      == Nat
NoneOr(S) == S \cup {None}

DayState == [day                             : Day,
             skipped                         : BOOLEAN,
             snoozeMinutesTotal              : Nat,
             firedLeadTimesInMinutes         : SUBSET LeadTimes,
             firedLeadTimesEffectiveEndOfDay : NoneOr(Time),
             lastLeadTimeWarningNoticeAt     : NoneOr(Time),
             endOfDayFired                   : BOOLEAN,
             captureAttemptsToday            : [Session -> Nat],
             consecutiveCycleFailures        : Nat]

ASSUME NoneAssumption == None \notin Nat /\ None \notin DayState

localDayString(t) == t \div DayLength

\* Mutant: no counter stands for no attempt.
emptyDayState_NoCounters(day) == [day                             |-> day,
                                  skipped                         |-> FALSE,
                                  snoozeMinutesTotal              |-> 0,
                                  firedLeadTimesInMinutes         |-> {},
                                  firedLeadTimesEffectiveEndOfDay |-> None,
                                  lastLeadTimeWarningNoticeAt     |-> None,
                                  endOfDayFired                   |-> FALSE,
                                  captureAttemptsToday            |-> [s \in {} |-> 0],
                                  consecutiveCycleFailures        |-> 0]

emptyDayState(day) == [day                             |-> day,
                       skipped                         |-> FALSE,
                       snoozeMinutesTotal              |-> 0,
                       firedLeadTimesInMinutes         |-> {},
                       firedLeadTimesEffectiveEndOfDay |-> None,
                       lastLeadTimeWarningNoticeAt     |-> None,
                       endOfDayFired                   |-> FALSE,
                       captureAttemptsToday            |-> [s \in Session |-> 0],
                       consecutiveCycleFailures        |-> 0]

\* Mutant: the new day starts with what was snoozed yesterday.
resetIfNewDay_KeepsSnooze(state, today) ==
  IF state.day = today THEN state
  ELSE [emptyDayState(today) EXCEPT !.consecutiveCycleFailures = state.consecutiveCycleFailures,
                                    !.snoozeMinutesTotal = state.snoozeMinutesTotal]

\* A day the state does not belong to starts empty; only the failure streak
\* of the daemon crosses midnight.
resetIfNewDay(state, today) ==
  IF state.day = today THEN state
  ELSE [emptyDayState(today) EXCEPT !.consecutiveCycleFailures = state.consecutiveCycleFailures]

-----------------------------------------------------------------------------
(* Adjustments. *)

\* Mutant: a snooze reopens a day that has closed.
applySnooze_Reopens(state, today, minutes) ==
  [resetIfNewDay(state, today) EXCEPT !.snoozeMinutesTotal = @ + minutes, !.endOfDayFired = FALSE]

applySnooze(state, today, minutes) ==
  [resetIfNewDay(state, today) EXCEPT !.snoozeMinutesTotal = @ + minutes]

resetSnooze(state, today) == [resetIfNewDay(state, today) EXCEPT !.snoozeMinutesTotal = 0]

applySkipToday(state, today) == [resetIfNewDay(state, today) EXCEPT !.skipped = TRUE]

resolveEndOfDayInstant(endOfDayTime, t) == localDayString(t) * DayLength + endOfDayTime

computeEffectiveEndOfDay(endOfDayTime, minutes, t) ==
  resolveEndOfDayInstant(endOfDayTime, t) + minutes

\* decideUndoSnooze = 'available'.
UndoAvailable(endOfDayTime, state, t) ==
  LET current == resetIfNewDay(state, localDayString(t)) IN
  /\ endOfDayTime # None
  /\ current.snoozeMinutesTotal > 0
  /\ ~current.skipped
  /\ ~current.endOfDayFired
  /\ t < resolveEndOfDayInstant(endOfDayTime, t)

-----------------------------------------------------------------------------
(* What is due. *)

\* Mutant: a lead time that fired has fired, whatever the deadline was.
resolveFiredLeadTimes_AnyDeadline(state, effective) == state.firedLeadTimesInMinutes

\* The fired list counts for the deadline it was recorded against.
resolveFiredLeadTimes(state, effective) ==
  IF state.firedLeadTimesEffectiveEndOfDay \in {None, effective}
  THEN state.firedLeadTimesInMinutes
  ELSE {}

DueLeadTimes(fired, effective, t) == {l \in LeadTimes \ fired : t + l >= effective}

\* The largest one that is due, as a set of at most one.
findDueLeadTime(fired, effective, t) ==
  {l \in DueLeadTimes(fired, effective, t) :
     \A k \in DueLeadTimes(fired, effective, t) : k <= l}

\* Mutant: the deadline is asked before the skip.
decideSchedule_DeadlineFirst(endOfDayTime, state, t) ==
  LET current   == resetIfNewDay(state, localDayString(t))
      effective == computeEffectiveEndOfDay(endOfDayTime, current.snoozeMinutesTotal, t)
  IN  IF endOfDayTime # None /\ ~current.endOfDayFired /\ t >= effective
      THEN [kind |-> "endOfDay", delay |-> t - effective,
            nextState |-> [current EXCEPT !.endOfDayFired = TRUE]]
      ELSE [kind |-> "waiting", nextState |-> current]

decideSchedule(endOfDayTime, state, t) ==
  LET current   == resetIfNewDay(state, localDayString(t))
      effective == computeEffectiveEndOfDay(endOfDayTime, current.snoozeMinutesTotal, t)
      fired     == resolveFiredLeadTimes(current, effective)
  IN  CASE endOfDayTime = None -> [kind |-> "disabled", nextState |-> current]
        [] endOfDayTime # None /\ current.skipped -> [kind |-> "skipped", nextState |-> current]
        [] endOfDayTime # None /\ ~current.skipped /\ current.endOfDayFired ->
             [kind |-> "alreadyEnded", nextState |-> current]
        [] OTHER ->
             IF t >= effective
             THEN [kind |-> "endOfDay", delay |-> t - effective,
                   nextState |-> [current EXCEPT !.endOfDayFired = TRUE]]
             ELSE IF DueLeadTimes(fired, effective, t) = {}
             THEN [kind |-> "waiting", nextState |-> current]
             ELSE [kind |-> "leadTimeWarning",
                   nextState |-> [current EXCEPT
                     !.firedLeadTimesInMinutes = fired \cup findDueLeadTime(fired, effective, t),
                     !.firedLeadTimesEffectiveEndOfDay = effective]]

shouldSuppressLeadTimeWarning(lastFiredAt, t) ==
  lastFiredAt # None /\ t - lastFiredAt < Hysteresis

-----------------------------------------------------------------------------
(* The counters of the day. *)

\* Mutant: the ceiling is noticed one attempt late.
sessionsExhaustedToday_OffByOne(state) ==
  {s \in Session : state.captureAttemptsToday[s] > MaxAttempts}

sessionsExhaustedToday(state) == {s \in Session : state.captureAttemptsToday[s] >= MaxAttempts}

recordCaptureAttempts(state, nonModel) ==
  [state EXCEPT !.captureAttemptsToday =
     [s \in Session |-> IF s \in nonModel THEN @[s] + 1 ELSE @[s]]]

recordCycleFailure(state) == [state EXCEPT !.consecutiveCycleFailures = @ + 1]

recordCycleSuccess(state) == [state EXCEPT !.consecutiveCycleFailures = 0]

\* Mutant: every failing cycle past the threshold notifies.
ShouldNotifyFailure_Beyond(state) == state.consecutiveCycleFailures >= NotifyThreshold

\* On exactly the failure that reaches the threshold.
ShouldNotifyFailure(state) == state.consecutiveCycleFailures = NotifyThreshold
=============================================================================
