-------------------------- MODULE DaemonPollProofs --------------------------
(***************************************************************************)
(* Proofs about DaemonPoll, for any length of the day, lead times,          *)
(* sessions, requests and bounds.                                           *)
(***************************************************************************)
EXTENDS DaemonPoll, ScheduleProofs, TLAPS

(* --------------------------- type correctness --------------------------- *)

\* What is stored, or a fresh record, is a record.
LEMMA StoredType ==
  ASSUME file \in NoneOr(DayState), NEW d \in Day
  PROVE  StoredOr(d) \in DayState
BY EmptyType DEF StoredOr, NoneOr

\* The type invariant by its parts, strengthened: a step that works from a
\* record has one, of the day and the decision the step is for.
Decided == {"decide", "warnSave", "endDay", "closeSave"}
Held    == Window \cup {"successSave", "failSave"}

FilesOK == now \in Time /\ config \in NoneOr(Nat) /\ file \in NoneOr(DayState)

PollOK ==
  /\ dpc \in PollState
  /\ conf \in NoneOr(Nat)
  /\ at \in Time
  /\ seen \in NoneOr(DayState)
  /\ result \in Result
  /\ dpc \in Held => seen # None
  /\ dpc \in Decided => seen.day = today
  /\ dpc = "warnSave" => decision.kind = "leadTimeWarning"
  /\ dpc \in {"endDay", "closeSave"} => decision.kind = "endOfDay"

RequestsOK ==
  /\ apc \in [Adjuster -> RequestState]
  /\ req \in [Adjuster -> Request]
  /\ \A a \in Adjuster : apc[a] = "save" => req[a].seen # None

HistoryOK ==
  /\ asked \in Asked
  /\ announced \in [Days -> Nat]
  /\ tries \in [Days -> [Session -> Nat]]
  /\ shown \in NoneOr(Time)
  /\ warned \subseteq Time \X LeadTimes
  /\ unhealthy \in BOOLEAN

FaultsOK == faults \in [throws : Nat, crashes : Nat]

TInv == FilesOK /\ PollOK /\ RequestsOK /\ HistoryOK /\ FaultsOK

LEMMA TInvTypes == TInv => TypeOK
BY DEF TInv, TypeOK, FilesOK, PollOK, RequestsOK, HistoryOK, FaultsOK

LEMMA InitTInv == Init => TInv
<1> SUFFICES ASSUME Init PROVE TInv
  OBVIOUS
<1>1. FilesOK
  BY TimesAssumption DEF Init, FilesOK, NoneOr, Time
<1>2. PollOK
  BY DEF Init, PollOK, NoResult, Result, NoneOr, Time, PollState, Held, Window, Decided
<1>3. RequestsOK
  BY DEF Init, RequestsOK, NoRequest, Request, NoneOr, Time, RequestState, AdjustmentKinds
<1>4. HistoryOK
  BY DEF Init, HistoryOK, NothingAsked, Asked, NoneOr, Time, Day
<1>5. FaultsOK
  BY DEF Init, FaultsOK
<1> QED
  BY <1>1, <1>2, <1>3, <1>4, <1>5 DEF TInv

\* What a request writes is a record of its day.
LEMMA AdjustedType ==
  ASSUME RequestsOK, NEW a \in Adjuster, apc[a] = "save"
  PROVE  /\ Adjusted(req[a]) \in DayState
         /\ Adjusted(req[a]).day = localDayString(req[a].at)
<1>1. /\ req[a].seen \in DayState
      /\ localDayString(req[a].at) \in Day
      /\ req[a].minutes \in Nat
      /\ req[a].kind \in AdjustmentKinds
  BY DayType DEF RequestsOK, Request, NoneOr
<1> DEFINE r == resetIfNewDay(req[a].seen, localDayString(req[a].at))
<1>2. r \in DayState /\ r.day = localDayString(req[a].at)
  BY <1>1, ResetFacts
<1>3. Adjusted(req[a]) \in {[r EXCEPT !.snoozeMinutesTotal = @ + req[a].minutes],
                            [r EXCEPT !.snoozeMinutesTotal = 0], [r EXCEPT !.skipped = TRUE]}
  BY <1>1 DEF Adjusted, applySnooze, resetSnooze, applySkipToday, AdjustmentKinds
<1> HIDE DEF r
<1>4. \A n \in Nat : [r EXCEPT !.snoozeMinutesTotal = n] \in DayState
  BY <1>2 DEF DayState
<1>5. [r EXCEPT !.skipped = TRUE] \in DayState
  BY <1>2 DEF DayState
<1>a. r.snoozeMinutesTotal \in Nat
  BY <1>2 DEF DayState
<1>b. r.snoozeMinutesTotal + req[a].minutes \in Nat
  BY <1>1, <1>a
<1>6. \A x \in {[r EXCEPT !.snoozeMinutesTotal = @ + req[a].minutes],
                [r EXCEPT !.snoozeMinutesTotal = 0], [r EXCEPT !.skipped = TRUE]} :
        x \in DayState /\ x.day = localDayString(req[a].at)
  BY <1>2, <1>4, <1>5, <1>b DEF DayState
<1> QED
  BY <1>3, <1>6

\* What the poll looks at holds still while it does.
LEMMA TodayKept == UNCHANGED at => today' = today
BY DEF today

LEMMA DecisionKept == UNCHANGED <<conf, seen, at>> => decision' = decision
BY DEF decision

\* When the poll returns there is nothing to hold.
LEMMA ReturnOK ==
  ASSUME NEW pc \in PollState \ (Held \cup Decided), Return(pc)
  PROVE  PollOK'
BY DEF Return, Goto, PollOK, NoResult, Result, NoneOr, Time, PollState, Window, Held, Decided

LEMMA RequestsKept == RequestsOK /\ UNCHANGED requests => RequestsOK'
BY DEF RequestsOK, requests

LEMMA HistoryKept == HistoryOK /\ UNCHANGED history => HistoryOK'
BY DEF HistoryOK, history

\* Counting one more keeps the counters numbers.
LEMMA CountOne ==
  ASSUME NEW D, NEW f \in [D -> Nat], NEW d
  PROVE  [f EXCEPT ![d] = @ + 1] \in [D -> Nat]
<1>1. \A x \in D : [f EXCEPT ![d] = @ + 1][x] \in Nat
  <2> TAKE x \in D
  <2>1. f[x] \in Nat /\ f[x] + 1 \in Nat
    OBVIOUS
  <2> QED
    BY <2>1
<1> QED
  BY <1>1

\* The deadline of a poll that has one is an instant.
LEMMA DeadlineType ==
  ASSUME NEW c \in Nat, NEW n \in Nat, NEW t \in Time
  PROVE  computeEffectiveEndOfDay(c, n, t) \in Time
<1>1. localDayString(t) * DayLength \in Nat
  BY DayType, DayLengthAssumption DEF Day
<1> QED
  BY <1>1 DEF computeEffectiveEndOfDay, resolveEndOfDayInstant, Time

\* No step of the poll or of its bookkeeping leaves the types.
LEMMA PollTInv == ASSUME TInv, PollStep PROVE TInv'
<1>0. /\ today \in Day
      /\ localDayString(now) \in Day
  BY DayType DEF today, TInv, PollOK, FilesOK
<1>a. RequestsOK' /\ FaultsOK' /\ now' = now /\ config' = config
  BY RequestsKept
  DEF TInv, FaultsOK, PollStep, BeginPoll, ReadClock, ReadState, NotifyMissed, SaveReset, Quiet,
      WarnNotify, WarnSave, BeginEndDay, EndDay, CloseSave, Announce, SuccessRead, SuccessSave,
      FailRead, FailSave, FailNotify
<1>b. SUFFICES file' \in NoneOr(DayState) /\ PollOK' /\ HistoryOK'
  BY <1>a DEF TInv, FilesOK
<1> USE DEF TInv
<1>1. CASE BeginPoll
  BY <1>1, HistoryKept DEF BeginPoll, PollOK, FilesOK, Goto, Held, Window, Decided, PollState
<1>2. CASE ReadClock
  BY <1>2, HistoryKept DEF ReadClock, PollOK, FilesOK, Goto, Held, Window, Decided, PollState
<1>3. CASE ReadState
  <2>1. StoredOr(today) \in DayState /\ StoredOr(today) # None
    BY <1>0, StoredType, NoneAssumption DEF FilesOK
  <2>2. today' = today
    BY <1>3, TodayKept DEF ReadState
  <2> QED
    BY <1>3, <2>1, <2>2, HistoryKept
    DEF ReadState, PollOK, FilesOK, Goto, Held, Window, Decided, PollState, NoneOr
<1>4. CASE NotifyMissed
  BY <1>4, HistoryKept DEF NotifyMissed, PollOK, FilesOK, Goto, Held, Window, Decided, PollState
<1>5. CASE SaveReset
  <2>1. seen \in DayState
    BY <1>5 DEF SaveReset, PollOK, NoneOr, Held, Window
  <2>2. persisted \in DayState /\ persisted.day = today /\ persisted # None
    BY <1>0, <2>1, ResetFacts, NoneAssumption DEF persisted
  <2>3. today' = today
    BY <1>5, TodayKept DEF SaveReset
  <2> QED
    BY <1>5, <2>2, <2>3, HistoryKept
    DEF SaveReset, PollOK, FilesOK, Goto, Held, Window, Decided, PollState, NoneOr
<1>6. CASE Quiet
  <2>1. PollOK'
    BY <1>6, ReturnOK DEF Quiet, PollState, Held, Window, Decided
  <2> QED
    BY <1>6, <2>1, HistoryKept DEF Quiet, FilesOK
<1>7. CASE WarnNotify
  <2>1. shown' \in NoneOr(Time)
    BY <1>7 DEF WarnNotify, HistoryOK, PollOK, NoneOr
  <2>2. warned' \subseteq Time \X LeadTimes
    <3>1. seen \in DayState /\ seen.day = today /\ conf \in NoneOr(Nat) /\ at \in Time
      BY <1>7 DEF WarnNotify, PollOK, NoneOr, Held, Window, Decided
    <3>2. conf # None /\ decision.nextState \in DayState
      BY <1>7, <3>1, DecideFacts DEF WarnNotify, decision, today
    <3>3. deadline \in Time
      BY <3>1, <3>2, DeadlineType DEF deadline, NoneOr, DayState
    <3>4. decision.nextState.firedLeadTimesInMinutes \subseteq LeadTimes
      BY <3>2 DEF DayState
    <3> QED
      BY <1>7, <3>3, <3>4 DEF WarnNotify, HistoryOK
  <2>3. today' = today /\ decision' = decision
    BY <1>7, TodayKept, DecisionKept DEF WarnNotify
  <2> QED
    BY <1>7, <2>1, <2>2, <2>3
    DEF WarnNotify, HistoryOK, PollOK, FilesOK, Goto, Held, Window, Decided, PollState
<1>8. CASE WarnSave
  <2>1. PollOK'
    BY <1>8, ReturnOK DEF WarnSave, PollState, Held, Window, Decided
  <2>2. decision.nextState \in DayState
    BY <1>8, DecideFacts DEF WarnSave, decision, today, PollOK, NoneOr, Held, Window, Decided
  <2>3. file' \in DayState
    BY <1>8, <2>2 DEF WarnSave, PollOK, DayState, NoneOr
  <2> QED
    BY <1>8, <2>1, <2>3, HistoryKept DEF WarnSave, NoneOr
<1>9. CASE BeginEndDay
  <2>1. today' = today /\ decision' = decision
    BY <1>9, TodayKept, DecisionKept DEF BeginEndDay
  <2> QED
    BY <1>9, <2>1, HistoryKept
    DEF BeginEndDay, PollOK, FilesOK, Goto, Held, Window, Decided, PollState
<1>10. CASE EndDay
  <2>1. today' = today /\ decision' = decision
    BY <1>10, TodayKept, DecisionKept DEF EndDay
  <2>2. result' \in Result
    BY <1>10 DEF EndDay, Result, sessionsExhaustedToday
  <2>3. tries' \in [Days -> [Session -> Nat]]
    <3>1. PICK wasted \in SUBSET Session : CountTries(wasted)
      BY <1>10 DEF EndDay, sessionsExhaustedToday
    <3>2. tries \in [Days -> [Session -> Nat]]
      BY DEF HistoryOK
    <3>3. CASE today \in Days
      <4>1. [s \in Session |-> IF s \in wasted THEN tries[today][s] + 1 ELSE tries[today][s]]
              \in [Session -> Nat]
        BY <3>2, <3>3
      <4> QED
        BY <3>1, <3>2, <4>1 DEF CountTries
    <3>4. CASE today \notin Days
      BY <3>1, <3>2, <3>4 DEF CountTries
    <3> QED
      BY <3>3, <3>4
  <2> QED
    BY <1>10, <2>1, <2>2, <2>3
    DEF EndDay, HistoryOK, PollOK, FilesOK, Goto, Held, Window, Decided, PollState
<1>11. CASE CloseSave
  <2> DEFINE withAttempts == recordCaptureAttempts(seen, result.wasted)
  <2>1. withAttempts \in DayState
    BY <1>11, CounterFacts DEF CloseSave, PollOK, Result, NoneOr, Held, Window
  <2>2. file' \in DayState
    <3> HIDE DEF withAttempts
    <3>1. [withAttempts EXCEPT !.endOfDayFired = TRUE] \in DayState
      BY <2>1 DEF DayState
    <3> QED
      BY <1>11, <2>1, <3>1 DEF CloseSave, withAttempts
  <2>3. PollOK'
    <3>1. CASE finalize
      BY <1>11, <3>1, TodayKept DEF CloseSave, PollOK, Goto, PollState, Held, Window, Decided
    <3>2. CASE ~finalize
      BY <1>11, <3>2, ReturnOK DEF CloseSave, PollState, Held, Window, Decided
    <3> QED
      BY <3>1, <3>2
  <2> QED
    BY <1>11, <2>2, <2>3, HistoryKept DEF CloseSave, NoneOr
<1>12. CASE Announce
  <2>1. PollOK'
    BY <1>12, ReturnOK DEF Announce, PollState, Held, Window, Decided
  <2>2. announced' \in [Days -> Nat]
    BY <1>12, CountOne DEF Announce, HistoryOK
  <2> QED
    BY <1>12, <2>1, <2>2 DEF Announce, FilesOK, HistoryOK
<1>13. CASE SuccessRead
  <2>1. StoredOr(localDayString(now)) \in DayState /\ StoredOr(localDayString(now)) # None
    BY <1>0, StoredType, NoneAssumption DEF FilesOK
  <2>2. PollOK'
    <3>1. CASE Return("idle")
      BY <3>1, ReturnOK DEF PollState, Held, Window, Decided
    <3>2. CASE ~Return("idle")
      BY <1>13, <2>1, <3>2
      DEF SuccessRead, PollOK, Goto, PollState, NoneOr, Held, Window, Decided
    <3> QED
      BY <3>1, <3>2
  <2> QED
    BY <1>13, <2>2 DEF SuccessRead, FilesOK, HistoryOK
<1>14. CASE SuccessSave
  <2>1. PollOK'
    BY <1>14, ReturnOK DEF SuccessSave, PollState, Held, Window, Decided
  <2>2. file' \in DayState
    BY <1>14, CounterFacts DEF SuccessSave, PollOK, Held, NoneOr
  <2> QED
    BY <1>14, <2>1, <2>2, HistoryKept DEF SuccessSave, NoneOr
<1>15. CASE FailRead
  <2>1. StoredOr(localDayString(now)) \in DayState /\ StoredOr(localDayString(now)) # None
    BY <1>0, StoredType, NoneAssumption DEF FilesOK
  <2> QED
    BY <1>15, <2>1, HistoryKept
    DEF FailRead, FilesOK, PollOK, Goto, PollState, NoneOr, Held, Window, Decided
<1>16. CASE FailSave
  <2>1. PollOK'
    BY <1>16, ReturnOK DEF FailSave, PollState, Held, Window, Decided
  <2>2. file' \in DayState
    BY <1>16, CounterFacts DEF FailSave, PollOK, Held, NoneOr
  <2> QED
    BY <1>16, <2>1, <2>2, HistoryKept DEF FailSave, NoneOr
<1>17. CASE FailNotify
  <2>1. PollOK'
    BY <1>17, ReturnOK DEF FailNotify, PollState, Held, Window, Decided
  <2> QED
    BY <1>17, <2>1 DEF FailNotify, FilesOK, HistoryOK
<1> QED
  BY <1>1, <1>2, <1>3, <1>4, <1>5, <1>6, <1>7, <1>8, <1>9, <1>10, <1>11, <1>12, <1>13, <1>14,
     <1>15, <1>16, <1>17 DEF PollStep

LEMMA PollKept == PollOK /\ UNCHANGED poll => PollOK'
BY TodayKept, DecisionKept DEF PollOK, poll

\* Nor does an error or a death of the daemon ...
LEMMA FaultTInv == ASSUME TInv, Throw \/ Crash PROVE TInv'
<1>1. RequestsOK' /\ HistoryOK' /\ FilesOK'
  BY RequestsKept, HistoryKept DEF TInv, Throw, Crash, FilesOK
<1>2. FaultsOK'
  BY DEF TInv, FaultsOK, Throw, Crash
<1>3. PollOK'
  BY ReturnOK DEF Throw, Crash, PollState, Held, Window, Decided
<1> QED
  BY <1>1, <1>2, <1>3 DEF TInv

\* ... the clock ...
LEMMA TickTInv == ASSUME TInv, Tick PROVE TInv'
BY RequestsKept, HistoryKept, PollKept DEF TInv, Tick, FilesOK, FaultsOK, Time

LEMMA RequestKept ==
  ASSUME RequestsOK, NEW a \in Adjuster, NEW pc \in RequestState, NEW r \in Request,
         pc = "save" => r.seen # None,
         apc' = [apc EXCEPT ![a] = pc], req' = [req EXCEPT ![a] = r]
  PROVE  RequestsOK'
BY DEF RequestsOK

\* ... or a request.
LEMMA AdjustTInv ==
  ASSUME TInv, NEW a \in Adjuster, AdjustStep(a) \/ AdjustThrow(a) PROVE TInv'
<1> USE DEF TInv
<1>1. PollOK'
  BY PollKept
  DEF AdjustStep, AdjustBegin, AdjustClock, AdjustRead, AdjustSave, AdjustThrow
<1>2. req[a] \in Request /\ localDayString(req[a].at) \in Day
  BY DayType DEF RequestsOK, Request
<1>3. NoRequest \in Request
  BY DEF NoRequest, Request, AdjustmentKinds, NoneOr, Time
<1>4. CASE AdjustBegin(a)
  <2>1. PICK kind \in Adjustments, minutes \in SnoozeMinutes :
          /\ req' = [req EXCEPT ![a].kind = kind, ![a].minutes = minutes, ![a].conf = config]
          /\ IF kind = "config" THEN config' \in EndTimes \ {config} ELSE UNCHANGED config
    BY <1>4 DEF AdjustBegin
  <2>2. [req[a] EXCEPT !.kind = kind, !.minutes = minutes, !.conf = config] \in Request
    BY <1>2, AdjustmentAssumption, TimesAssumption DEF Request, FilesOK
  <2>3. req' = [req EXCEPT ![a] = [req[a] EXCEPT !.kind = kind, !.minutes = minutes, !.conf = config]]
    BY <2>1
  <2>4. RequestsOK'
    BY <1>4, <2>2, <2>3, RequestKept DEF AdjustBegin, RequestGoto, RequestState
  <2>5. FilesOK'
    BY <1>4, <2>1, TimesAssumption DEF AdjustBegin, FilesOK
  <2> QED
    BY <1>1, <1>4, <2>4, <2>5, HistoryKept DEF AdjustBegin, FaultsOK
<1>5. CASE AdjustClock(a)
  <2>1. req' = [req EXCEPT ![a] = [req[a] EXCEPT !.at = now]]
    BY <1>5 DEF AdjustClock
  <2>2. [req[a] EXCEPT !.at = now] \in Request
    BY <1>2 DEF Request, FilesOK
  <2>3. RequestsOK'
    BY <1>5, <2>1, <2>2, RequestKept DEF AdjustClock, RequestGoto, RequestState
  <2> QED
    BY <1>1, <1>5, <2>3, HistoryKept DEF AdjustClock, FaultsOK, FilesOK
<1>6. CASE AdjustRead(a)
  <2> DEFINE stored == StoredOr(localDayString(req[a].at))
  <2>1. stored \in DayState /\ stored # None
    BY <1>2, StoredType, NoneAssumption DEF FilesOK
  <2> HIDE DEF stored
  <2>2. [req[a] EXCEPT !.seen = stored] \in Request /\ [req[a] EXCEPT !.seen = stored].seen = stored
    BY <1>2, <2>1 DEF Request, NoneOr
  <2>3. RequestsOK'
    <3>1. CASE Proceeds(req[a], stored)
      <4>1. /\ apc' = [apc EXCEPT ![a] = "save"]
            /\ req' = [req EXCEPT ![a] = [req[a] EXCEPT !.seen = stored]]
        BY <1>6, <3>1 DEF AdjustRead, RequestGoto, stored
      <4> QED
        BY <2>1, <2>2, <4>1, RequestKept DEF RequestState
    <3>2. CASE ~Proceeds(req[a], stored)
      <4>1. apc' = [apc EXCEPT ![a] = "done"] /\ req' = [req EXCEPT ![a] = NoRequest]
        BY <1>6, <3>2 DEF AdjustRead, Answer, RequestGoto, stored
      <4> QED
        BY <1>3, <4>1, RequestKept DEF RequestState
    <3> QED
      BY <3>1, <3>2
  <2> QED
    BY <1>1, <1>6, <2>3, HistoryKept DEF AdjustRead, FaultsOK, FilesOK
<1>7. CASE AdjustSave(a)
  <2>1. RequestsOK'
    BY <1>3, <1>7, RequestKept DEF AdjustSave, Answer, RequestGoto, RequestState
  <2>2. file' \in DayState
    BY <1>7, AdjustedType DEF AdjustSave
  <2>3. asked' \in Asked
    <3>1. /\ asked \in Asked
          /\ NothingAsked(localDayString(req[a].at)) \in Asked
      BY <1>2 DEF HistoryOK, NothingAsked, Asked
    <3>2. PICK before \in Asked :
            asked' \in {[before EXCEPT !.minutes = @ + req[a].minutes],
                        [before EXCEPT !.skipped = TRUE], [before EXCEPT !.minutes = 0]}
      <4>1. req[a].kind \in AdjustmentKinds
        BY <1>2 DEF Request
      <4> DEFINE day == localDayString(req[a].at)
                 before == IF asked.day = day THEN asked ELSE NothingAsked(day)
      <4>2. before \in Asked
        BY <3>1
      <4>3. asked' = Told(req[a])
        BY <1>7 DEF AdjustSave
      <4>4. Told(req[a]) \in {[before EXCEPT !.minutes = @ + req[a].minutes],
                              [before EXCEPT !.skipped = TRUE], [before EXCEPT !.minutes = 0]}
        BY <4>1 DEF Told, AdjustmentKinds
      <4> QED
        BY <4>2, <4>3, <4>4
    <3>3. before.minutes + req[a].minutes \in Nat
      BY <1>2 DEF Asked, Request
    <3>4. \A n \in Nat : [before EXCEPT !.minutes = n] \in Asked
      BY DEF Asked
    <3>5. [before EXCEPT !.skipped = TRUE] \in Asked
      BY DEF Asked
    <3>6. 0 \in Nat
      OBVIOUS
    <3> QED
      BY <3>2, <3>3, <3>4, <3>5, <3>6
  <2>4. HistoryOK'
    BY <1>7, <2>3 DEF AdjustSave, HistoryOK
  <2> QED
    BY <1>1, <1>7, <2>1, <2>2, <2>4 DEF AdjustSave, FaultsOK, FilesOK, NoneOr
<1>8. CASE AdjustThrow(a)
  <2>1. RequestsOK'
    BY <1>3, <1>8, RequestKept DEF AdjustThrow, Answer, RequestGoto, RequestState
  <2>2. FaultsOK'
    BY <1>8 DEF AdjustThrow, FaultsOK
  <2> QED
    BY <1>1, <1>8, <2>1, <2>2, HistoryKept DEF AdjustThrow, FilesOK
<1> QED
  BY <1>4, <1>5, <1>6, <1>7, <1>8 DEF AdjustStep

LEMMA NextTInv == TInv /\ [Next]_vars => TInv'
<1> SUFFICES ASSUME TInv, [Next]_vars PROVE TInv'
  OBVIOUS
<1>1. CASE UNCHANGED vars
  BY <1>1, RequestsKept, HistoryKept, PollKept DEF vars, TInv, FilesOK, FaultsOK
<1>2. CASE Next
  BY <1>2, TickTInv, PollTInv, FaultTInv, AdjustTInv DEF Next
<1> QED
  BY <1>1, <1>2

LEMMA AlwaysTInv == Spec => []TInv
BY InitTInv, NextTInv, PTL DEF Spec

\* Every variable keeps to its type: what a poll or a request writes is always
\* a whole record of the day.
THEOREM TypeCorrect == Spec => []TypeOK
BY AlwaysTInv, TInvTypes, PTL

(* -------------- polls and adjustments one at a time: ~Overlap ------------ *)

\* Whoever is at work is alone.
Serial ==
  \A a \in Adjuster : Active(a) => /\ dpc = "idle"
                                   /\ \A b \in Adjuster : Active(b) => b = a

\* A poll works with the configuration in force.
Polling    == Window \cup {"clock", "read", "announce"}
Configured == dpc \in Polling => conf = config

\* What was read is what is stored.
SeenStored ==
  /\ dpc \in Held => seen = StoredOr(seen.day)
  /\ dpc \in {"missed", "saveReset"} => file # None /\ seen.day # today
  /\ \A a \in Adjuster : apc[a] = "save" => req[a].seen = StoredOr(req[a].seen.day)

\* No record is of a day to come.
NotAhead ==
  /\ at <= now
  /\ file # None => file.day <= localDayString(now)
  /\ file # None /\ dpc \in Polling \ {"clock"} => file.day <= today
  /\ dpc \in Held => seen.day <= localDayString(now)
  /\ \A a \in Adjuster :
       /\ req[a].at <= now
       /\ file # None /\ apc[a] \in {"read", "save"} => file.day <= localDayString(req[a].at)

\* What the user was told is of no day later than the record's.
AskedOfRecord == asked = NothingAsked(asked.day) \/ (file # None /\ asked.day <= file.day)

\* A day that was announced is closed, or over.
AnnouncedClosed ==
  /\ \A d \in Days : announced[d] > 0 => /\ file # None
                                         /\ file.day > d \/ (file.day = d /\ file.endOfDayFired)
  /\ dpc = "announce" => /\ file # None /\ file.day = today /\ file.endOfDayFired
                         /\ today \in Days => announced[today] = 0

SInv ==
  /\ Serial /\ Configured /\ SeenStored /\ NotAhead
  /\ AdjustmentsKept /\ AskedOfRecord
  /\ AnnouncedOnce /\ AnnouncedClosed

LEMMA InitSInv == Init => SInv
<1> SUFFICES ASSUME Init PROVE SInv
  OBVIOUS
<1>1. Serial /\ Configured /\ SeenStored /\ NotAhead
  BY DEF Init, Serial, Active, Configured, Polling, SeenStored, Held, Window, NotAhead, NoRequest
<1>2. AdjustmentsKept /\ AskedOfRecord
  BY DEF Init, AdjustmentsKept, AskedOfRecord, NothingAsked
<1>3. AnnouncedOnce /\ AnnouncedClosed
  BY DEF Init, AnnouncedOnce, AnnouncedClosed
<1> QED
  BY <1>1, <1>2, <1>3 DEF SInv

\* The poll works while no request does, and the other way round.
LEMMA Alone ==
  ASSUME ~Overlap, TInv, Serial
  PROVE  /\ PollStep \/ Throw \/ Crash => \A a \in Adjuster : ~Active(a) /\ ~Active(a)'
         /\ \A a \in Adjuster :
              AdjustStep(a) \/ AdjustThrow(a) =>
                /\ dpc = "idle" /\ dpc' = "idle"
                /\ \A b \in Adjuster \ {a} : ~Active(b) /\ ~Active(b)'
<1>1. ASSUME PollStep \/ Throw \/ Crash, NEW a \in Adjuster PROVE ~Active(a) /\ ~Active(a)'
  <2>1. apc' = apc
    BY <1>1
    DEF PollStep, BeginPoll, ReadClock, ReadState, NotifyMissed, SaveReset, Quiet, WarnNotify,
        WarnSave, BeginEndDay, EndDay, CloseSave, Announce, SuccessRead, SuccessSave, FailRead,
        FailSave, FailNotify, Throw, Crash, requests
  <2>2. CASE BeginPoll
    BY <2>1, <2>2 DEF BeginPoll, MayPoll, Active
  <2>3. CASE ~BeginPoll
    <3>1. dpc # "idle"
      BY <1>1, <2>3
      DEF PollStep, ReadClock, ReadState, NotifyMissed, SaveReset, Quiet, WarnNotify, WarnSave,
          BeginEndDay, EndDay, CloseSave, Announce, SuccessRead, SuccessSave, FailRead, FailSave,
          FailNotify, Throw, Crash
    <3> QED
      BY <2>1, <3>1 DEF Serial, Active
  <2> QED
    BY <2>2, <2>3
<1>2. ASSUME NEW a \in Adjuster, AdjustStep(a) \/ AdjustThrow(a)
      PROVE  /\ dpc = "idle" /\ dpc' = "idle"
             /\ \A b \in Adjuster \ {a} : ~Active(b) /\ ~Active(b)'
  <2>1. dpc' = dpc /\ \E pc \in RequestState : apc' = [apc EXCEPT ![a] = pc]
    BY <1>2
    DEF AdjustStep, AdjustBegin, AdjustClock, AdjustRead, AdjustSave, AdjustThrow, poll,
        RequestGoto, Answer, RequestState
  <2>2. dpc = "idle" /\ \A b \in Adjuster \ {a} : ~Active(b)
    BY <1>2
    DEF AdjustStep, AdjustBegin, AdjustClock, AdjustRead, AdjustSave, AdjustThrow, Serial, Active,
        MayAdjust
  <2> QED
    BY <2>1, <2>2 DEF Active, TInv, RequestsOK
<1> QED
  BY <1>1, <1>2

\* A record to write from: the one stored, or a fresh one of a day not yet stored.
Base(b) ==
  /\ b \in DayState
  /\ b.day <= localDayString(now)
  /\ \/ b = file
     \/ /\ file = None \/ (file # None /\ file.day < b.day)
        /\ b.snoozeMinutesTotal = 0 /\ ~b.skipped /\ ~b.endOfDayFired

\* What the poll may do to it: close the day, if it is neither closed nor skipped.
PollWrites(b) ==
  /\ Base(b)
  /\ file' \in DayState
  /\ file'.day = b.day
  /\ file'.snoozeMinutesTotal = b.snoozeMinutesTotal
  /\ file'.skipped = b.skipped
  /\ \/ file'.endOfDayFired = b.endOfDayFired
     \/ /\ file'.endOfDayFired /\ ~b.endOfDayFired /\ ~b.skipped
        /\ file = None \/ b = file
  /\ UNCHANGED <<now, asked, announced>>

\* What the daemon read and holds is such a record.
LEMMA HeldBase ==
  ASSUME TInv, SInv, dpc \in Held
  PROVE  /\ seen \in DayState
         /\ Base(seen)
<1>1. seen \in DayState /\ seen = StoredOr(seen.day) /\ seen.day <= localDayString(now)
  BY DEF TInv, PollOK, NoneOr, SInv, SeenStored, NotAhead
<1>2. CASE file # None
  BY <1>1, <1>2 DEF StoredOr, Base
<1>3. CASE file = None
  BY <1>1, <1>3 DEF StoredOr, Base, emptyDayState
<1> QED
  BY <1>1, <1>2, <1>3

LEMMA PollWriteFacts ==
  ASSUME TInv, SInv, PollStep
  PROVE  UNCHANGED <<file, now, asked>> \/ \E b \in DayState : PollWrites(b)
<1>1. CASE SaveReset
  <2>1. /\ seen \in DayState /\ seen = file /\ seen.day # today
        /\ today \in Day /\ file.day <= today /\ today <= localDayString(now)
    BY <1>1, DayType, DayMonotone
    DEF SaveReset, TInv, PollOK, FilesOK, NoneOr, SInv, SeenStored, StoredOr, NotAhead, today,
        Held, Window, Polling, Time
  <2>2. /\ persisted \in DayState /\ persisted.day = today
        /\ persisted.snoozeMinutesTotal = 0 /\ ~persisted.skipped /\ ~persisted.endOfDayFired
    BY <2>1, ResetFacts DEF persisted
  <2>3. Base(persisted)
    BY <2>1, <2>2, NoneAssumption DEF Base, DayState, Day
  <2>4. PollWrites(persisted)
    BY <1>1, <2>2, <2>3 DEF PollWrites, SaveReset, history
  <2> QED
    BY <2>2, <2>4
<1>2. CASE WarnSave
  <2>1. dpc \in Held /\ seen \in DayState /\ Base(seen) /\ seen.day = today
    BY <1>2, HeldBase DEF WarnSave, Held, Window, TInv, PollOK, Decided
  <2>2. /\ decision.nextState \in DayState
        /\ decision.nextState.day = seen.day
        /\ decision.nextState.skipped = seen.skipped
        /\ decision.nextState.endOfDayFired = seen.endOfDayFired
        /\ decision.nextState.snoozeMinutesTotal = seen.snoozeMinutesTotal
    BY <1>2, <2>1, DecideFacts DEF WarnSave, TInv, PollOK, decision, today
  <2> DEFINE next == decision.nextState
  <2>3. file' = [next EXCEPT !.lastLeadTimeWarningNoticeAt = at] /\ at \in Time
    BY <1>2 DEF WarnSave, TInv, PollOK
  <2> HIDE DEF next
  <2>4. /\ file' \in DayState /\ file'.day = next.day /\ file'.skipped = next.skipped
        /\ file'.snoozeMinutesTotal = next.snoozeMinutesTotal
        /\ file'.endOfDayFired = next.endOfDayFired
    BY <2>2, <2>3 DEF DayState, NoneOr, next
  <2>5. PollWrites(seen)
    BY <1>2, <2>1, <2>2, <2>4 DEF PollWrites, WarnSave, history, next
  <2> QED
    BY <2>1, <2>5
<1>3. CASE CloseSave
  <2>1. dpc \in Held /\ seen \in DayState /\ Base(seen) /\ seen.day = today
    BY <1>3, HeldBase DEF CloseSave, Held, Window, TInv, PollOK, Decided
  <2>2. ~seen.skipped /\ ~seen.endOfDayFired
    BY <1>3, <2>1, DecideFacts DEF CloseSave, TInv, PollOK, decision, today
  <2> DEFINE withAttempts == recordCaptureAttempts(seen, result.wasted)
  <2>3. file' = withAttempts \/ file' = [withAttempts EXCEPT !.endOfDayFired = TRUE]
    BY <1>3 DEF CloseSave
  <2>4. /\ withAttempts \in DayState
        /\ withAttempts.day = seen.day /\ withAttempts.skipped = seen.skipped
        /\ withAttempts.snoozeMinutesTotal = seen.snoozeMinutesTotal
        /\ withAttempts.endOfDayFired = seen.endOfDayFired
    BY <2>1, CounterFacts DEF TInv, PollOK, Result
  <2> HIDE DEF withAttempts
  <2>5. /\ file' \in DayState /\ file'.day = seen.day /\ file'.skipped = seen.skipped
        /\ file'.snoozeMinutesTotal = seen.snoozeMinutesTotal
        /\ file'.endOfDayFired = seen.endOfDayFired \/ file'.endOfDayFired
    BY <2>3, <2>4 DEF DayState
  <2>6. file = None \/ seen = file
    BY <2>1 DEF SInv, SeenStored, StoredOr
  <2>7. PollWrites(seen)
    BY <1>3, <2>1, <2>2, <2>5, <2>6 DEF PollWrites, CloseSave, history
  <2> QED
    BY <2>1, <2>7
<1>4. CASE SuccessSave
  <2>1. seen \in DayState /\ Base(seen)
    BY <1>4, HeldBase DEF SuccessSave, Held
  <2>2. PollWrites(seen)
    BY <1>4, <2>1, CounterFacts DEF PollWrites, SuccessSave, history
  <2> QED
    BY <2>1, <2>2
<1>5. CASE FailSave
  <2>1. seen \in DayState /\ Base(seen)
    BY <1>5, HeldBase DEF FailSave, Held
  <2>2. PollWrites(seen)
    BY <1>5, <2>1, CounterFacts DEF PollWrites, FailSave, history
  <2> QED
    BY <2>1, <2>2
<1>6. CASE ~(SaveReset \/ WarnSave \/ CloseSave \/ SuccessSave \/ FailSave)
  BY <1>6
  DEF PollStep, BeginPoll, ReadClock, ReadState, NotifyMissed, Quiet, WarnNotify, BeginEndDay,
      EndDay, Announce, SuccessRead, FailRead, FailNotify, history
<1> QED
  BY <1>1, <1>2, <1>3, <1>4, <1>5, <1>6

\* What a request read and rolled over is such a record too.
AdjustBase(a) == resetIfNewDay(req[a].seen, localDayString(req[a].at))

LEMMA AdjustBaseFacts ==
  ASSUME TInv, SInv, NEW a \in Adjuster, apc[a] = "save"
  PROVE  Base(AdjustBase(a)) /\ AdjustBase(a).day = localDayString(req[a].at)
<1>1. /\ req[a].seen \in DayState
      /\ req[a].seen = StoredOr(req[a].seen.day)
      /\ localDayString(req[a].at) \in Day
      /\ localDayString(req[a].at) <= localDayString(now)
      /\ file # None => file.day <= localDayString(req[a].at) /\ file \in DayState
  BY DayType, DayMonotone
  DEF TInv, FilesOK, RequestsOK, Request, NoneOr, SInv, SeenStored, NotAhead, Time
<1> DEFINE day == localDayString(req[a].at)
           seenA == req[a].seen
<1> HIDE DEF day, seenA
<1>2. /\ resetIfNewDay(seenA, day) \in DayState
      /\ resetIfNewDay(seenA, day).day = day
      /\ seenA.day = day => resetIfNewDay(seenA, day) = seenA
      /\ seenA.day # day => /\ resetIfNewDay(seenA, day).snoozeMinutesTotal = 0
                            /\ ~resetIfNewDay(seenA, day).skipped
                            /\ ~resetIfNewDay(seenA, day).endOfDayFired
  BY <1>1, ResetFacts DEF day, seenA
<1>3. CASE file = None
  <2>1. seenA.snoozeMinutesTotal = 0 /\ ~seenA.skipped /\ ~seenA.endOfDayFired
    BY <1>1, <1>3 DEF StoredOr, emptyDayState, seenA
  <2> QED
    BY <1>1, <1>2, <1>3, <2>1 DEF Base, AdjustBase, day, seenA
<1>4. CASE file # None
  <2>1. seenA = file
    BY <1>1, <1>4 DEF StoredOr, seenA
  <2>2. CASE file.day = day
    BY <1>1, <1>2, <2>1, <2>2 DEF Base, AdjustBase, day, seenA
  <2>3. CASE file.day # day
    <3>1. file.day < day
      BY <1>1, <1>4, <2>3 DEF DayState, Day, day
    <3> QED
      BY <1>1, <1>2, <1>4, <2>1, <3>1 DEF Base, AdjustBase, day, seenA
  <2> QED
    BY <2>2, <2>3
<1> QED
  BY <1>3, <1>4

\* What a record to write from says of the user's adjustments is what the user
\* was told.
InForce(d) == IF asked.day = d THEN asked ELSE NothingAsked(d)

LEMMA BaseAsked ==
  ASSUME TInv, SInv, NEW b, Base(b)
  PROVE  b.snoozeMinutesTotal = InForce(b.day).minutes /\ b.skipped = InForce(b.day).skipped
<1>1. CASE b = file
  BY <1>1, NoneAssumption DEF Base, SInv, AdjustmentsKept, InForce
<1>2. CASE b # file
  <2>1. /\ file = None \/ (file # None /\ file.day < b.day)
        /\ b.snoozeMinutesTotal = 0 /\ ~b.skipped
        /\ b \in DayState /\ asked \in Asked /\ file \in NoneOr(DayState)
    BY <1>2 DEF Base, TInv, HistoryOK, FilesOK
  <2>2. asked.day = b.day => asked = NothingAsked(asked.day)
    BY <2>1 DEF SInv, AskedOfRecord, DayState, NoneOr, Asked, Day
  <2>3. InForce(b.day) = NothingAsked(b.day)
    BY <2>2 DEF InForce
  <2>4. b.skipped = FALSE
    BY <2>1 DEF DayState
  <2>5. NothingAsked(b.day).minutes = 0 /\ NothingAsked(b.day).skipped = FALSE
    BY DEF NothingAsked
  <2> QED
    BY <2>1, <2>3, <2>4, <2>5, Zenon
<1> QED
  BY <1>1, <1>2

LEMMA PollWriteAsked ==
  ASSUME TInv, SInv, NEW b \in DayState, PollWrites(b)
  PROVE  AdjustmentsKept' /\ AskedOfRecord'
<1>1. file' \in DayState /\ file' # None /\ file'.day = b.day /\ asked' = asked
  BY NoneAssumption DEF PollWrites
<1>2. AdjustmentsKept'
  BY <1>1, BaseAsked DEF PollWrites, AdjustmentsKept, InForce, NothingAsked
<1>3. AskedOfRecord'
  <2>1. file # None => file.day <= b.day
    BY DEF PollWrites, Base, DayState, Day, TInv, FilesOK, NoneOr
  <2>2. file # None => file \in DayState
    BY DEF TInv, FilesOK, NoneOr
  <2> QED
    BY <1>1, <2>1, <2>2 DEF SInv, AskedOfRecord, NothingAsked, DayState, Day, TInv, HistoryOK, Asked
<1> QED
  BY <1>2, <1>3

\* The day's record outlives the announcement of the day.
LEMMA LaterKeepsAnnounced ==
  ASSUME TInv, SInv, NEW b, Base(b), file' \in DayState, file'.day = b.day,
         b.endOfDayFired => file'.endOfDayFired,
         announced' = announced
  PROVE  \A d \in Days : announced'[d] > 0 => /\ file' # None
                                              /\ file'.day > d \/ (file'.day = d /\ file'.endOfDayFired)
<1> TAKE d \in Days
<1>0. d \in Nat
  BY DayType, BoundAssumption DEF Days, Time, Day
<1> HAVE announced'[d] > 0
<1>1. file # None /\ file \in DayState /\ (file.day > d \/ (file.day = d /\ file.endOfDayFired))
  BY DEF SInv, AnnouncedClosed, TInv, FilesOK, NoneOr
<1>2. CASE b = file
  BY <1>1, <1>2, NoneAssumption
<1>3. CASE b # file
  BY <1>0, <1>1, <1>3, NoneAssumption DEF Base, DayState, Day
<1> QED
  BY <1>2, <1>3

LEMMA StoredFacts ==
  ASSUME TInv, NEW d \in Day
  PROVE  /\ StoredOr(d) \in DayState
         /\ StoredOr(d) # None
         /\ StoredOr(d) = StoredOr(StoredOr(d).day)
         /\ file = None => StoredOr(d).day = d
         /\ file # None => StoredOr(d) = file
BY StoredType, NoneAssumption DEF StoredOr, emptyDayState, TInv, FilesOK

LEMMA PollSeenStored == ASSUME ~Overlap, TInv, SInv, PollStep PROVE SeenStored'
<1> USE DEF TInv, SInv
<1>0. /\ today \in Day
      /\ localDayString(now) \in Day
  BY DayType DEF today, PollOK, FilesOK
<1>1. \A a \in Adjuster : apc'[a] # "save"
  BY Alone DEF Active
<1>2. SUFFICES /\ dpc' \in Held => seen' = StoredOr(seen.day)'
               /\ dpc' \in {"missed", "saveReset"} => file' # None /\ seen'.day # today'
  BY <1>1 DEF SeenStored
<1>3. CASE ReadState
  <2>1. file' = file /\ today' = today /\ seen' = StoredOr(today)
    BY <1>3, TodayKept DEF ReadState
  <2>2. seen' = StoredOr(seen.day)'
    BY <1>0, <2>1, StoredFacts DEF StoredOr
  <2>3. dpc' \in {"missed", "saveReset"} => file' # None /\ seen'.day # today'
    BY <1>0, <1>3, <2>1, StoredFacts DEF ReadState, Goto
  <2> QED
    BY <2>2, <2>3
<1>4. CASE SuccessRead \/ FailRead
  <2>1. /\ file' = file
        /\ dpc' \in {"idle", "successSave", "failSave"}
        /\ dpc' # "idle" => seen' = StoredOr(localDayString(now))
    BY <1>4 DEF SuccessRead, FailRead, Goto, Return
  <2>2. dpc' # "idle" => seen' = StoredOr(seen.day)'
    BY <1>0, <2>1, StoredFacts DEF StoredOr
  <2> QED
    BY <2>1, <2>2 DEF Held, Window
<1>5. CASE NotifyMissed \/ WarnNotify \/ BeginEndDay \/ EndDay
  <2>1. /\ file' = file /\ seen' = seen /\ today' = today
        /\ dpc \in Held
        /\ dpc' \in {"missed", "saveReset"} => dpc = "missed"
    BY <1>5, TodayKept DEF NotifyMissed, WarnNotify, BeginEndDay, EndDay, Goto, Held, Window
  <2> QED
    BY <2>1 DEF SeenStored, StoredOr
<1>6. CASE SaveReset
  <2>1. file' = persisted /\ seen' = persisted /\ dpc' = "decide"
    BY <1>6 DEF SaveReset, Goto
  <2>2. persisted \in DayState
    BY <1>0, <1>6, HeldBase, ResetFacts DEF SaveReset, persisted, Held, Window
  <2> QED
    BY <2>1, <2>2, NoneAssumption DEF StoredOr
<1>7. CASE BeginPoll \/ ReadClock \/ Quiet \/ WarnSave \/ CloseSave \/ Announce \/ SuccessSave
           \/ FailSave \/ FailNotify
  BY <1>7
  DEF BeginPoll, ReadClock, Quiet, WarnSave, CloseSave, Announce, SuccessSave, FailSave,
      FailNotify, Goto, Return, Held, Window
<1> QED
  BY <1>3, <1>4, <1>5, <1>6, <1>7 DEF PollStep

LEMMA PollNotAhead == ASSUME ~Overlap, TInv, SInv, PollStep PROVE NotAhead'
<1> USE DEF TInv, SInv
<1>0. /\ today \in Day /\ today <= localDayString(now)
      /\ localDayString(now) \in Day
  BY DayType, DayMonotone DEF today, PollOK, FilesOK, NotAhead, Time
<1>1. now' = now /\ apc' = apc /\ req' = req
  BY DEF PollStep, BeginPoll, ReadClock, ReadState, NotifyMissed, SaveReset, Quiet, WarnNotify,
         WarnSave, BeginEndDay, EndDay, CloseSave, Announce, SuccessRead, SuccessSave, FailRead,
         FailSave, FailNotify, requests
<1>2. \A a \in Adjuster : req'[a].at <= now' /\ apc'[a] \notin {"read", "save"}
  BY <1>1, Alone DEF Active, NotAhead
<1>3. at' <= now'
  BY <1>1
  DEF PollStep, BeginPoll, ReadClock, ReadState, NotifyMissed, SaveReset, Quiet, WarnNotify,
      WarnSave, BeginEndDay, EndDay, CloseSave, Announce, SuccessRead, SuccessSave, FailRead,
      FailSave, FailNotify, Return, NotAhead, FilesOK, Time
<1>4. file' # None => file'.day <= localDayString(now)
  BY PollWriteFacts DEF PollWrites, Base, NotAhead
<1>5. file' # None /\ dpc' \in Polling \ {"clock"} => file'.day <= today'
  <2>1. CASE BeginPoll
    BY <2>1 DEF BeginPoll, Goto
  <2>2. CASE ReadClock
    BY <2>2 DEF ReadClock, NotAhead, today
  <2>3. CASE ReadState \/ NotifyMissed \/ WarnNotify \/ BeginEndDay \/ EndDay
    <3>1. file' = file /\ today' = today /\ dpc \in Polling \ {"clock"}
      BY <2>3, TodayKept
      DEF ReadState, NotifyMissed, WarnNotify, BeginEndDay, EndDay, Polling, Window
    <3> QED
      BY <3>1 DEF NotAhead
  <2>4. CASE SaveReset
    <3>1. file' = persisted /\ today' = today
      BY <2>4, TodayKept DEF SaveReset
    <3>2. persisted.day = today
      BY <1>0, <2>4, HeldBase, ResetFacts DEF SaveReset, persisted, Held, Window
    <3> QED
      BY <1>0, <3>1, <3>2 DEF Day
  <2>5. CASE CloseSave
    <3>1. dpc' = "announce" => today' = today
      BY <2>5, TodayKept DEF CloseSave, Return, Goto
    <3>2. file'.day = today
      <4>1. seen \in DayState /\ seen.day = today
        BY <2>5, HeldBase DEF CloseSave, Held, Window, PollOK, Decided
      <4>2. /\ recordCaptureAttempts(seen, result.wasted) \in DayState
            /\ recordCaptureAttempts(seen, result.wasted).day = seen.day
        BY <4>1, CounterFacts DEF PollOK, Result
      <4> QED
        BY <2>5, <4>1, <4>2 DEF CloseSave, DayState
    <3>3. dpc' \in {"announce", "success"}
      BY <2>5 DEF CloseSave, Goto, Return
    <3> QED
      BY <1>0, <3>1, <3>2, <3>3 DEF Day, Polling, Window
  <2>6. CASE Quiet \/ WarnSave \/ Announce \/ SuccessRead \/ SuccessSave \/ FailRead \/ FailSave
             \/ FailNotify
    BY <2>6
    DEF Quiet, WarnSave, Announce, SuccessRead, SuccessSave, FailRead, FailSave, FailNotify, Goto,
        Return, Polling, Window
  <2> QED
    BY <2>1, <2>2, <2>3, <2>4, <2>5, <2>6 DEF PollStep
<1>6. dpc' \in Held => seen'.day <= localDayString(now)
  <2>1. CASE ReadState
    <3>1. seen' = StoredOr(today)
      BY <2>1 DEF ReadState
    <3> QED
      BY <1>0, <3>1, StoredFacts DEF NotAhead
  <2>2. CASE SuccessRead \/ FailRead
    <3>1. dpc' \in Held => seen' = StoredOr(localDayString(now))
      BY <2>2 DEF SuccessRead, FailRead, Return, Goto, Held, Window
    <3> QED
      BY <1>0, <3>1, StoredFacts DEF NotAhead, Day
  <2>3. CASE SaveReset
    BY <1>0, <2>3, HeldBase, ResetFacts DEF SaveReset, persisted, Held, Window
  <2>4. CASE ~(ReadState \/ SuccessRead \/ FailRead \/ SaveReset)
    BY <2>4
    DEF PollStep, BeginPoll, ReadClock, NotifyMissed, Quiet, WarnNotify, WarnSave, BeginEndDay,
        EndDay, CloseSave, Announce, SuccessSave, FailSave, FailNotify, Return, Goto, Held,
        Window, NotAhead
  <2> QED
    BY <2>1, <2>2, <2>3, <2>4
<1> QED
  BY <1>1, <1>2, <1>3, <1>4, <1>5, <1>6 DEF NotAhead

LEMMA PollAnnounced ==
  ASSUME ~Overlap, TInv, SInv, PollStep PROVE AnnouncedOnce' /\ AnnouncedClosed'
<1> USE DEF TInv, SInv
<1>0. /\ today \in Day
      /\ announced \in [Days -> Nat]
  BY DayType DEF today, PollOK, HistoryOK
<1>1. CASE Announce
  <2>1. /\ file' = file /\ dpc' = "success"
        /\ announced' = [announced EXCEPT ![today] = @ + 1]
    BY <1>1 DEF Announce, Return, Goto
  <2>2. /\ file # None /\ file.day = today /\ file.endOfDayFired
        /\ today \in Days => announced[today] = 0
    BY <1>1 DEF Announce, AnnouncedClosed
  <2>3. AnnouncedOnce'
    BY <1>0, <2>1, <2>2 DEF AnnouncedOnce
  <2>4. AnnouncedClosed'
    BY <1>0, <2>1, <2>2 DEF AnnouncedClosed
  <2> QED
    BY <2>3, <2>4
<1>2. CASE ~Announce
  <2>1. announced' = announced
    BY <1>2
    DEF PollStep, BeginPoll, ReadClock, ReadState, NotifyMissed, SaveReset, Quiet, WarnNotify,
        WarnSave, BeginEndDay, EndDay, CloseSave, SuccessRead, SuccessSave, FailRead, FailSave,
        FailNotify, history
  <2>2. \A d \in Days : announced'[d] > 0 => /\ file' # None
                                             /\ file'.day > d \/ (file'.day = d /\ file'.endOfDayFired)
    <3>1. CASE file' = file
      BY <2>1, <3>1 DEF AnnouncedClosed
    <3>2. CASE file' # file
      <4>1. PICK b \in DayState : PollWrites(b)
        BY <3>2, PollWriteFacts
      <4> QED
        BY <2>1, <4>1, LaterKeepsAnnounced DEF PollWrites
    <3> QED
      BY <3>1, <3>2
  <2>3. dpc' = "announce" => CloseSave /\ finalize
    BY <1>2
    DEF PollStep, BeginPoll, ReadClock, ReadState, NotifyMissed, SaveReset, Quiet, WarnNotify,
        WarnSave, BeginEndDay, EndDay, CloseSave, SuccessRead, SuccessSave, FailRead, FailSave,
        FailNotify, Return, Goto
  <2>4. dpc' = "announce" => /\ file' # None /\ file'.day = today' /\ file'.endOfDayFired
                             /\ today' \in Days => announced'[today'] = 0
    <3> HAVE dpc' = "announce"
    <3> DEFINE withAttempts == recordCaptureAttempts(seen, result.wasted)
    <3>1. /\ file' = [withAttempts EXCEPT !.endOfDayFired = TRUE]
          /\ dpc \in Held /\ dpc = "closeSave" /\ at' = at
      BY <2>3 DEF CloseSave, Held, Window
    <3>2. seen \in DayState /\ Base(seen) /\ seen.day = today /\ seen = StoredOr(seen.day)
      BY <3>1, HeldBase DEF PollOK, Decided, SeenStored
    <3>3. withAttempts \in DayState /\ withAttempts.day = seen.day
      BY <3>2, CounterFacts DEF PollOK, Result
    <3>4. file' # None /\ file'.day = today /\ file'.endOfDayFired
      <4> HIDE DEF withAttempts
      <4>1. file' \in DayState /\ file'.day = today /\ file'.endOfDayFired
        BY <3>1, <3>2, <3>3 DEF DayState
      <4> QED
        BY <4>1, NoneAssumption
    <3>5. today' = today
      BY <3>1, TodayKept
    <3>6. ~seen.endOfDayFired
      BY <3>1, <3>2, DecideFacts DEF PollOK, decision, today
    <3>7. today \in Days => announced[today] = 0
      <4>1. SUFFICES ASSUME today \in Days, announced[today] # 0 PROVE FALSE
        OBVIOUS
      <4>2. announced[today] > 0
        BY <1>0, <4>1
      <4>3. file # None /\ (file.day > today \/ (file.day = today /\ file.endOfDayFired))
        BY <4>1, <4>2 DEF AnnouncedClosed
      <4>4. seen = file
        BY <3>2, <4>3 DEF StoredOr
      <4> QED
        BY <1>0, <3>2, <3>6, <4>3, <4>4 DEF Day
    <3> QED
      BY <2>1, <3>4, <3>5, <3>7
  <2> QED
    BY <2>1, <2>2, <2>4 DEF AnnouncedOnce, AnnouncedClosed
<1> QED
  BY <1>1, <1>2

LEMMA PollSInv == ASSUME ~Overlap, TInv, SInv, PollStep PROVE SInv'
<1>1. Serial'
  BY Alone DEF Serial, SInv
<1>2. Configured'
  BY DEF SInv, Configured, PollStep, BeginPoll, ReadClock, ReadState, NotifyMissed, SaveReset,
         Quiet, WarnNotify, WarnSave, BeginEndDay, EndDay, CloseSave, Announce, SuccessRead,
         SuccessSave, FailRead, FailSave, FailNotify, Return, Goto, Polling, Window
<1>3. AdjustmentsKept' /\ AskedOfRecord'
  <2>1. CASE UNCHANGED <<file, now, asked>>
    BY <2>1 DEF SInv, AdjustmentsKept, AskedOfRecord, NothingAsked
  <2>2. CASE ~UNCHANGED <<file, now, asked>>
    BY <2>2, PollWriteFacts, PollWriteAsked
  <2> QED
    BY <2>1, <2>2
<1> QED
  BY <1>1, <1>2, <1>3, PollSeenStored, PollNotAhead, PollAnnounced DEF SInv

\* An error or a death of the daemon leaves the record alone, and the daemon
\* holds nothing of it.
LEMMA FaultSInv == ASSUME ~Overlap, TInv, SInv, Throw \/ Crash PROVE SInv'
<1> USE DEF SInv
<1>1. /\ UNCHANGED <<now, config, file, apc, req, asked, announced>>
      /\ dpc' \in {"idle", "failRead"} /\ at' = 0
  BY DEF Throw, Crash, Return, Goto, requests, history
<1>2. Serial'
  BY Alone DEF Serial
<1>3. Configured' /\ SeenStored'
  <2>1. \A a \in Adjuster : apc'[a] # "save"
    BY Alone DEF Active
  <2> QED
    BY <1>1, <2>1 DEF Configured, Polling, SeenStored, Held, Window
<1>4. NotAhead'
  <2>1. \A a \in Adjuster : apc'[a] \notin {"read", "save"}
    BY Alone DEF Active
  <2> QED
    BY <1>1, <2>1 DEF NotAhead, Polling, Held, Window, TInv, FilesOK, Time
<1>5. AdjustmentsKept' /\ AskedOfRecord'
  BY <1>1 DEF AdjustmentsKept, AskedOfRecord, NothingAsked
<1>6. AnnouncedOnce' /\ AnnouncedClosed'
  BY <1>1 DEF AnnouncedOnce, AnnouncedClosed
<1> QED
  BY <1>2, <1>3, <1>4, <1>5, <1>6

LEMMA TickSInv == ASSUME TInv, SInv, Tick PROVE SInv'
<1> USE DEF SInv
<1>1. now' = now + 1 /\ UNCHANGED <<config, file, poll, requests, asked, announced>>
  BY DEF Tick, history
<1>2. Serial' /\ Configured' /\ SeenStored'
  BY <1>1 DEF Serial, Active, Configured, SeenStored, StoredOr, poll, requests, today
<1>3. AdjustmentsKept' /\ AskedOfRecord' /\ AnnouncedOnce' /\ AnnouncedClosed'
  BY <1>1
  DEF AdjustmentsKept, AskedOfRecord, NothingAsked, AnnouncedOnce, AnnouncedClosed, poll, today
<1>4. NotAhead'
  <2>1. /\ now \in Nat /\ at \in Nat /\ \A a \in Adjuster : req[a].at \in Nat
        /\ file # None => file.day \in Nat
        /\ dpc \in Held => seen.day \in Nat
    BY DEF TInv, FilesOK, PollOK, RequestsOK, Request, NoneOr, Time, Day, DayState
  <2>2. /\ localDayString(now) \in Nat /\ localDayString(now + 1) \in Nat
        /\ localDayString(now) <= localDayString(now + 1)
    <3>1. now + 1 \in Time /\ now \in Time /\ now <= now + 1
      BY <2>1 DEF Time
    <3> QED
      BY <3>1, DayType, DayMonotone DEF Day
  <2> HIDE DEF SInv
  <2>3. NotAhead
    BY DEF SInv
  <2> QED
    BY <1>1, <2>1, <2>2, <2>3 DEF NotAhead, poll, requests, today
<1> QED
  BY <1>2, <1>3, <1>4

LEMMA AdjustSInv ==
  ASSUME ~Overlap, TInv, SInv, NEW a \in Adjuster, AdjustStep(a) \/ AdjustThrow(a) PROVE SInv'
<1> USE DEF TInv, SInv
<1>0. /\ dpc' = "idle" /\ \A b \in Adjuster \ {a} : ~Active(b) /\ ~Active(b)'
      /\ now' = now /\ at' = at /\ announced' = announced
      /\ \A b \in Adjuster \ {a} : req'[b] = req[b] /\ apc'[b] = apc[b]
  BY Alone
  DEF AdjustStep, AdjustBegin, AdjustClock, AdjustRead, AdjustSave, AdjustThrow, Answer,
      RequestGoto, history, poll, RequestsOK
<1>1. Serial' /\ Configured'
  BY <1>0 DEF Serial, Configured, Polling, Window
<1>2. SUFFICES /\ apc'[a] = "save" => req'[a].seen = StoredOr(req[a].seen.day)'
               /\ file' # None => file'.day <= localDayString(now)
               /\ req'[a].at <= now
               /\ file' # None /\ apc'[a] \in {"read", "save"} => file'.day <= localDayString(req'[a].at)
               /\ AdjustmentsKept' /\ AskedOfRecord'
               /\ AnnouncedOnce' /\ AnnouncedClosed'
  <2>1. SeenStored'
    BY <1>0, <1>2 DEF SeenStored, Active, Held, Window
  <2>2. NotAhead'
    BY <1>0, <1>2 DEF NotAhead, Active, Polling, Held, Window
  <2> QED
    BY <1>1, <1>2, <2>1, <2>2
<1>3. req[a] \in Request /\ localDayString(req[a].at) \in Day /\ now \in Nat
  BY DayType DEF RequestsOK, Request, FilesOK, Time
<1>4. CASE ~AdjustSave(a)
  <2>1. file' = file /\ asked' = asked
    BY <1>4
    DEF AdjustStep, AdjustBegin, AdjustClock, AdjustRead, AdjustThrow, history
  <2>2. AdjustmentsKept' /\ AskedOfRecord' /\ AnnouncedOnce' /\ AnnouncedClosed'
    BY <1>0, <2>1
    DEF AdjustmentsKept, AskedOfRecord, NothingAsked, AnnouncedOnce, AnnouncedClosed
  <2>3. CASE AdjustBegin(a)
    <3>1. apc'[a] = "clock" /\ req'[a].at = req[a].at
      BY <1>3, <2>3 DEF AdjustBegin, RequestGoto, RequestsOK, Request
    <3> QED
      BY <2>1, <2>2, <3>1 DEF NotAhead
  <2>4. CASE AdjustClock(a)
    <3>1. apc'[a] = "read" /\ req'[a].at = now
      BY <1>3, <2>4 DEF AdjustClock, RequestGoto, RequestsOK, Request
    <3> QED
      BY <1>3, <2>1, <2>2, <3>1 DEF NotAhead
  <2>5. CASE AdjustRead(a)
    <3> DEFINE stored == StoredOr(localDayString(req[a].at))
    <3>1. CASE Proceeds(req[a], stored)
      <4>1. apc[a] = "read" /\ apc'[a] = "save" /\ req'[a].at = req[a].at /\ req'[a].seen = stored
        BY <1>3, <2>5, <3>1 DEF AdjustRead, RequestGoto, RequestsOK, Request
      <4>2. StoredOr(req[a].seen.day)' = StoredOr(stored.day)
        BY <2>1, <4>1 DEF StoredOr
      <4>3. stored = StoredOr(stored.day)
        BY <1>3, StoredFacts
      <4> HIDE DEF stored
      <4> QED
        BY <2>1, <2>2, <4>1, <4>2, <4>3 DEF NotAhead
    <3>2. CASE ~Proceeds(req[a], stored)
      <4>1. apc'[a] = "done" /\ req'[a].at = 0
        BY <2>5, <3>2 DEF AdjustRead, Answer, RequestGoto, RequestsOK, NoRequest
      <4> QED
        BY <1>3, <2>1, <2>2, <4>1 DEF NotAhead
    <3> QED
      BY <3>1, <3>2
  <2>6. CASE AdjustThrow(a)
    <3>1. apc'[a] = "done" /\ req'[a].at = 0
      BY <2>6 DEF AdjustThrow, Answer, RequestGoto, RequestsOK, NoRequest
    <3> QED
      BY <1>3, <2>1, <2>2, <3>1 DEF NotAhead
  <2> QED
    BY <1>4, <2>3, <2>4, <2>5, <2>6 DEF AdjustStep
<1>5. CASE AdjustSave(a)
  <2> DEFINE day == localDayString(req[a].at)
             b == AdjustBase(a)
             r == req[a]
  <2>1. /\ apc[a] = "save" /\ apc'[a] = "done" /\ req'[a].at = 0
        /\ file' = Adjusted(r) /\ asked' = Told(r)
    BY <1>5 DEF AdjustSave, Answer, RequestGoto, RequestsOK, NoRequest
  <2>2. Base(b) /\ b.day = day /\ b \in DayState
    BY <2>1, AdjustBaseFacts DEF Base
  <2>3. file' \in DayState /\ file'.day = day /\ file' # None
    BY <2>1, AdjustedType, NoneAssumption
  <2>4. /\ b.snoozeMinutesTotal = InForce(day).minutes
        /\ b.skipped = InForce(day).skipped
    BY <2>2, BaseAsked
  <2>5. /\ r.kind \in AdjustmentKinds /\ r.minutes \in Nat
        /\ InForce(day) \in Asked /\ InForce(day).day = day
    BY <1>3 DEF Request, InForce, NothingAsked, HistoryOK, Asked
  <2>6. /\ r.kind = "snooze" => /\ file' = [b EXCEPT !.snoozeMinutesTotal = @ + r.minutes]
                                /\ asked' = [InForce(day) EXCEPT !.minutes = @ + r.minutes]
        /\ r.kind = "skip" => /\ file' = [b EXCEPT !.skipped = TRUE]
                              /\ asked' = [InForce(day) EXCEPT !.skipped = TRUE]
        /\ r.kind \in {"undo", "config"} => /\ file' = [b EXCEPT !.snoozeMinutesTotal = 0]
                                            /\ asked' = [InForce(day) EXCEPT !.minutes = 0]
    BY <2>1
    DEF Adjusted, Told, InForce, AdjustBase, applySnooze, applySkipToday, resetSnooze
  <2> HIDE DEF day, b, r
  <2>7. /\ asked'.day = day
        /\ file'.snoozeMinutesTotal = asked'.minutes
        /\ file'.skipped = asked'.skipped
        /\ file'.endOfDayFired = b.endOfDayFired
    <3>1. CASE r.kind = "snooze"
      BY <2>2, <2>4, <2>5, <2>6, <3>1 DEF DayState, Asked
    <3>2. CASE r.kind = "skip"
      BY <2>2, <2>4, <2>5, <2>6, <3>2 DEF DayState, Asked
    <3>3. CASE r.kind \in {"undo", "config"}
      BY <2>2, <2>4, <2>5, <2>6, <3>3 DEF DayState, Asked
    <3> QED
      BY <2>5, <3>1, <3>2, <3>3 DEF AdjustmentKinds
  <2>8. AdjustmentsKept' /\ AskedOfRecord'
    BY <1>3, <2>3, <2>7 DEF AdjustmentsKept, AskedOfRecord, Day, day
  <2>9. AnnouncedOnce' /\ AnnouncedClosed'
    <3>1. \A d \in Days : announced'[d] > 0 => /\ file' # None
                                               /\ file'.day > d \/ (file'.day = d /\ file'.endOfDayFired)
      BY <1>0, <2>2, <2>3, <2>7, LaterKeepsAnnounced
    <3> QED
      BY <1>0, <3>1 DEF AnnouncedOnce, AnnouncedClosed
  <2>10. day <= localDayString(now)
    BY <2>2 DEF Base
  <2> QED
    BY <1>3, <2>1, <2>3, <2>8, <2>9, <2>10
<1> QED
  BY <1>4, <1>5

LEMMA NextSInv == ASSUME ~Overlap, TInv, SInv, [Next]_vars PROVE SInv'
<1>1. CASE UNCHANGED vars
  BY <1>1
  DEF vars, poll, requests, history, SInv, Serial, Active, Configured, SeenStored, StoredOr,
      NotAhead, today, AdjustmentsKept, AskedOfRecord, NothingAsked, AnnouncedOnce, AnnouncedClosed
<1>2. CASE Next
  BY <1>2, TickSInv, PollSInv, FaultSInv, AdjustSInv DEF Next
<1> QED
  BY <1>1, <1>2

LEMMA AlwaysSInv == ASSUME ~Overlap PROVE Spec => [](TInv /\ SInv)
<1>1. Init => TInv /\ SInv
  BY InitTInv, InitSInv
<1>2. TInv /\ SInv /\ [Next]_vars => (TInv /\ SInv)'
  BY NextTInv, NextSInv
<1> QED
  BY <1>1, <1>2, PTL DEF Spec

\* With polls and adjustments one at a time, estado.json says of today what the
\* user was told, through every poll, retry, error and death of the daemon.
THEOREM AdjustmentsAreKept == ASSUME ~Overlap PROVE Spec => []AdjustmentsKept
<1>1. SInv => AdjustmentsKept
  BY DEF SInv
<1> QED
  BY <1>1, AlwaysSInv, PTL

\* And the result of a day is announced at most once.
THEOREM AnnouncedAtMostOnce == ASSUME ~Overlap PROVE Spec => []AnnouncedOnce
<1>1. SInv => AnnouncedOnce
  BY DEF SInv
<1> QED
  BY <1>1, AlwaysSInv, PTL

\* A capture starts only after the deadline the user last set, on a day that is
\* not skipped.
THEOREM CapturesOnlyWhenDue == ASSUME ~Overlap PROVE Spec => CaptureOnlyWhenDue
<1>1. ASSUME TInv, SInv, [Next]_vars, dpc = "endDay", dpc' = "closeSave"
      PROVE  /\ config # None
             /\ ~InForce(today).skipped
             /\ at >= computeEffectiveEndOfDay(config, InForce(today).minutes, at)
  <2>1. conf = config /\ dpc \in Held /\ seen.day = today /\ decision.kind = "endOfDay"
    BY <1>1 DEF SInv, Configured, Polling, Held, Window, TInv, PollOK, Decided
  <2>2. seen \in DayState /\ Base(seen)
    BY <1>1, <2>1, HeldBase
  <2>3. /\ conf # None /\ ~seen.skipped
        /\ at >= computeEffectiveEndOfDay(conf, seen.snoozeMinutesTotal, at)
    BY <1>1, <2>1, <2>2, DecideFacts DEF TInv, PollOK, decision, today
  <2>4. /\ seen.snoozeMinutesTotal = InForce(today).minutes
        /\ seen.skipped = InForce(today).skipped
    BY <1>1, <2>1, <2>2, BaseAsked
  <2> QED
    BY <2>1, <2>3, <2>4
<1>2. TInv /\ SInv /\ [Next]_vars =>
        [dpc = "endDay" /\ dpc' = "closeSave" =>
           LET inForce == IF asked.day = today THEN asked ELSE NothingAsked(today)
           IN  /\ config # None
               /\ ~inForce.skipped
               /\ at >= computeEffectiveEndOfDay(config, inForce.minutes, at)]_vars
  BY <1>1 DEF InForce
<1> QED
  BY <1>2, AlwaysSInv, PTL DEF Spec, CaptureOnlyWhenDue

(* ----------------------- the promise of estado.json --------------------- *)

AbstractRecord(st) == [day |-> st.day, closed |-> st.endOfDayFired, skipped |-> st.skipped]

LEMMA RecordOf ==
  ASSUME NEW st \in DayState
  PROVE  /\ AbstractRecord(st) \in [day : Nat, closed : BOOLEAN, skipped : BOOLEAN]
         /\ AbstractRecord(st) # None
BY NoneRecordAssumption DEF AbstractRecord, DayState, Day

\* Whatever is written over the stored record, from that record or a later
\* day's, is a step of ClosingDay.
LEMMA WriteRefines ==
  ASSUME TInv, NEW b, Base(b), file' \in DayState, file'.day = b.day,
         \/ file'.endOfDayFired = b.endOfDayFired /\ (b.skipped => file'.skipped)
         \/ /\ file'.endOfDayFired /\ ~b.endOfDayFired /\ ~b.skipped /\ file'.skipped = b.skipped
            /\ file = None \/ b = file
  PROVE  [Abstract!Next]_record
<1> DEFINE new == AbstractRecord(file')
           old == AbstractRecord(file)
<1>1. /\ record' = new /\ record' # None
      /\ new \in [day : Nat, closed : BOOLEAN, skipped : BOOLEAN]
      /\ new.day = b.day /\ new.closed = file'.endOfDayFired /\ new.skipped = file'.skipped
  BY RecordOf, NoneAssumption DEF record, AbstractRecord
<1>2. file # None => /\ file \in DayState /\ record = old /\ record # None
                     /\ old \in [day : Nat, closed : BOOLEAN, skipped : BOOLEAN]
                     /\ old.day = file.day /\ old.closed = file.endOfDayFired
                     /\ old.skipped = file.skipped
  BY RecordOf, NoneAssumption DEF record, AbstractRecord, TInv, FilesOK, NoneOr
<1>3. file = None => record = None
  BY DEF record
<1>4. b \in DayState /\ b.endOfDayFired \in BOOLEAN /\ b.skipped \in BOOLEAN
  BY DEF Base, DayState
<1> HIDE DEF new, old
<1>5. CASE b = file
  <2>1. file # None
    BY <1>5, NoneAssumption DEF Base
  <2>2. CASE new.closed # old.closed
    <3>1. ~old.closed /\ ~old.skipped /\ new.closed = TRUE /\ new.skipped = old.skipped
      BY <1>1, <1>2, <1>5, <2>1, <2>2
    <3>2. new = [old EXCEPT !.closed = TRUE]
      BY <1>1, <1>2, <1>5, <2>1, <3>1
    <3> QED
      BY <1>1, <1>2, <2>1, <3>1, <3>2 DEF Abstract!Next, Abstract!Close
  <2>3. CASE new.closed = old.closed /\ new.skipped # old.skipped
    <3>1. new.skipped = TRUE
      BY <1>1, <1>2, <1>5, <2>1, <2>3
    <3>2. new = [old EXCEPT !.skipped = TRUE]
      BY <1>1, <1>2, <1>5, <2>1, <2>3, <3>1
    <3> QED
      BY <1>1, <1>2, <2>1, <3>2 DEF Abstract!Next, Abstract!Skip
  <2>4. CASE new.closed = old.closed /\ new.skipped = old.skipped
    <3>1. new = old
      BY <1>1, <1>2, <1>5, <2>1, <2>4
    <3> QED
      BY <1>1, <1>2, <2>1, <3>1
  <2> QED
    BY <2>2, <2>3, <2>4
<1>6. CASE b # file /\ file = None
  <2>1. ~b.endOfDayFired /\ ~b.skipped
    BY <1>6 DEF Base
  <2>2. ~(new.closed /\ new.skipped)
    BY <1>1, <2>1
  <2> QED
    BY <1>1, <1>3, <1>6, <2>2 DEF Abstract!Next, Abstract!First
<1>7. CASE b # file /\ file # None
  <2>1. ~b.endOfDayFired /\ ~b.skipped /\ file.day < b.day
    BY <1>7 DEF Base
  <2>2. new.closed = FALSE /\ new.day > old.day
    BY <1>1, <1>2, <1>4, <1>7, <2>1 DEF DayState, Day
  <2>3. new \in [day : Nat, closed : {FALSE}, skipped : BOOLEAN]
    BY <1>1, <2>2
  <2> QED
    BY <1>1, <1>2, <1>7, <2>2, <2>3 DEF Abstract!Next, Abstract!NewDay
<1> QED
  BY <1>5, <1>6, <1>7

\* Every step of the daemon and of a request maps to a step of ClosingDay.
LEMMA NextRefines ==
  ASSUME ~Overlap, TInv, SInv, [Next]_vars PROVE [Abstract!Next]_record
<1>1. CASE file' = file
  BY <1>1 DEF record
<1>2. CASE file' # file
  <2>1. CASE PollStep
    <3>1. PICK b \in DayState : PollWrites(b)
      BY <1>2, <2>1, PollWriteFacts
    <3> QED
      BY <3>1, WriteRefines DEF PollWrites
  <2>2. CASE \E a \in Adjuster : AdjustSave(a)
    <3>1. PICK a \in Adjuster : AdjustSave(a)
      BY <2>2
    <3>2. apc[a] = "save" /\ file' = Adjusted(req[a])
      BY <3>1 DEF AdjustSave
    <3> DEFINE b == AdjustBase(a)
    <3>3. Base(b) /\ b.day = localDayString(req[a].at) /\ b \in DayState
      BY <3>2, AdjustBaseFacts DEF Base
    <3>4. file' \in DayState /\ file'.day = b.day
      BY <3>2, <3>3, AdjustedType DEF TInv
    <3>5. file' \in {[b EXCEPT !.snoozeMinutesTotal = @ + req[a].minutes],
                     [b EXCEPT !.snoozeMinutesTotal = 0], [b EXCEPT !.skipped = TRUE]}
      <4>1. req[a].kind \in AdjustmentKinds
        BY DEF TInv, RequestsOK, Request
      <4> QED
        BY <3>2, <4>1
        DEF Adjusted, AdjustBase, applySnooze, resetSnooze, applySkipToday, AdjustmentKinds
    <3> HIDE DEF b
    <3>6. file'.endOfDayFired = b.endOfDayFired /\ (b.skipped => file'.skipped)
      BY <3>3, <3>5 DEF DayState
    <3> QED
      BY <3>3, <3>4, <3>6, WriteRefines
  <2>3. CASE ~PollStep /\ ~\E a \in Adjuster : AdjustSave(a)
    BY <1>2, <2>3
    DEF Next, Tick, Throw, Crash, AdjustStep, AdjustBegin, AdjustClock, AdjustRead, AdjustThrow, vars
  <2> QED
    BY <2>1, <2>2, <2>3
<1> QED
  BY <1>1, <1>2

\* With polls and adjustments one at a time, estado.json keeps what ClosingDay
\* promises.
THEOREM Implementation == ASSUME ~Overlap PROVE Spec => ImplementsClosingDay
<1>1. Init => Abstract!Init
  BY DEF Init, Abstract!Init, record
<1>2. TInv /\ SInv /\ [Next]_vars => [Abstract!Next]_record
  BY NextRefines
<1> QED
  BY <1>1, <1>2, AlwaysSInv, PTL DEF Spec, ImplementsClosingDay, Abstract!Spec

(* ------------------------ the attempts of a session --------------------- *)

\* What the record counts for a day, and what a capture that has just returned
\* adds to it once it is saved.
Counted(d, s) == IF file # None /\ file.day = d THEN file.captureAttemptsToday[s] ELSE 0
Pending(d, s) == IF dpc = "closeSave" /\ d = today /\ s \in result.wasted THEN 1 ELSE 0

\* The record counts every attempt of its day, and none was made on a later one.
TriesCounted ==
  \A d \in Days, s \in Session :
    file = None \/ file.day <= d => tries[d][s] = Counted(d, s) + Pending(d, s)

WithinBudget == \A d \in Days, s \in Session : tries[d][s] <= MaxAttempts

BInv == Undisturbed => WithinBudget /\ TriesCounted

LEMMA InitBInv == Init => BInv
BY LimitAssumption DEF Init, BInv, WithinBudget, TriesCounted, Counted, Pending

\* The counters of a record to write from: those stored, or none yet.
CountBase(b) ==
  /\ b \in DayState
  /\ \/ b = file
     \/ /\ file = None \/ (file # None /\ file.day < b.day)
        /\ \A s \in Session : b.captureAttemptsToday[s] = 0

\* No rule but that of the attempts touches their counters; a new day starts
\* them again.
LEMMA AttemptFacts ==
  ASSUME NEW st \in DayState
  PROVE  /\ \A d \in Day : /\ st.day = d => resetIfNewDay(st, d) = st
                           /\ st.day # d => \A s \in Session :
                                resetIfNewDay(st, d).captureAttemptsToday[s] = 0
         /\ recordCycleFailure(st).captureAttemptsToday = st.captureAttemptsToday
         /\ recordCycleSuccess(st).captureAttemptsToday = st.captureAttemptsToday
         /\ \A n \in SUBSET Session, s \in Session :
              recordCaptureAttempts(st, n).captureAttemptsToday[s]
                = st.captureAttemptsToday[s] + (IF s \in n THEN 1 ELSE 0)
<1>1. \A d \in Day : /\ st.day = d => resetIfNewDay(st, d) = st
                     /\ st.day # d => \A s \in Session :
                          resetIfNewDay(st, d).captureAttemptsToday[s] = 0
  BY DEF resetIfNewDay, emptyDayState
<1>2. /\ recordCycleFailure(st).captureAttemptsToday = st.captureAttemptsToday
      /\ recordCycleSuccess(st).captureAttemptsToday = st.captureAttemptsToday
  BY DEF recordCycleFailure, recordCycleSuccess, DayState
<1>3. ASSUME NEW n \in SUBSET Session, NEW s \in Session
      PROVE  recordCaptureAttempts(st, n).captureAttemptsToday[s]
               = st.captureAttemptsToday[s] + (IF s \in n THEN 1 ELSE 0)
  BY <1>3 DEF recordCaptureAttempts, DayState
<1> QED
  BY <1>1, <1>2, <1>3

LEMMA DecisionKeepsAttempts ==
  ASSUME NEW c \in NoneOr(Nat), NEW st \in DayState, NEW t \in Time, st.day = localDayString(t),
         decideSchedule(c, st, t).kind = "leadTimeWarning"
  PROVE  decideSchedule(c, st, t).nextState.captureAttemptsToday = st.captureAttemptsToday
<1>1. resetIfNewDay(st, localDayString(t)) = st
  BY DEF resetIfNewDay
<1> QED
  BY <1>1 DEF decideSchedule, DayState

\* What the daemon, or a request, writes from has such counters.
LEMMA HeldCountBase ==
  ASSUME TInv, SInv, dpc \in Held
  PROVE  CountBase(seen)
<1>1. seen \in DayState /\ seen = StoredOr(seen.day)
  BY DEF TInv, PollOK, NoneOr, SInv, SeenStored
<1>2. CASE file # None
  BY <1>1, <1>2 DEF StoredOr, CountBase
<1>3. CASE file = None
  BY <1>1, <1>3 DEF StoredOr, CountBase, emptyDayState
<1> QED
  BY <1>2, <1>3

LEMMA ResetCountBase ==
  ASSUME TInv, NEW st \in DayState, CountBase(st), NEW d \in Day, st.day <= d
  PROVE  CountBase(resetIfNewDay(st, d)) /\ resetIfNewDay(st, d).day = d
<1>1. resetIfNewDay(st, d) \in DayState /\ resetIfNewDay(st, d).day = d
  BY ResetFacts
<1>2. CASE st.day = d
  BY <1>1, <1>2, AttemptFacts
<1>3. CASE st.day # d
  <2>1. \A s \in Session : resetIfNewDay(st, d).captureAttemptsToday[s] = 0
    BY <1>3, AttemptFacts
  <2>2. file = None \/ (file # None /\ file.day < d)
    BY <1>3, NoneAssumption DEF CountBase, DayState, Day, TInv, FilesOK, NoneOr
  <2> QED
    BY <1>1, <2>1, <2>2 DEF CountBase
<1> QED
  BY <1>2, <1>3

\* A save that keeps the counters of what it writes from keeps the count true.
LEMMA SaveKeepsCount ==
  ASSUME TInv, TriesCounted, NEW b, CountBase(b),
         file' \in DayState, file'.day = b.day,
         file'.captureAttemptsToday = b.captureAttemptsToday,
         tries' = tries, dpc # "closeSave", dpc' # "closeSave"
  PROVE  TriesCounted'
<1>1. \A d \in Days, s \in Session : Pending(d, s) = 0 /\ Pending(d, s)' = 0
  BY DEF Pending
<1>2. SUFFICES ASSUME NEW d \in Days, NEW s \in Session, file'.day <= d
               PROVE  tries[d][s] = Counted(d, s)'
  <2>1. file' # None
    BY NoneAssumption
  <2>2. ASSUME NEW d \in Days, NEW s \in Session, file'.day <= d
        PROVE  Counted(d, s)' \in Nat
    BY DEF Counted, DayState
  <2> QED
    BY <1>1, <1>2, <2>1, <2>2 DEF TriesCounted
<1>3. b \in DayState /\ b.day \in Nat /\ d \in Nat /\ file' # None /\ file \in NoneOr(DayState)
  BY NoneAssumption DEF CountBase, DayState, Day, Days, TInv, FilesOK
<1>4. file = None \/ (file # None /\ file.day <= b.day)
  BY <1>3, NoneAssumption DEF CountBase, NoneOr, DayState, Day
<1>5. tries[d][s] = Counted(d, s)
  <2>1. file = None \/ file.day <= d
    BY <1>2, <1>3, <1>4 DEF NoneOr, DayState, Day
  <2>2. Counted(d, s) \in Nat
    BY <1>3 DEF Counted, NoneOr, DayState
  <2> QED
    BY <1>1, <2>1, <2>2 DEF TriesCounted
<1>6. CASE d = b.day
  <2>1. Counted(d, s)' = b.captureAttemptsToday[s]
    BY <1>3, <1>6 DEF Counted
  <2>2. Counted(d, s) = b.captureAttemptsToday[s]
    BY <1>3, <1>6, NoneAssumption DEF Counted, CountBase, NoneOr, DayState, Day
  <2> QED
    BY <1>5, <2>1, <2>2
<1>7. CASE d # b.day
  <2>1. Counted(d, s)' = 0
    BY <1>3, <1>7 DEF Counted
  <2>2. Counted(d, s) = 0
    BY <1>2, <1>3, <1>4, <1>7 DEF Counted, NoneOr, DayState, Day
  <2> QED
    BY <1>5, <2>1, <2>2
<1> QED
  BY <1>6, <1>7

\* A step that neither writes the record nor attempts anything.
LEMMA StillCount ==
  ASSUME TriesCounted, file' = file, tries' = tries,
         \/ dpc # "closeSave" /\ dpc' # "closeSave"
         \/ UNCHANGED poll
  PROVE  TriesCounted'
<1>1. \A d \in Days, s \in Session : Pending(d, s)' = Pending(d, s)
  BY DEF Pending, poll, today
<1> QED
  BY <1>1 DEF TriesCounted, Counted

\* A capture attempts only the sessions with attempts left.
LEMMA EndDayCounts ==
  ASSUME TInv, SInv, TriesCounted, WithinBudget, EndDay
  PROVE  TriesCounted' /\ WithinBudget'
<1>1. /\ dpc = "endDay" /\ dpc' = "closeSave" /\ file' = file /\ today' = today
      /\ seen \in DayState /\ seen.day = today /\ today \in Day /\ CountBase(seen)
      /\ file = None \/ file.day <= today
      /\ tries \in [Days -> [Session -> Nat]] /\ file \in NoneOr(DayState)
  BY TodayKept, HeldCountBase, NoneAssumption
  DEF EndDay, Goto, TInv, PollOK, FilesOK, HistoryOK, NoneOr, Held, Window, Decided, DayState,
      SInv, NotAhead, Polling
<1>2. PICK wasted \in SUBSET (Session \ sessionsExhaustedToday(seen)) :
        /\ result'.wasted = wasted
        /\ CountTries(wasted)
  BY DEF EndDay
<1>3. \A s \in Session : Counted(today, s) = seen.captureAttemptsToday[s]
  BY <1>1, NoneAssumption DEF Counted, CountBase, NoneOr, DayState, Day
<1>4. \A d \in Days, s \in Session :
        /\ Pending(d, s) = 0
        /\ Pending(d, s)' = IF d = today /\ s \in wasted THEN 1 ELSE 0
        /\ Counted(d, s)' = Counted(d, s)
        /\ tries'[d][s] = tries[d][s] + (IF d = today /\ s \in wasted THEN 1 ELSE 0)
  <2> SUFFICES ASSUME NEW d \in Days, NEW s \in Session
               PROVE  /\ Pending(d, s) = 0
                      /\ Pending(d, s)' = IF d = today /\ s \in wasted THEN 1 ELSE 0
                      /\ Counted(d, s)' = Counted(d, s)
                      /\ tries'[d][s] = tries[d][s] + (IF d = today /\ s \in wasted THEN 1 ELSE 0)
    OBVIOUS
  <2>1. /\ Pending(d, s) = 0
        /\ Pending(d, s)' = IF d = today /\ s \in wasted THEN 1 ELSE 0
        /\ Counted(d, s)' = Counted(d, s)
    BY <1>1, <1>2 DEF Pending, Counted
  <2>2. tries'[d] = IF d = today
                    THEN [r \in Session |-> IF r \in wasted THEN tries[d][r] + 1 ELSE tries[d][r]]
                    ELSE tries[d]
    BY <1>1, <1>2 DEF CountTries
  <2>3. tries[d][s] \in Nat
    BY <1>1
  <2>4. tries'[d][s] = tries[d][s] + (IF d = today /\ s \in wasted THEN 1 ELSE 0)
    BY <2>2, <2>3
  <2> QED
    BY <2>1, <2>4
<1>5. TriesCounted'
  <2> SUFFICES ASSUME NEW d \in Days, NEW s \in Session, file = None \/ file.day <= d
               PROVE  tries'[d][s] = Counted(d, s)' + Pending(d, s)'
    BY <1>1 DEF TriesCounted
  <2>1. Counted(d, s) \in Nat /\ tries[d][s] = Counted(d, s) + Pending(d, s)
    BY <1>1 DEF TriesCounted, Counted, NoneOr, DayState
  <2> QED
    BY <1>4, <2>1
<1>6. WithinBudget'
  <2> SUFFICES ASSUME NEW d \in Days, NEW s \in Session PROVE tries'[d][s] <= MaxAttempts
    BY DEF WithinBudget
  <2>1. CASE d = today /\ s \in wasted
    <3>1. seen.captureAttemptsToday[s] < MaxAttempts /\ seen.captureAttemptsToday[s] \in Nat
      BY <1>1, <2>1, LimitAssumption DEF sessionsExhaustedToday, DayState
    <3>2. tries[d][s] = seen.captureAttemptsToday[s]
      <4>1. tries[d][s] = Counted(d, s) + Pending(d, s)
        BY <1>1, <2>1 DEF TriesCounted
      <4> QED
        BY <1>3, <1>4, <2>1, <3>1, <4>1
    <3> QED
      BY <1>4, <2>1, <3>1, <3>2, LimitAssumption
  <2>2. CASE ~(d = today /\ s \in wasted)
    BY <1>1, <1>4, <2>2 DEF WithinBudget
  <2> QED
    BY <2>1, <2>2
<1> QED
  BY <1>5, <1>6

\* What it attempted is saved with the record.
LEMMA CloseSaveCounts ==
  ASSUME TInv, SInv, TriesCounted, CloseSave
  PROVE  TriesCounted'
<1> DEFINE withAttempts == recordCaptureAttempts(seen, result.wasted)
<1>1. /\ dpc = "closeSave" /\ dpc' # "closeSave" /\ tries' = tries
      /\ file' = withAttempts \/ file' = [withAttempts EXCEPT !.endOfDayFired = TRUE]
      /\ seen \in DayState /\ seen.day = today /\ CountBase(seen)
      /\ result.wasted \in SUBSET Session
      /\ file = None \/ file.day <= today
      /\ today \in Nat /\ file \in NoneOr(DayState)
  BY HeldCountBase, NoneAssumption
  DEF CloseSave, Goto, Return, history, TInv, PollOK, FilesOK, NoneOr, Held, Window, Decided,
      DayState, Day, SInv, NotAhead, Polling, Result
<1>2. withAttempts \in DayState /\ withAttempts.day = seen.day
  BY <1>1, CounterFacts
<1>3. \A s \in Session : withAttempts.captureAttemptsToday[s]
                           = seen.captureAttemptsToday[s] + (IF s \in result.wasted THEN 1 ELSE 0)
  BY <1>1, AttemptFacts
<1> HIDE DEF withAttempts
<1>4. /\ file' \in DayState /\ file'.day = today
      /\ file'.captureAttemptsToday = withAttempts.captureAttemptsToday
  BY <1>1, <1>2 DEF DayState
<1>5. \A s \in Session : Counted(today, s) = seen.captureAttemptsToday[s]
  BY <1>1, NoneAssumption DEF Counted, CountBase, NoneOr, DayState, Day
<1>6. \A d \in Days, s \in Session : Pending(d, s)' = 0
  BY <1>1 DEF Pending
<1> SUFFICES ASSUME NEW d \in Days, NEW s \in Session, today <= d
             PROVE  tries[d][s] = Counted(d, s)' + Pending(d, s)'
  BY <1>1, <1>4, NoneAssumption DEF TriesCounted
<1>7. tries[d][s] = Counted(d, s) + Pending(d, s)
  <2>1. file = None \/ file.day <= d
    BY <1>1 DEF NoneOr, DayState, Day, Days
  <2> QED
    BY <2>1 DEF TriesCounted
<1>8. CASE d = today
  <2>1. Counted(d, s)' = seen.captureAttemptsToday[s] + (IF s \in result.wasted THEN 1 ELSE 0)
    BY <1>3, <1>4, <1>8, NoneAssumption DEF Counted
  <2>2. Pending(d, s) = IF s \in result.wasted THEN 1 ELSE 0
    BY <1>1, <1>8 DEF Pending
  <2>3. seen.captureAttemptsToday[s] \in Nat
    BY <1>1 DEF DayState
  <2> QED
    BY <1>5, <1>6, <1>7, <1>8, <2>1, <2>2, <2>3
<1>9. CASE d # today
  <2>1. Counted(d, s)' = 0
    BY <1>4, <1>9 DEF Counted
  <2>2. Counted(d, s) = 0 /\ Pending(d, s) = 0
    BY <1>1, <1>9 DEF Counted, Pending, NoneOr, DayState, Day, Days
  <2> QED
    BY <1>6, <1>7, <2>1, <2>2
<1> QED
  BY <1>8, <1>9

LEMMA PollCounts ==
  ASSUME TInv, SInv, TriesCounted, WithinBudget, PollStep
  PROVE  TriesCounted' /\ WithinBudget'
<1>1. CASE EndDay
  BY <1>1, EndDayCounts
<1>2. CASE ~EndDay
  <2>1. tries' = tries
    BY <1>2
    DEF PollStep, BeginPoll, ReadClock, ReadState, NotifyMissed, SaveReset, Quiet, WarnNotify,
        WarnSave, BeginEndDay, CloseSave, Announce, SuccessRead, SuccessSave, FailRead, FailSave,
        FailNotify, history
  <2>2. WithinBudget'
    BY <2>1 DEF WithinBudget
  <2>3. CASE CloseSave
    BY <2>2, <2>3, CloseSaveCounts
  <2>4. CASE SaveReset
    <3>1. /\ CountBase(seen) /\ seen \in DayState /\ today \in Day /\ seen.day <= today
          /\ dpc # "closeSave" /\ dpc' # "closeSave" /\ file' = resetIfNewDay(seen, today)
      <4>1. /\ seen = file /\ file.day <= today
        BY <2>4 DEF SaveReset, SInv, SeenStored, StoredOr, NotAhead, Held, Window, Polling
      <4> QED
        BY <2>4, <4>1, HeldCountBase, DayType
        DEF SaveReset, Goto, persisted, TInv, PollOK, NoneOr, Held, Window, today
    <3>2. CountBase(file') /\ file' \in DayState
      BY <3>1, ResetCountBase DEF CountBase
    <3> QED
      BY <2>1, <2>2, <3>1, <3>2, SaveKeepsCount
  <2>5. CASE WarnSave
    <3>1. /\ CountBase(seen) /\ seen \in DayState /\ seen.day = today
          /\ dpc # "closeSave" /\ dpc' # "closeSave" /\ at \in Time
          /\ file' = [decision.nextState EXCEPT !.lastLeadTimeWarningNoticeAt = at]
      BY <2>5, HeldCountBase
      DEF WarnSave, Return, Goto, TInv, PollOK, NoneOr, Held, Window, Decided
    <3>2. /\ decision.nextState \in DayState /\ decision.nextState.day = seen.day
          /\ decision.nextState.captureAttemptsToday = seen.captureAttemptsToday
      BY <2>5, <3>1, DecideFacts, DecisionKeepsAttempts DEF WarnSave, TInv, PollOK, decision, today
    <3>3. /\ file' \in DayState /\ file'.day = seen.day
          /\ file'.captureAttemptsToday = seen.captureAttemptsToday
      BY <3>1, <3>2 DEF DayState, NoneOr
    <3> QED
      BY <2>1, <2>2, <3>1, <3>3, SaveKeepsCount
  <2>6. CASE SuccessSave \/ FailSave
    <3>1. /\ CountBase(seen) /\ seen \in DayState
          /\ dpc # "closeSave" /\ dpc' # "closeSave"
          /\ file' \in {recordCycleSuccess(seen), recordCycleFailure(seen)}
      BY <2>6, HeldCountBase
      DEF SuccessSave, FailSave, Return, Goto, TInv, PollOK, NoneOr, Held, Window
    <3>2. /\ file' \in DayState /\ file'.day = seen.day
          /\ file'.captureAttemptsToday = seen.captureAttemptsToday
      BY <3>1, CounterFacts, AttemptFacts
    <3> QED
      BY <2>1, <2>2, <3>1, <3>2, SaveKeepsCount
  <2>7. CASE BeginPoll \/ ReadClock \/ ReadState \/ NotifyMissed \/ Quiet \/ WarnNotify
             \/ BeginEndDay \/ Announce \/ SuccessRead \/ FailRead \/ FailNotify
    <3>1. file' = file /\ dpc # "closeSave" /\ dpc' # "closeSave"
      BY <2>7
      DEF BeginPoll, ReadClock, ReadState, NotifyMissed, Quiet, WarnNotify, BeginEndDay, Announce,
          SuccessRead, FailRead, FailNotify, Return, Goto
    <3> QED
      BY <2>1, <2>2, <3>1, StillCount
  <2> QED
    BY <1>2, <2>3, <2>4, <2>5, <2>6, <2>7 DEF PollStep
<1> QED
  BY <1>1, <1>2

LEMMA AdjustCounts ==
  ASSUME ~Overlap, TInv, SInv, TriesCounted, WithinBudget, NEW a \in Adjuster, AdjustStep(a)
  PROVE  TriesCounted' /\ WithinBudget'
<1>1. tries' = tries /\ dpc = "idle" /\ dpc' = "idle"
  BY Alone
  DEF SInv, AdjustStep, AdjustBegin, AdjustClock, AdjustRead, AdjustSave, history
<1>2. WithinBudget'
  BY <1>1 DEF WithinBudget
<1>3. CASE AdjustSave(a)
  <2> DEFINE day == localDayString(req[a].at)
             r == resetIfNewDay(req[a].seen, day)
  <2>1. /\ req[a].seen \in DayState
        /\ req[a].seen = StoredOr(req[a].seen.day)
        /\ day \in Day
        /\ file # None => file.day <= day /\ file \in DayState
        /\ apc[a] = "save" /\ file' = Adjusted(req[a])
        /\ req[a].kind \in AdjustmentKinds
    BY <1>3, DayType
    DEF AdjustSave, TInv, FilesOK, RequestsOK, Request, NoneOr, SInv, SeenStored, NotAhead, Time
  <2>2. CountBase(r) /\ r.day = day /\ r \in DayState
    <3>1. CASE file = None
      <4>1. \A s \in Session : req[a].seen.captureAttemptsToday[s] = 0
        BY <2>1, <3>1 DEF StoredOr, emptyDayState
      <4>2. \A s \in Session : r.captureAttemptsToday[s] = 0
        BY <2>1, <4>1, AttemptFacts
      <4> QED
        BY <2>1, <3>1, <4>2, ResetFacts DEF CountBase
    <3>2. CASE file # None
      <4>1. req[a].seen = file /\ CountBase(file) /\ file.day <= day
        BY <2>1, <3>2 DEF StoredOr, CountBase
      <4> QED
        BY <2>1, <3>2, <4>1, ResetCountBase DEF CountBase
    <3> QED
      BY <3>1, <3>2
  <2>3. file' \in {[r EXCEPT !.snoozeMinutesTotal = @ + req[a].minutes],
                   [r EXCEPT !.snoozeMinutesTotal = 0], [r EXCEPT !.skipped = TRUE]}
    BY <2>1 DEF Adjusted, applySnooze, resetSnooze, applySkipToday, AdjustmentKinds
  <2>4. file' \in DayState
    BY <2>1, AdjustedType DEF TInv
  <2> HIDE DEF r
  <2>5. file'.day = r.day /\ file'.captureAttemptsToday = r.captureAttemptsToday
    BY <2>2, <2>3 DEF DayState
  <2> QED
    BY <1>1, <1>2, <2>2, <2>4, <2>5, SaveKeepsCount
<1>4. CASE ~AdjustSave(a)
  <2>1. file' = file
    BY <1>4 DEF AdjustStep, AdjustBegin, AdjustClock, AdjustRead
  <2> QED
    BY <1>1, <1>2, <2>1, StillCount
<1> QED
  BY <1>3, <1>4

LEMMA NextBInv ==
  ASSUME ~Overlap, TInv, SInv, BInv, [Next]_vars PROVE BInv'
<1> SUFFICES ASSUME Undisturbed' PROVE WithinBudget' /\ TriesCounted'
  BY DEF BInv
<1>1. faults \in [throws : Nat, crashes : Nat]
  BY DEF TInv, FaultsOK
<1>2. ~Throw /\ ~Crash /\ \A a \in Adjuster : ~AdjustThrow(a)
  BY <1>1 DEF Undisturbed, Throw, Crash, AdjustThrow
<1>3. Undisturbed
  BY <1>2
  DEF Undisturbed, Next, Tick, PollStep, BeginPoll, ReadClock, ReadState, NotifyMissed, SaveReset,
      Quiet, WarnNotify, WarnSave, BeginEndDay, EndDay, CloseSave, Announce, SuccessRead,
      SuccessSave, FailRead, FailSave, FailNotify, AdjustStep, AdjustBegin, AdjustClock,
      AdjustRead, AdjustSave, vars
<1>4. WithinBudget /\ TriesCounted
  BY <1>3 DEF BInv
<1>5. CASE Tick \/ UNCHANGED vars
  <2>1. file' = file /\ tries' = tries /\ UNCHANGED poll
    BY <1>5 DEF Tick, vars, history
  <2> QED
    BY <1>4, <2>1, StillCount DEF WithinBudget
<1>6. CASE PollStep
  BY <1>4, <1>6, PollCounts
<1>7. CASE \E a \in Adjuster : AdjustStep(a)
  BY <1>4, <1>7, AdjustCounts
<1> QED
  BY <1>2, <1>5, <1>6, <1>7 DEF Next

\* With polls and adjustments one at a time, and as long as nothing failed, no
\* session costs more attempts in a day than the ceiling.
THEOREM TriesStayWithinBudget == ASSUME ~Overlap PROVE Spec => []TriesWithinBudget
<1>1. Init => TInv /\ SInv /\ BInv
  BY InitTInv, InitSInv, InitBInv
<1>2. TInv /\ SInv /\ BInv /\ [Next]_vars => (TInv /\ SInv /\ BInv)'
  BY NextTInv, NextSInv, NextBInv
<1>3. BInv => TriesWithinBudget
  BY DEF BInv, WithinBudget, TriesWithinBudget
<1> QED
  BY <1>1, <1>2, <1>3, PTL DEF Spec

(* ------------------------ the report of bad health ---------------------- *)

\* A streak that was reported is at or past the threshold, in the record; the
\* step that clears the counter comes after the one that ends the streak.
UInv ==
  /\ unhealthy \/ dpc = "failNotify" => file # None /\ file.consecutiveCycleFailures >= NotifyThreshold
  /\ dpc \in {"successSave", "failNotify"} => ~unhealthy

\* The streak crosses midnight and only its own bookkeeping touches it.
LEMMA StreakFacts ==
  ASSUME NEW st \in DayState
  PROVE  /\ \A d \in Day : resetIfNewDay(st, d).consecutiveCycleFailures = st.consecutiveCycleFailures
         /\ \A n \in SUBSET Session : recordCaptureAttempts(st, n).consecutiveCycleFailures
                                        = st.consecutiveCycleFailures
         /\ recordCycleFailure(st).consecutiveCycleFailures = st.consecutiveCycleFailures + 1
<1>1. \A d \in Day : resetIfNewDay(st, d).consecutiveCycleFailures = st.consecutiveCycleFailures
  BY DEF resetIfNewDay, emptyDayState
<1>2. \A n \in SUBSET Session : recordCaptureAttempts(st, n).consecutiveCycleFailures
                                  = st.consecutiveCycleFailures
  BY DEF recordCaptureAttempts, DayState
<1>3. recordCycleFailure(st).consecutiveCycleFailures = st.consecutiveCycleFailures + 1
  BY DEF recordCycleFailure, DayState
<1> QED
  BY <1>1, <1>2, <1>3

LEMMA DecisionKeepsStreak ==
  ASSUME NEW c \in NoneOr(Nat), NEW st \in DayState, NEW t \in Time, st.day = localDayString(t),
         decideSchedule(c, st, t).kind = "leadTimeWarning"
  PROVE  decideSchedule(c, st, t).nextState.consecutiveCycleFailures = st.consecutiveCycleFailures
<1>1. resetIfNewDay(st, localDayString(t)) = st
  BY DEF resetIfNewDay
<1> QED
  BY <1>1 DEF decideSchedule, DayState

LEMMA PollUInv == ASSUME TInv, SInv, UInv, PollStep PROVE UInv'
<1>0. /\ dpc \in Held => seen \in DayState /\ seen = StoredOr(seen.day)
      /\ unhealthy \in BOOLEAN /\ NotifyThreshold \in Nat
  BY LimitAssumption DEF TInv, PollOK, HistoryOK, NoneOr, SInv, SeenStored
<1>1. CASE SaveReset \/ WarnSave \/ CloseSave
  <2>1. /\ dpc \in Held /\ dpc' \in {"decide", "success", "announce"} /\ unhealthy' = unhealthy
    BY <1>1 DEF SaveReset, WarnSave, CloseSave, Goto, Return, Held, Window, history
  <2>2. file' \in DayState /\ file'.consecutiveCycleFailures = seen.consecutiveCycleFailures
    <3>1. CASE SaveReset
      BY <1>0, <2>1, <3>1, ResetFacts, StreakFacts, DayType
      DEF SaveReset, persisted, today, TInv, PollOK
    <3>2. CASE WarnSave
      <4>1. /\ decision.nextState \in DayState
            /\ decision.nextState.consecutiveCycleFailures = seen.consecutiveCycleFailures
        BY <1>0, <2>1, <3>2, DecideFacts, DecisionKeepsStreak
        DEF WarnSave, TInv, PollOK, decision, today, Decided
      <4>2. file' = [decision.nextState EXCEPT !.lastLeadTimeWarningNoticeAt = at] /\ at \in Time
        BY <3>2 DEF WarnSave, TInv, PollOK
      <4> QED
        BY <4>1, <4>2 DEF DayState, NoneOr
    <3>3. CASE CloseSave
      <4> DEFINE withAttempts == recordCaptureAttempts(seen, result.wasted)
      <4>1. /\ withAttempts \in DayState
            /\ withAttempts.consecutiveCycleFailures = seen.consecutiveCycleFailures
        BY <1>0, <2>1, CounterFacts, StreakFacts DEF TInv, PollOK, Result
      <4>2. file' = withAttempts \/ file' = [withAttempts EXCEPT !.endOfDayFired = TRUE]
        BY <3>3 DEF CloseSave
      <4> HIDE DEF withAttempts
      <4> QED
        BY <4>1, <4>2 DEF DayState
    <3> QED
      BY <1>1, <3>1, <3>2, <3>3
  <2>3. unhealthy => seen = file
    BY <1>0, <2>1 DEF UInv, StoredOr
  <2> QED
    BY <2>1, <2>2, <2>3, NoneAssumption DEF UInv
<1>2. CASE FailSave
  <2>1. /\ dpc \in Held /\ unhealthy' = unhealthy
        /\ file' = recordCycleFailure(seen)
        /\ dpc' = "failNotify" => file'.consecutiveCycleFailures = NotifyThreshold
        /\ dpc' \in {"failNotify", "idle"}
    BY <1>2 DEF FailSave, Return, Goto, Held, history, ShouldNotifyFailure
  <2>2. /\ file' \in DayState /\ seen.consecutiveCycleFailures \in Nat
        /\ file'.consecutiveCycleFailures = seen.consecutiveCycleFailures + 1
    BY <1>0, <2>1, CounterFacts, StreakFacts DEF DayState
  <2>3. unhealthy => seen = file
    BY <1>0, <2>1 DEF UInv, StoredOr
  <2> QED
    BY <1>0, <2>1, <2>2, <2>3, NoneAssumption DEF UInv
<1>3. CASE SuccessRead \/ SuccessSave
  <2>1. unhealthy' = FALSE /\ dpc' # "failNotify"
    BY <1>3 DEF SuccessRead, SuccessSave, Return, Goto, UInv, history, TInv, HistoryOK
  <2> QED
    BY <2>1 DEF UInv
<1>4. CASE FailNotify
  <2>1. dpc = "failNotify" /\ ~unhealthy /\ file' = file /\ dpc' = "idle"
    BY <1>4 DEF FailNotify, Return, Goto, UInv
  <2> QED
    BY <2>1 DEF UInv
<1>5. CASE BeginPoll \/ ReadClock \/ ReadState \/ NotifyMissed \/ Quiet \/ WarnNotify
           \/ BeginEndDay \/ EndDay \/ Announce \/ FailRead
  <2>1. file' = file /\ unhealthy' = unhealthy /\ dpc' \notin {"successSave", "failNotify"}
    BY <1>5
    DEF BeginPoll, ReadClock, ReadState, NotifyMissed, Quiet, WarnNotify, BeginEndDay, EndDay,
        Announce, FailRead, Return, Goto, history
  <2> QED
    BY <2>1 DEF UInv
<1> QED
  BY <1>1, <1>2, <1>3, <1>4, <1>5 DEF PollStep

\* A request writes the record it read, of its own day, and leaves what is the
\* daemon's in it alone.
LEMMA AdjustSaveFacts ==
  ASSUME TInv, NEW a \in Adjuster, AdjustSave(a)
  PROVE  LET day == localDayString(req[a].at)
             r   == resetIfNewDay(req[a].seen, day)
         IN  /\ req[a].seen \in DayState /\ day \in Day /\ apc[a] = "save"
             /\ file' \in DayState /\ file' # None /\ file'.day = day
             /\ file'.consecutiveCycleFailures = r.consecutiveCycleFailures
             /\ file'.lastLeadTimeWarningNoticeAt = r.lastLeadTimeWarningNoticeAt
             /\ file'.firedLeadTimesInMinutes = r.firedLeadTimesInMinutes
             /\ file'.firedLeadTimesEffectiveEndOfDay = r.firedLeadTimesEffectiveEndOfDay
<1> DEFINE day == localDayString(req[a].at)
           r == resetIfNewDay(req[a].seen, day)
<1>1. /\ req[a].seen \in DayState /\ day \in Day
      /\ apc[a] = "save" /\ file' = Adjusted(req[a])
      /\ req[a].kind \in AdjustmentKinds
  BY DayType DEF AdjustSave, TInv, RequestsOK, Request, NoneOr
<1>2. file' \in DayState /\ file'.day = day /\ file' # None
  BY <1>1, AdjustedType, NoneAssumption DEF TInv
<1>3. file' \in {[r EXCEPT !.snoozeMinutesTotal = @ + req[a].minutes],
                 [r EXCEPT !.snoozeMinutesTotal = 0], [r EXCEPT !.skipped = TRUE]}
  BY <1>1 DEF Adjusted, applySnooze, resetSnooze, applySkipToday, AdjustmentKinds
<1>4. r \in DayState
  BY <1>1, ResetFacts
<1> HIDE DEF r
<1>5. /\ file'.consecutiveCycleFailures = r.consecutiveCycleFailures
      /\ file'.lastLeadTimeWarningNoticeAt = r.lastLeadTimeWarningNoticeAt
      /\ file'.firedLeadTimesInMinutes = r.firedLeadTimesInMinutes
      /\ file'.firedLeadTimesEffectiveEndOfDay = r.firedLeadTimesEffectiveEndOfDay
  BY <1>3, <1>4 DEF DayState
<1> QED
  BY <1>1, <1>2, <1>5 DEF r

LEMMA NextUInv == ASSUME ~Overlap, TInv, SInv, UInv, [Next]_vars PROVE UInv'
<1>1. CASE Tick \/ UNCHANGED vars
  BY <1>1 DEF Tick, vars, poll, history, UInv
<1>2. CASE PollStep
  BY <1>2, PollUInv
<1>3. CASE Throw \/ Crash
  <2>1. file' = file /\ unhealthy' = unhealthy /\ dpc' \in {"idle", "failRead"}
    BY <1>3 DEF Throw, Crash, Return, Goto, history
  <2> QED
    BY <2>1 DEF UInv
<1>4. ASSUME NEW a \in Adjuster, AdjustStep(a) \/ AdjustThrow(a) PROVE UInv'
  <2>1. unhealthy' = unhealthy /\ dpc' = dpc
    BY <1>4
    DEF AdjustStep, AdjustBegin, AdjustClock, AdjustRead, AdjustSave, AdjustThrow, history, poll
  <2>2. CASE AdjustSave(a)
    <3>1. /\ req[a].seen \in DayState /\ localDayString(req[a].at) \in Day /\ apc[a] = "save"
          /\ file' # None
          /\ file'.consecutiveCycleFailures
               = resetIfNewDay(req[a].seen, localDayString(req[a].at)).consecutiveCycleFailures
      BY <2>2, AdjustSaveFacts
    <3>2. file'.consecutiveCycleFailures = req[a].seen.consecutiveCycleFailures
      BY <3>1, StreakFacts
    <3>3. file # None => req[a].seen = file
      BY <3>1 DEF SInv, SeenStored, StoredOr
    <3> QED
      BY <2>1, <3>1, <3>2, <3>3 DEF UInv
  <2>3. CASE ~AdjustSave(a)
    <3>1. file' = file
      BY <1>4, <2>3
      DEF AdjustStep, AdjustBegin, AdjustClock, AdjustRead, AdjustThrow
    <3> QED
      BY <2>1, <3>1 DEF UInv
  <2> QED
    BY <2>2, <2>3
<1> QED
  BY <1>1, <1>2, <1>3, <1>4 DEF Next

\* With polls and adjustments one at a time, bad health is told once per streak
\* of failures, through midnights, adjustments, errors and deaths of the daemon.
THEOREM UnhealthyIsToldOnce == ASSUME ~Overlap PROVE Spec => UnhealthyToldOnce
<1>1. Init => UInv
  BY DEF Init, UInv
<1>2. Init => TInv /\ SInv /\ UInv
  BY <1>1, InitTInv, InitSInv
<1>3. TInv /\ SInv /\ UInv /\ [Next]_vars => (TInv /\ SInv /\ UInv)'
  BY NextTInv, NextSInv, NextUInv
<1>4. UInv => [dpc = "failNotify" /\ dpc' = "idle" /\ unhealthy' => ~unhealthy]_vars
  BY DEF UInv
<1> QED
  BY <1>2, <1>3, <1>4, PTL DEF Spec, UnhealthyToldOnce

(* --------------------------- lead-time notices -------------------------- *)

\* The lead times a record has as fired are among those warned for, for its
\* deadline.
FiredWarned(st, w) ==
  \A l \in st.firedLeadTimesInMinutes :
    /\ st.firedLeadTimesEffectiveEndOfDay # None
    /\ <<st.firedLeadTimesEffectiveEndOfDay, l>> \in w

\* So it is of every record stored or held, by the daemon or by a request.
WInv ==
  /\ file # None => FiredWarned(file, warned)
  /\ dpc \in Held => FiredWarned(seen, warned)
  /\ dpc = "warnSave" => FiredWarned(decision.nextState, warned)
  /\ \A a \in Adjuster : apc[a] = "save" => FiredWarned(req[a].seen, warned)

LEMMA InitWInv == Init => WInv
BY DEF Init, WInv, Held, Window

LEMMA StoredWarned ==
  ASSUME WInv, NEW d
  PROVE  FiredWarned(StoredOr(d), warned)
BY DEF WInv, FiredWarned, StoredOr, emptyDayState

LEMMA MoreWarned ==
  ASSUME NEW st, NEW w, NEW v, FiredWarned(st, w), w \subseteq v
  PROVE  FiredWarned(st, v)
BY DEF FiredWarned

\* Only the fired lead times and their deadline matter.
LEMMA SameWarned ==
  ASSUME NEW st, NEW r, NEW w, FiredWarned(st, w),
         r.firedLeadTimesInMinutes = st.firedLeadTimesInMinutes,
         r.firedLeadTimesEffectiveEndOfDay = st.firedLeadTimesEffectiveEndOfDay
  PROVE  FiredWarned(r, w)
BY DEF FiredWarned

\* A new day has fired nothing.
LEMMA ResetWarned ==
  ASSUME NEW st \in DayState, NEW d \in Day, NEW w, FiredWarned(st, w)
  PROVE  FiredWarned(resetIfNewDay(st, d), w)
<1>1. CASE st.day = d
  BY <1>1 DEF resetIfNewDay
<1>2. CASE st.day # d
  BY <1>2 DEF resetIfNewDay, FiredWarned, emptyDayState
<1> QED
  BY <1>1, <1>2

\* The counters, and the mark of the closing, are not about lead times.
LEMMA CountersWarned ==
  ASSUME NEW st \in DayState, NEW n \in SUBSET Session
  PROVE  \A r \in {recordCaptureAttempts(st, n), recordCycleFailure(st), recordCycleSuccess(st),
                   [recordCaptureAttempts(st, n) EXCEPT !.endOfDayFired = TRUE]} :
           /\ r.firedLeadTimesInMinutes = st.firedLeadTimesInMinutes
           /\ r.firedLeadTimesEffectiveEndOfDay = st.firedLeadTimesEffectiveEndOfDay
           /\ r.lastLeadTimeWarningNoticeAt = st.lastLeadTimeWarningNoticeAt
BY DEF recordCaptureAttempts, recordCycleFailure, recordCycleSuccess, DayState

\* What is decided for a record of today, where lead times are concerned.
LEMMA LeadTimeFacts ==
  ASSUME NEW c \in NoneOr(Nat), NEW st \in DayState, NEW t \in Time, st.day = localDayString(t)
  PROVE  LET effective == computeEffectiveEndOfDay(c, st.snoozeMinutesTotal, t)
             fired     == resolveFiredLeadTimes(st, effective)
             d         == decideSchedule(c, st, t)
         IN  /\ d.kind = "waiting" => c # None /\ DueLeadTimes(fired, effective, t) = {}
             /\ d.kind = "leadTimeWarning" =>
                  /\ c # None
                  /\ d.nextState.firedLeadTimesEffectiveEndOfDay = effective
                  /\ d.nextState.lastLeadTimeWarningNoticeAt = st.lastLeadTimeWarningNoticeAt
<1> DEFINE effective == computeEffectiveEndOfDay(c, st.snoozeMinutesTotal, t)
           fired == resolveFiredLeadTimes(st, effective)
           due == findDueLeadTime(fired, effective, t)
<1>1. resetIfNewDay(st, localDayString(t)) = st
  BY DEF resetIfNewDay
<1>2. CASE c = None
  BY <1>1, <1>2 DEF decideSchedule
<1>3. CASE c # None /\ st.skipped
  BY <1>1, <1>3 DEF decideSchedule
<1>4. CASE c # None /\ ~st.skipped /\ st.endOfDayFired
  BY <1>1, <1>4 DEF decideSchedule
<1>5. CASE c # None /\ ~st.skipped /\ ~st.endOfDayFired
  <2>1. decideSchedule(c, st, t) =
          IF t >= effective
          THEN [kind |-> "endOfDay", delay |-> t - effective,
                nextState |-> [st EXCEPT !.endOfDayFired = TRUE]]
          ELSE IF DueLeadTimes(fired, effective, t) = {}
          THEN [kind |-> "waiting", nextState |-> st]
          ELSE [kind |-> "leadTimeWarning",
                nextState |-> [st EXCEPT !.firedLeadTimesInMinutes = fired \cup due,
                                         !.firedLeadTimesEffectiveEndOfDay = effective]]
    BY <1>1, <1>5 DEF decideSchedule
  <2> HIDE DEF effective, fired, due
  <2>2. /\ decideSchedule(c, st, t).kind = "waiting" => DueLeadTimes(fired, effective, t) = {}
        /\ decideSchedule(c, st, t).kind = "leadTimeWarning" =>
             /\ decideSchedule(c, st, t).nextState.firedLeadTimesEffectiveEndOfDay = effective
             /\ decideSchedule(c, st, t).nextState.lastLeadTimeWarningNoticeAt
                  = st.lastLeadTimeWarningNoticeAt
    BY <2>1 DEF DayState
  <2> QED
    BY <1>5, <2>2 DEF effective, fired
<1> QED
  BY <1>2, <1>3, <1>4, <1>5

LEMMA PollWInv == ASSUME TInv, WInv, PollStep PROVE WInv'
<1>0. /\ dpc \in Held => seen \in DayState
      /\ apc' = apc /\ req' = req /\ warned \subseteq warned'
  BY DEF TInv, PollOK, NoneOr, PollStep, BeginPoll, ReadClock, ReadState, NotifyMissed, SaveReset,
         Quiet, WarnNotify, WarnSave, BeginEndDay, EndDay, CloseSave, Announce, SuccessRead,
         SuccessSave, FailRead, FailSave, FailNotify, requests, history
<1>1. \A a \in Adjuster : apc'[a] = "save" => FiredWarned(req'[a].seen, warned')
  BY <1>0, MoreWarned DEF WInv
<1>2. SUFFICES /\ file' # None => FiredWarned(file', warned')
               /\ dpc' \in Held => FiredWarned(seen', warned')
               /\ dpc' = "warnSave" => FiredWarned(decision'.nextState, warned')
  BY <1>1 DEF WInv
<1>3. CASE SaveReset
  <2>1. /\ seen \in DayState /\ today \in Day /\ FiredWarned(seen, warned)
        /\ file' = persisted /\ seen' = persisted /\ dpc' = "decide"
    BY <1>0, <1>3, DayType DEF SaveReset, Goto, Held, Window, WInv, TInv, PollOK, today
  <2> QED
    BY <1>0, <2>1, ResetWarned, MoreWarned DEF persisted
<1>4. CASE WarnNotify
  <2>1. /\ seen \in DayState /\ seen.day = today /\ FiredWarned(seen, warned)
        /\ decision.kind = "leadTimeWarning"
        /\ warned' = warned \cup {<<deadline, l>> : l \in decision.nextState.firedLeadTimesInMinutes}
        /\ decision' = decision /\ file' = file /\ seen' = seen
    BY <1>0, <1>4, DecisionKept DEF WarnNotify, Held, Window, WInv, TInv, PollOK, Decided
  <2>2. /\ conf # None
        /\ decision.nextState.firedLeadTimesEffectiveEndOfDay = deadline
    BY <2>1, LeadTimeFacts DEF TInv, PollOK, decision, deadline, today
  <2>3. deadline # None
    BY <2>1, <2>2, DeadlineType, NoneAssumption DEF deadline, TInv, PollOK, NoneOr, DayState, Time
  <2>4. FiredWarned(decision.nextState, warned')
    BY <2>1, <2>2, <2>3 DEF FiredWarned
  <2> QED
    BY <1>0, <2>1, <2>4, MoreWarned DEF WInv
<1>5. CASE WarnSave
  <2>1. /\ decision.nextState \in DayState /\ FiredWarned(decision.nextState, warned)
        /\ file' = [decision.nextState EXCEPT !.lastLeadTimeWarningNoticeAt = at]
        /\ dpc' = "success"
    BY <1>0, <1>5, DecideFacts
    DEF WarnSave, Return, Goto, Held, Window, WInv, TInv, PollOK, Decided, decision, today
  <2>2. /\ file'.firedLeadTimesInMinutes = decision.nextState.firedLeadTimesInMinutes
        /\ file'.firedLeadTimesEffectiveEndOfDay = decision.nextState.firedLeadTimesEffectiveEndOfDay
    BY <2>1 DEF DayState
  <2>3. FiredWarned(file', warned)
    BY <2>1, <2>2, SameWarned
  <2> QED
    BY <1>0, <2>1, <2>3, MoreWarned DEF Held, Window
<1>6. CASE CloseSave \/ SuccessSave \/ FailSave
  <2>1. /\ dpc \in Held /\ seen \in DayState /\ FiredWarned(seen, warned)
        /\ result.wasted \in SUBSET Session
        /\ file' \in {recordCaptureAttempts(seen, result.wasted), recordCycleFailure(seen),
                      recordCycleSuccess(seen),
                      [recordCaptureAttempts(seen, result.wasted) EXCEPT !.endOfDayFired = TRUE]}
        /\ dpc' \notin Held
    BY <1>0, <1>6
    DEF CloseSave, SuccessSave, FailSave, Return, Goto, Held, Window, WInv, TInv, PollOK, Result
  <2>2. /\ file'.firedLeadTimesInMinutes = seen.firedLeadTimesInMinutes
        /\ file'.firedLeadTimesEffectiveEndOfDay = seen.firedLeadTimesEffectiveEndOfDay
    BY <2>1, CountersWarned
  <2>3. FiredWarned(file', warned)
    BY <2>1, <2>2, SameWarned
  <2> QED
    BY <1>0, <2>1, <2>3, MoreWarned DEF Held, Window
<1>7. CASE ReadState \/ SuccessRead \/ FailRead
  <2>1. /\ file' = file /\ dpc' # "warnSave"
        /\ dpc' \in Held => \E d : seen' = StoredOr(d)
    BY <1>7 DEF ReadState, SuccessRead, FailRead, Return, Goto, Held, Window
  <2> QED
    BY <1>0, <2>1, StoredWarned, MoreWarned DEF WInv
<1>8. CASE NotifyMissed \/ BeginEndDay \/ EndDay
  <2>1. file' = file /\ seen' = seen /\ dpc \in Held /\ dpc' # "warnSave"
    BY <1>8 DEF NotifyMissed, BeginEndDay, EndDay, Goto, Held, Window
  <2> QED
    BY <1>0, <2>1, MoreWarned DEF WInv
<1>9. CASE BeginPoll \/ ReadClock \/ Quiet \/ Announce \/ FailNotify
  <2>1. file' = file /\ dpc' \notin Held
    BY <1>9 DEF BeginPoll, ReadClock, Quiet, Announce, FailNotify, Return, Goto, Held, Window
  <2> QED
    BY <1>0, <2>1, MoreWarned DEF WInv, Held, Window
<1> QED
  BY <1>3, <1>4, <1>5, <1>6, <1>7, <1>8, <1>9 DEF PollStep

LEMMA NextWInv == ASSUME TInv, WInv, [Next]_vars PROVE WInv'
<1>1. CASE Tick \/ UNCHANGED vars
  <2>1. UNCHANGED <<file, dpc, seen, conf, at, apc, req, warned>>
    BY <1>1 DEF Tick, vars, poll, requests, history
  <2>2. decision' = decision
    BY <2>1, DecisionKept
  <2> QED
    BY <2>1, <2>2 DEF WInv
<1>2. CASE PollStep
  BY <1>2, PollWInv
<1>3. CASE Throw \/ Crash
  <2>1. UNCHANGED <<file, apc, req, warned>> /\ dpc' \in {"idle", "failRead"}
    BY <1>3 DEF Throw, Crash, Return, Goto, requests, history
  <2> QED
    BY <2>1 DEF WInv, Held, Window
<1>4. ASSUME NEW a \in Adjuster, AdjustStep(a) \/ AdjustThrow(a) PROVE WInv'
  <2>1. UNCHANGED <<dpc, seen, conf, at, warned>>
    BY <1>4
    DEF AdjustStep, AdjustBegin, AdjustClock, AdjustRead, AdjustSave, AdjustThrow, poll, history
  <2>2. decision' = decision
    BY <2>1, DecisionKept
  <2>3. file' # None => FiredWarned(file', warned)
    <3>1. CASE AdjustSave(a)
      <4> DEFINE r == resetIfNewDay(req[a].seen, localDayString(req[a].at))
      <4>1. /\ req[a].seen \in DayState /\ localDayString(req[a].at) \in Day /\ apc[a] = "save"
            /\ file'.firedLeadTimesInMinutes = r.firedLeadTimesInMinutes
            /\ file'.firedLeadTimesEffectiveEndOfDay = r.firedLeadTimesEffectiveEndOfDay
        BY <3>1, AdjustSaveFacts
      <4>2. FiredWarned(r, warned)
        BY <4>1, ResetWarned DEF WInv
      <4> QED
        BY <4>1, <4>2, SameWarned
    <3>2. CASE ~AdjustSave(a)
      BY <1>4, <3>2 DEF AdjustStep, AdjustBegin, AdjustClock, AdjustRead, AdjustThrow, WInv
    <3> QED
      BY <3>1, <3>2
  <2>4. ASSUME NEW b \in Adjuster, apc'[b] = "save" PROVE FiredWarned(req'[b].seen, warned)
    <3>1. apc \in [Adjuster -> RequestState] /\ req \in [Adjuster -> Request]
      BY DEF TInv, RequestsOK
    <3>2. CASE b # a
      <4>1. apc'[b] = apc[b] /\ req'[b] = req[b]
        BY <1>4, <3>1, <3>2
        DEF AdjustStep, AdjustBegin, AdjustClock, AdjustRead, AdjustSave, AdjustThrow, Answer,
            RequestGoto
      <4> QED
        BY <2>4, <4>1 DEF WInv
    <3>3. CASE b = a
      <4>1. AdjustRead(a) /\ req'[a].seen = StoredOr(localDayString(req[a].at))
        BY <1>4, <2>4, <3>1, <3>3
        DEF AdjustStep, AdjustBegin, AdjustClock, AdjustRead, AdjustSave, AdjustThrow, Answer,
            RequestGoto, Request
      <4> QED
        BY <3>3, <4>1, StoredWarned
    <3> QED
      BY <3>2, <3>3
  <2> QED
    BY <2>1, <2>2, <2>3, <2>4 DEF WInv
<1> QED
  BY <1>1, <1>2, <1>3, <1>4 DEF Next

\* Whatever overlaps, throws or dies: a poll that leaves the person in peace has
\* warned for every lead time of this deadline that has come, or marked it as warned
\* within the hysteresis of another.
THEOREM EveryDeadlineIsWarned == Spec => EveryDeadlineWarned
<1>1. ASSUME TInv, WInv, dpc = "decide", decision.kind = "waiting",
             NEW l \in LeadTimes, at + l >= deadline
      PROVE  <<deadline, l>> \in warned
  <2>1. /\ seen \in DayState /\ seen.day = today /\ FiredWarned(seen, warned)
        /\ conf \in NoneOr(Nat) /\ at \in Time
    BY <1>1 DEF TInv, PollOK, NoneOr, WInv, Held, Window, Decided
  <2>2. DueLeadTimes(resolveFiredLeadTimes(seen, deadline), deadline, at) = {}
    BY <1>1, <2>1, LeadTimeFacts DEF decision, deadline, today
  <2>3. l \in resolveFiredLeadTimes(seen, deadline)
    BY <1>1, <2>2 DEF DueLeadTimes
  <2> QED
    BY <2>1, <2>3 DEF resolveFiredLeadTimes, FiredWarned
<1>2. TInv /\ WInv =>
        [dpc = "decide" /\ dpc' = "success" /\ decision.kind = "waiting" =>
           \A l \in LeadTimes : at + l >= deadline => <<deadline, l>> \in warned]_vars
  BY <1>1
<1>3. Init => TInv /\ WInv
  BY InitTInv, InitWInv
<1>4. TInv /\ WInv /\ [Next]_vars => (TInv /\ WInv)'
  BY NextTInv, NextWInv
<1> QED
  BY <1>2, <1>3, <1>4, PTL DEF Spec, EveryDeadlineWarned

\* The record carries the stamp of the last notice shown, or is of a later day.
Stamped(st, t) ==
  \/ st.day > localDayString(t)
  \/ st.day = localDayString(t) /\ st.lastLeadTimeWarningNoticeAt \in Time
                                /\ t <= st.lastLeadTimeWarningNoticeAt

\* A notice just shown is about to be stamped with the instant of the poll.
NInv ==
  Undisturbed /\ shown # None =>
    /\ shown <= now
    /\ dpc \in Polling \ {"clock"} => shown <= at
    /\ dpc # "warnSave" => file # None /\ Stamped(file, shown)

\* A save that starts a later day, or keeps the stamp, keeps that so.
LEMMA SaveStamped ==
  ASSUME TInv, NEW b \in DayState, NEW t \in Time, file # None, Stamped(file, t),
         b = file \/ file.day < b.day,
         file' \in DayState, file'.day = b.day,
         b = file => file'.lastLeadTimeWarningNoticeAt = b.lastLeadTimeWarningNoticeAt
  PROVE  file' # None /\ Stamped(file', t)
<1>1. /\ file' # None /\ file \in DayState /\ localDayString(t) \in Nat
      /\ file.day \in Nat /\ b.day \in Nat
  BY NoneAssumption, DayType DEF TInv, FilesOK, NoneOr, DayState, Day
<1>2. CASE b = file
  BY <1>1, <1>2 DEF Stamped
<1>3. CASE file.day < b.day
  <2>1. file.day >= localDayString(t)
    BY <1>1 DEF Stamped
  <2> QED
    BY <1>1, <1>3, <2>1 DEF Stamped
<1> QED
  BY <1>2, <1>3

LEMMA PollNInv ==
  ASSUME TInv, SInv, NInv, PollStep, Undisturbed
  PROVE  NInv'
<1>0. /\ now' = now /\ now \in Nat /\ at \in Nat /\ shown \in NoneOr(Nat)
      /\ dpc \in Held => seen \in DayState /\ seen = StoredOr(seen.day)
  BY DEF PollStep, BeginPoll, ReadClock, ReadState, NotifyMissed, SaveReset, Quiet, WarnNotify,
         WarnSave, BeginEndDay, EndDay, CloseSave, Announce, SuccessRead, SuccessSave, FailRead,
         FailSave, FailNotify, TInv, FilesOK, PollOK, HistoryOK, NoneOr, Time, SInv, SeenStored
<1> SUFFICES ASSUME shown' # None
             PROVE  /\ shown' <= now'
                    /\ dpc' \in Polling \ {"clock"} => shown' <= at'
                    /\ dpc' # "warnSave" => file' # None /\ Stamped(file', shown')
  BY DEF NInv
<1>1. CASE WarnNotify
  <2>1. /\ at <= now /\ at' = at /\ dpc' = "warnSave" /\ dpc = "decide"
        /\ shown' \in {shown, at}
    BY <1>1 DEF WarnNotify, Goto, SInv, NotAhead
  <2> QED
    BY <1>0, <2>1 DEF NInv, Polling, Window
<1>2. CASE ~WarnNotify
  <2>1. shown' = shown
    BY <1>2
    DEF PollStep, BeginPoll, ReadClock, ReadState, NotifyMissed, SaveReset, Quiet, WarnSave,
        BeginEndDay, EndDay, CloseSave, Announce, SuccessRead, SuccessSave, FailRead, FailSave,
        FailNotify, history
  <2>2. /\ shown \in Time /\ shown <= now
        /\ dpc \in Polling \ {"clock"} => shown <= at
        /\ dpc # "warnSave" => file # None /\ Stamped(file, shown)
    BY <1>0, <2>1 DEF NInv, NoneOr, Time
  <2>3. dpc' \in Polling \ {"clock"} => shown <= at'
    BY <1>0, <1>2, <2>2
    DEF PollStep, BeginPoll, ReadClock, ReadState, NotifyMissed, SaveReset, Quiet, WarnSave,
        BeginEndDay, EndDay, CloseSave, Announce, SuccessRead, SuccessSave, FailRead, FailSave,
        FailNotify, Return, Goto, Polling, Window
  <2>4. CASE WarnSave
    <3>1. /\ dpc = "warnSave" /\ dpc \in Held /\ seen.day = today /\ today \in Nat
          /\ file' = [decision.nextState EXCEPT !.lastLeadTimeWarningNoticeAt = at] /\ shown <= at
      BY <2>2, <2>4, DayType
      DEF WarnSave, Held, Polling, Window, TInv, PollOK, Decided, today, Day
    <3>2. decision.nextState \in DayState /\ decision.nextState.day = today
      BY <1>0, <3>1, DecideFacts DEF TInv, PollOK, decision, today
    <3>3. file' \in DayState /\ file'.day = today /\ file'.lastLeadTimeWarningNoticeAt = at
      BY <1>0, <3>1, <3>2 DEF DayState, NoneOr, Time
    <3>4. localDayString(shown) <= today /\ localDayString(shown) \in Nat
      BY <1>0, <2>2, <3>1, DayMonotone, DayType DEF today, Time, Day
    <3>5. Stamped(file', shown)
      BY <1>0, <3>1, <3>3, <3>4 DEF Stamped, Time
    <3> QED
      BY <1>0, <2>1, <2>2, <2>3, <3>3, <3>5, NoneAssumption
  <2>5. CASE SaveReset
    <3>1. /\ seen = file /\ file # None /\ seen \in DayState /\ today \in Day /\ seen.day # today
          /\ file.day <= today /\ dpc = "saveReset"
          /\ file' = resetIfNewDay(seen, today)
      BY <1>0, <2>5, DayType
      DEF SaveReset, persisted, SInv, SeenStored, StoredOr, NotAhead, TInv, PollOK, Held, Window,
          Polling, today
    <3> DEFINE r == resetIfNewDay(seen, today)
    <3>2. r \in DayState /\ r.day = today /\ file' = r
      BY <3>1, ResetFacts
    <3> HIDE DEF r
    <3>3. file.day < r.day /\ r # file
      BY <3>1, <3>2 DEF DayState, Day
    <3>4. file' # None /\ Stamped(file', shown)
      BY <2>2, <3>1, <3>2, <3>3, SaveStamped
    <3> QED
      BY <1>0, <2>1, <2>2, <2>3, <3>4
  <2>6. CASE CloseSave \/ SuccessSave \/ FailSave
    <3>1. /\ dpc \in Held /\ dpc # "warnSave" /\ result.wasted \in SUBSET Session
          /\ file' \in {recordCaptureAttempts(seen, result.wasted), recordCycleFailure(seen),
                        recordCycleSuccess(seen),
                        [recordCaptureAttempts(seen, result.wasted) EXCEPT !.endOfDayFired = TRUE]}
      BY <2>6 DEF CloseSave, SuccessSave, FailSave, Held, Window, TInv, PollOK, Result
    <3>2. /\ seen = file /\ seen \in DayState
      BY <1>0, <2>2, <3>1 DEF StoredOr
    <3> DEFINE withAttempts == recordCaptureAttempts(seen, result.wasted)
    <3>3. withAttempts \in DayState /\ withAttempts.day = seen.day
      BY <3>1, <3>2, CounterFacts
    <3>4. file' \in DayState /\ file'.day = seen.day
      <4>1. CASE file' = [withAttempts EXCEPT !.endOfDayFired = TRUE]
        <5> HIDE DEF withAttempts
        <5> QED
          BY <3>3, <4>1 DEF DayState
      <4>2. CASE file' \in {withAttempts, recordCycleFailure(seen), recordCycleSuccess(seen)}
        BY <3>2, <3>3, <4>2, CounterFacts
      <4> QED
        BY <3>1, <4>1, <4>2
    <3> HIDE DEF withAttempts
    <3>5. file'.lastLeadTimeWarningNoticeAt = seen.lastLeadTimeWarningNoticeAt
      BY <3>1, <3>2, CountersWarned
    <3> QED
      BY <1>0, <2>1, <2>2, <2>3, <3>1, <3>2, <3>4, <3>5, SaveStamped
  <2>7. CASE ~(WarnSave \/ SaveReset \/ CloseSave \/ SuccessSave \/ FailSave)
    <3>1. file' = file /\ dpc # "warnSave"
      BY <1>2, <2>7
      DEF PollStep, BeginPoll, ReadClock, ReadState, NotifyMissed, Quiet, BeginEndDay, EndDay,
          Announce, SuccessRead, FailRead, FailNotify
    <3> QED
      BY <1>0, <2>1, <2>2, <2>3, <3>1
  <2> QED
    BY <2>4, <2>5, <2>6, <2>7
<1> QED
  BY <1>1, <1>2

LEMMA AdjustNInv ==
  ASSUME ~Overlap, TInv, SInv, NInv, Undisturbed, NEW a \in Adjuster, AdjustStep(a)
  PROVE  NInv'
<1>1. /\ dpc = "idle" /\ dpc' = "idle" /\ now' = now /\ shown' = shown /\ shown \in NoneOr(Time)
  BY Alone
  DEF SInv, AdjustStep, AdjustBegin, AdjustClock, AdjustRead, AdjustSave, history, TInv, HistoryOK
<1> SUFFICES ASSUME shown # None
             PROVE  shown <= now /\ file' # None /\ Stamped(file', shown)
  BY <1>1 DEF NInv, Polling, Window
<1>2. /\ shown \in Time /\ shown <= now /\ file # None /\ Stamped(file, shown)
  BY <1>1 DEF NInv, NoneOr
<1>3. CASE AdjustSave(a)
  <2> DEFINE day == localDayString(req[a].at)
             r == resetIfNewDay(req[a].seen, day)
  <2>1. /\ req[a].seen = file /\ file \in DayState /\ day \in Day /\ file.day <= day
        /\ file' \in DayState /\ file'.day = day
        /\ file'.lastLeadTimeWarningNoticeAt = r.lastLeadTimeWarningNoticeAt
    BY <1>2, <1>3, AdjustSaveFacts DEF SInv, SeenStored, StoredOr, NotAhead
  <2>2. r \in DayState /\ r.day = day /\ (file.day = day => r = file)
    BY <2>1, ResetFacts
  <2>3. r = file \/ file.day < r.day
    BY <2>1, <2>2 DEF DayState, Day
  <2> HIDE DEF r, day
  <2> QED
    BY <1>2, <2>1, <2>2, <2>3, SaveStamped
<1>4. CASE ~AdjustSave(a)
  BY <1>2, <1>4 DEF AdjustStep, AdjustBegin, AdjustClock, AdjustRead
<1> QED
  BY <1>3, <1>4

LEMMA NextNInv == ASSUME ~Overlap, TInv, SInv, NInv, [Next]_vars PROVE NInv'
<1> SUFFICES ASSUME Undisturbed' PROVE NInv'
  BY DEF NInv
<1>1. faults \in [throws : Nat, crashes : Nat]
  BY DEF TInv, FaultsOK
<1>2. ~Throw /\ ~Crash /\ \A a \in Adjuster : ~AdjustThrow(a)
  BY <1>1 DEF Undisturbed, Throw, Crash, AdjustThrow
<1>3. Undisturbed
  BY <1>2
  DEF Undisturbed, Next, Tick, PollStep, BeginPoll, ReadClock, ReadState, NotifyMissed, SaveReset,
      Quiet, WarnNotify, WarnSave, BeginEndDay, EndDay, CloseSave, Announce, SuccessRead,
      SuccessSave, FailRead, FailSave, FailNotify, AdjustStep, AdjustBegin, AdjustClock,
      AdjustRead, AdjustSave, vars
<1>4. CASE Tick \/ UNCHANGED vars
  <2>1. UNCHANGED <<file, dpc, at, shown>> /\ now' >= now /\ now \in Nat /\ shown \in NoneOr(Nat)
    BY <1>4 DEF Tick, vars, poll, history, TInv, FilesOK, HistoryOK, Time, NoneOr
  <2>2. now' \in Nat
    BY <1>4, <2>1 DEF Tick, vars
  <2> QED
    BY <1>3, <2>1, <2>2 DEF NInv, NoneOr
<1>5. CASE PollStep
  BY <1>3, <1>5, PollNInv
<1>6. CASE \E a \in Adjuster : AdjustStep(a)
  BY <1>3, <1>6, AdjustNInv
<1> QED
  BY <1>2, <1>4, <1>5, <1>6 DEF Next

\* With polls and adjustments one at a time, and as long as nothing failed, two
\* lead-time notices shown the same day are the hysteresis apart.
THEOREM LeadNoticesAreSpaced == ASSUME ~Overlap PROVE Spec => LeadNoticesSpaced
<1>1. ASSUME TInv, SInv, NInv, [Next]_vars,
             Undisturbed, shown # None, shown' # shown,
             localDayString(shown) = localDayString(shown')
      PROVE  shown' - shown >= Hysteresis
  <2>1. /\ WarnNotify /\ shown' = at
        /\ ~shouldSuppressLeadTimeWarning(seen.lastLeadTimeWarningNoticeAt, at)
    BY <1>1
    DEF Next, Tick, PollStep, BeginPoll, ReadClock, ReadState, NotifyMissed, SaveReset, Quiet,
        WarnNotify, WarnSave, BeginEndDay, EndDay, CloseSave, Announce, SuccessRead, SuccessSave,
        FailRead, FailSave, FailNotify, Throw, Crash, AdjustStep, AdjustBegin, AdjustClock,
        AdjustRead, AdjustSave, AdjustThrow, history, vars
  <2>2. /\ dpc = "decide" /\ seen.day = today /\ seen = StoredOr(seen.day) /\ at \in Time
        /\ shown \in Time /\ file # None /\ Stamped(file, shown)
    BY <1>1, <2>1
    DEF WarnNotify, TInv, PollOK, HistoryOK, NoneOr, SInv, SeenStored, NInv, Held, Window, Decided
  <2>3. seen = file /\ localDayString(shown) = today /\ today \in Nat
    BY <1>1, <2>1, <2>2, DayType DEF StoredOr, today, Day
  <2>4. /\ seen.lastLeadTimeWarningNoticeAt \in Time
        /\ shown <= seen.lastLeadTimeWarningNoticeAt
    BY <2>2, <2>3 DEF Stamped
  <2>5. at - seen.lastLeadTimeWarningNoticeAt >= Hysteresis
    BY <2>1, <2>2, <2>4, NoneAssumption, LimitAssumption DEF shouldSuppressLeadTimeWarning, Time
  <2> QED
    BY <2>1, <2>2, <2>4, <2>5, LimitAssumption DEF Time
<1>2. TInv /\ SInv /\ NInv /\ [Next]_vars =>
        [/\ Undisturbed
         /\ shown # None /\ shown' # shown
         /\ localDayString(shown) = localDayString(shown')
         => shown' - shown >= Hysteresis]_vars
  BY <1>1
<1>3. Init => NInv
  BY DEF Init, NInv
<1>4. Init => TInv /\ SInv /\ NInv
  BY <1>3, InitTInv, InitSInv
<1>5. TInv /\ SInv /\ NInv /\ [Next]_vars => (TInv /\ SInv /\ NInv)'
  BY NextTInv, NextSInv, NextNInv
<1> QED
  BY <1>2, <1>4, <1>5, PTL DEF Spec, LeadNoticesSpaced
(* ------------- what holds while polls and adjustments overlap ------------ *)

\* A capture starts on a day the poll has read as due, open and not skipped, and takes no
\* session whose attempts were used up by what it read.
CapturesByWhatWasRead ==
  [][dpc = "endDay" /\ dpc' = "closeSave" =>
       /\ conf # None /\ seen.day = today
       /\ ~seen.skipped /\ ~seen.endOfDayFired
       /\ at >= computeEffectiveEndOfDay(conf, seen.snoozeMinutesTotal, at)
       /\ \A s \in sessionsExhaustedToday(seen) : tries'[today][s] = tries[today][s]]_vars

\* A request that comes between the read and the capture costs no more than its own
\* effect: the capture is still due, open, not skipped and within the attempts by the
\* record and the configuration the poll read, of this very day, whatever overlaps.
THEOREM CapturesAsRead == Spec => CapturesByWhatWasRead
<1>1. ASSUME TInv, [Next]_vars, dpc = "endDay", dpc' = "closeSave"
      PROVE  /\ conf # None /\ seen.day = today
             /\ ~seen.skipped /\ ~seen.endOfDayFired
             /\ at >= computeEffectiveEndOfDay(conf, seen.snoozeMinutesTotal, at)
             /\ \A s \in sessionsExhaustedToday(seen) : tries'[today][s] = tries[today][s]
  <2>1. /\ seen \in DayState /\ seen.day = today /\ decision.kind = "endOfDay"
        /\ conf \in NoneOr(Nat) /\ at \in Time /\ tries \in [Days -> [Session -> Nat]]
    BY <1>1 DEF TInv, PollOK, HistoryOK, NoneOr, Held, Window, Decided
  <2>2. /\ conf # None /\ ~seen.skipped /\ ~seen.endOfDayFired
        /\ at >= computeEffectiveEndOfDay(conf, seen.snoozeMinutesTotal, at)
    BY <2>1, DecideFacts DEF decision, today
  <2>3. EndDay
    <3>1. CASE UNCHANGED vars
      BY <1>1, <3>1 DEF vars, poll
    <3>2. ASSUME NEW a \in Adjuster, AdjustStep(a) \/ AdjustThrow(a) PROVE FALSE
      BY <1>1, <3>2
      DEF AdjustStep, AdjustBegin, AdjustClock, AdjustRead, AdjustSave, AdjustThrow, poll
    <3>3. CASE Tick \/ Throw \/ Crash
      BY <1>1, <3>3 DEF Tick, Throw, Crash, Return, Goto, poll
    <3>4. CASE PollStep
      BY <1>1, <3>4
      DEF PollStep, BeginPoll, ReadClock, ReadState, NotifyMissed, SaveReset, Quiet, WarnNotify,
          WarnSave, BeginEndDay, CloseSave, Announce, SuccessRead, SuccessSave, FailRead,
          FailSave, FailNotify
    <3> QED
      BY <1>1, <3>1, <3>2, <3>3, <3>4 DEF Next
  <2>4. PICK attempted \in SUBSET (Session \ sessionsExhaustedToday(seen)) :
          \E wasted \in SUBSET attempted : CountTries(wasted)
    BY <2>3 DEF EndDay
  <2>5. PICK wasted \in SUBSET attempted : CountTries(wasted)
    BY <2>4
  <2>6. ASSUME NEW s \in sessionsExhaustedToday(seen) PROVE tries'[today][s] = tries[today][s]
    <3>1. s \in Session /\ s \notin wasted
      BY <2>4, <2>5, <2>6 DEF sessionsExhaustedToday
    <3>2. CASE today \in Days
      BY <2>1, <2>5, <3>1, <3>2 DEF CountTries
    <3>3. CASE today \notin Days
      <4>1. tries' = tries
        BY <2>1, <2>5, <3>3 DEF CountTries
      <4> QED
        BY <2>3, <4>1 DEF EndDay, today
    <3> QED
      BY <3>2, <3>3
  <2> QED
    BY <2>1, <2>2, <2>6
<1>2. TInv /\ [Next]_vars =>
        [dpc = "endDay" /\ dpc' = "closeSave" =>
           /\ conf # None /\ seen.day = today
           /\ ~seen.skipped /\ ~seen.endOfDayFired
           /\ at >= computeEffectiveEndOfDay(conf, seen.snoozeMinutesTotal, at)
           /\ \A s \in sessionsExhaustedToday(seen) : tries'[today][s] = tries[today][s]]_vars
  BY <1>1
<1> QED
  BY <1>2, AlwaysTInv, PTL DEF Spec, CapturesByWhatWasRead

\* No record, stored or held by a poll or a request, is of a day to come.
NoneOfTomorrow == file # None => file.day <= localDayString(now)

Arrived ==
  /\ at <= now /\ NoneOfTomorrow
  /\ dpc \in Held => seen.day <= localDayString(now)
  /\ \A a \in Adjuster : /\ req[a].at <= now
                         /\ apc[a] = "save" => req[a].seen.day <= localDayString(now)

LEMMA StoredArrived ==
  ASSUME TInv, Arrived, NEW d \in Day, d <= localDayString(now)
  PROVE  StoredOr(d).day <= localDayString(now)
BY DEF Arrived, NoneOfTomorrow, StoredOr, emptyDayState

LEMMA PollArrived == ASSUME TInv, Arrived, PollStep PROVE Arrived'
<1>1. /\ today \in Day /\ today <= localDayString(now)
      /\ localDayString(now) \in Day /\ localDayString(now) <= localDayString(now)
      /\ now \in Time /\ at \in Time
  <2>1. now \in Time /\ at \in Time /\ at <= now
    BY DEF TInv, FilesOK, PollOK, Arrived
  <2>2. today \in Day /\ localDayString(now) \in Day /\ today <= localDayString(now)
    BY <2>1, DayType, DayMonotone DEF today
  <2> QED
    BY <2>1, <2>2 DEF Day
<1>2. UNCHANGED <<now, requests>>
  BY DEF PollStep, BeginPoll, ReadClock, ReadState, NotifyMissed, SaveReset, Quiet, WarnNotify, WarnSave,
         BeginEndDay, EndDay, CloseSave, Announce, SuccessRead, SuccessSave, FailRead, FailSave, FailNotify
<1>3. at' <= now
  <2>1. at' \in {at, now, 0}
    BY DEF PollStep, BeginPoll, ReadClock, ReadState, NotifyMissed, SaveReset, Quiet, WarnNotify, WarnSave,
           BeginEndDay, EndDay, CloseSave, Announce, SuccessRead, SuccessSave, FailRead, FailSave, FailNotify,
           Return
  <2> QED
    BY <1>1, <2>1 DEF Arrived, Time
<1>4. dpc \in Held => seen \in DayState /\ seen.day <= localDayString(now)
  BY DEF TInv, PollOK, NoneOr, Arrived
<1>5. file' # None => file'.day <= localDayString(now)
  <2>1. CASE SaveReset
    <3>1. persisted.day = today
      BY <1>1, <1>4, <2>1, ResetFacts DEF SaveReset, Held, Window, persisted
    <3> QED
      BY <1>1, <2>1, <3>1 DEF SaveReset
  <2>2. CASE WarnSave
    <3>1. /\ seen \in DayState /\ seen.day <= localDayString(now) /\ seen.day = today
          /\ decision.kind = "leadTimeWarning"
      BY <1>4, <2>2 DEF WarnSave, Held, Window, TInv, PollOK, Decided
    <3>2. decision.nextState \in DayState /\ decision.nextState.day = seen.day
      BY <1>1, <3>1, DecideFacts DEF TInv, PollOK, decision, today
    <3> DEFINE next == decision.nextState
    <3>3. file' = [next EXCEPT !.lastLeadTimeWarningNoticeAt = at]
      BY <2>2 DEF WarnSave
    <3>4. next \in DayState /\ next.day = seen.day
      BY <3>2
    <3> HIDE DEF next
    <3> QED
      BY <3>1, <3>3, <3>4 DEF DayState
  <2>3. CASE CloseSave
    <3>1. seen \in DayState /\ seen.day <= localDayString(now) /\ result.wasted \in SUBSET Session
      BY <1>4, <2>3 DEF CloseSave, Held, Window, TInv, PollOK, Result
    <3> DEFINE withAttempts == recordCaptureAttempts(seen, result.wasted)
    <3>2. withAttempts \in DayState /\ withAttempts.day = seen.day
      BY <3>1, CounterFacts
    <3>3. file' = withAttempts \/ file' = [withAttempts EXCEPT !.endOfDayFired = TRUE]
      BY <2>3 DEF CloseSave
    <3> HIDE DEF withAttempts
    <3> QED
      BY <3>1, <3>2, <3>3 DEF DayState
  <2>4. CASE SuccessSave \/ FailSave
    <3>1. seen \in DayState /\ seen.day <= localDayString(now)
      BY <1>4, <2>4 DEF SuccessSave, FailSave, Held
    <3>2. file' \in {recordCycleSuccess(seen), recordCycleFailure(seen)}
      BY <2>4 DEF SuccessSave, FailSave
    <3>3. recordCycleSuccess(seen).day = seen.day /\ recordCycleFailure(seen).day = seen.day
      BY <3>1 DEF recordCycleSuccess, recordCycleFailure, DayState
    <3> QED
      BY <3>1, <3>2, <3>3
  <2>5. CASE UNCHANGED file
    BY <2>5 DEF Arrived, NoneOfTomorrow
  <2> QED
    BY <2>1, <2>2, <2>3, <2>4, <2>5
    DEF PollStep, BeginPoll, ReadClock, ReadState, NotifyMissed, Quiet, WarnNotify, BeginEndDay, EndDay,
        Announce, SuccessRead, FailRead, FailNotify
<1>6. dpc' \in Held => seen'.day <= localDayString(now)
  <2>1. CASE ReadState
    BY <1>1, <2>1, StoredArrived DEF ReadState
  <2>2. CASE SaveReset
    <3>1. persisted.day = today
      BY <1>1, <1>4, <2>2, ResetFacts DEF SaveReset, Held, Window, persisted
    <3> QED
      BY <1>1, <2>2, <3>1 DEF SaveReset
  <2>3. CASE SuccessRead \/ FailRead
    <3>1. dpc' \in Held => seen' = StoredOr(localDayString(now))
      BY <2>3 DEF SuccessRead, FailRead, Return, Goto, Held, Window
    <3> QED
      BY <1>1, <3>1, StoredArrived
  <2>4. CASE ~(ReadState \/ SaveReset \/ SuccessRead \/ FailRead)
    <3>1. dpc' \in Held => dpc \in Held /\ seen' = seen
      BY <2>4
      DEF PollStep, BeginPoll, ReadClock, NotifyMissed, Quiet, WarnNotify, WarnSave, BeginEndDay, EndDay,
          CloseSave, Announce, SuccessSave, FailSave, FailNotify, Return, Goto, Held, Window
    <3> QED
      BY <1>4, <3>1
  <2> QED
    BY <2>1, <2>2, <2>3, <2>4
<1> QED
  BY <1>2, <1>3, <1>5, <1>6 DEF Arrived, NoneOfTomorrow, requests

LEMMA TimePasses == ASSUME TInv, Arrived, Tick PROVE Arrived'
<1>1. now \in Time /\ now' = now + 1 /\ UNCHANGED <<file, poll, requests>>
  BY DEF TInv, FilesOK, Tick
<1>2. /\ now' \in Time /\ now <= now'
      /\ localDayString(now) \in Day /\ localDayString(now') \in Day
      /\ localDayString(now) <= localDayString(now')
  BY <1>1, DayType, DayMonotone DEF Time
<1>3. /\ at \in Time
      /\ file # None => file.day \in Day
      /\ dpc \in Held => seen.day \in Day
      /\ \A a \in Adjuster : req[a].at \in Time /\ (apc[a] = "save" => req[a].seen.day \in Day)
  BY DEF TInv, FilesOK, PollOK, RequestsOK, Request, NoneOr, DayState
<1>4. \A d \in Day : d <= localDayString(now) => d <= localDayString(now')
  BY <1>2 DEF Day
<1>5. at' <= now'
  BY <1>1, <1>2, <1>3 DEF Arrived, poll, Time
<1>6. NoneOfTomorrow'
  BY <1>1, <1>3, <1>4 DEF Arrived, NoneOfTomorrow
<1>7. dpc' \in Held => seen'.day <= localDayString(now')
  BY <1>1, <1>3, <1>4 DEF Arrived, poll
<1>8. ASSUME NEW a \in Adjuster
      PROVE  req'[a].at <= now' /\ (apc'[a] = "save" => req'[a].seen.day <= localDayString(now'))
  <2>1. req' = req /\ apc' = apc
    BY <1>1 DEF requests
  <2>2. req[a].at <= now'
    BY <1>1, <1>2, <1>3 DEF Arrived, Time
  <2> QED
    BY <1>3, <1>4, <2>1, <2>2 DEF Arrived
<1> QED
  BY <1>5, <1>6, <1>7, <1>8 DEF Arrived

LEMMA AdjustArrived ==
  ASSUME TInv, Arrived, NEW a \in Adjuster, AdjustStep(a) \/ AdjustThrow(a)
  PROVE  Arrived'
<1>1. UNCHANGED <<now, poll>>
  BY DEF AdjustStep, AdjustBegin, AdjustClock, AdjustRead, AdjustSave, AdjustThrow
<1>2. /\ apc \in [Adjuster -> RequestState] /\ req \in [Adjuster -> Request] /\ now \in Time
      /\ req[a].at \in Time /\ req[a].at <= now
  BY DEF TInv, RequestsOK, FilesOK, Request, Arrived
<1>3. localDayString(req[a].at) \in Day /\ localDayString(req[a].at) <= localDayString(now)
  BY <1>2, DayType, DayMonotone
<1>4. file' # None => file'.day <= localDayString(now)
  <2>1. CASE AdjustSave(a)
    BY <1>3, <2>1, AdjustedType DEF AdjustSave, TInv
  <2>2. CASE ~AdjustSave(a)
    BY <2>2 DEF AdjustStep, AdjustBegin, AdjustClock, AdjustRead, AdjustThrow, Arrived, NoneOfTomorrow
  <2> QED
    BY <2>1, <2>2
<1>5. /\ req'[a].at \in {req[a].at, now, 0}
      /\ apc'[a] = "save" => req'[a].seen = StoredOr(localDayString(req[a].at))
  <2>1. CASE AdjustBegin(a)
    <3>1. PICK kind \in Adjustments, minutes \in SnoozeMinutes :
            req' = [req EXCEPT ![a].kind = kind, ![a].minutes = minutes, ![a].conf = config]
      BY <2>1 DEF AdjustBegin
    <3>2. req'[a].at = req[a].at
      BY <1>2, <3>1 DEF Request
    <3> QED
      BY <1>2, <2>1, <3>2 DEF AdjustBegin, RequestGoto
  <2>2. CASE AdjustClock(a)
    BY <1>2, <2>2 DEF AdjustClock, RequestGoto, Request
  <2>3. CASE AdjustRead(a)
    BY <1>2, <2>3 DEF AdjustRead, Answer, RequestGoto, NoRequest, Request
  <2>4. CASE AdjustSave(a) \/ AdjustThrow(a)
    BY <1>2, <2>4 DEF AdjustSave, AdjustThrow, Answer, RequestGoto, NoRequest
  <2> QED
    BY <2>1, <2>2, <2>3, <2>4 DEF AdjustStep
<1>6. \A b \in Adjuster : b # a => apc'[b] = apc[b] /\ req'[b] = req[b]
  BY <1>2
  DEF AdjustStep, AdjustBegin, AdjustClock, AdjustRead, AdjustSave, AdjustThrow, Answer, RequestGoto
<1>7. req'[a].at <= now /\ (apc'[a] = "save" => req'[a].seen.day <= localDayString(now))
  BY <1>2, <1>3, <1>5, StoredArrived DEF Time
<1> QED
  BY <1>1, <1>4, <1>6, <1>7 DEF Arrived, NoneOfTomorrow, poll

\* However polls, requests, errors and restarts overlap across midnight, estado.json is
\* never of a day that has not come: what is closed or skipped today cannot be taken for
\* tomorrow's.
THEOREM NoRecordOfTomorrow == Spec => []NoneOfTomorrow
<1>1. Init => Arrived
  BY DEF Init, Arrived, NoneOfTomorrow, NoRequest, Held, Window
<1>2. TInv /\ Arrived /\ [Next]_vars => Arrived'
  <2> SUFFICES ASSUME TInv, Arrived, [Next]_vars PROVE Arrived'
    OBVIOUS
  <2>1. CASE UNCHANGED vars
    BY <2>1 DEF vars, poll, requests, Arrived, NoneOfTomorrow
  <2>2. CASE Throw \/ Crash
    <3>1. UNCHANGED <<now, file, requests>> /\ at' = 0 /\ dpc' \notin Held
      BY <2>2 DEF Throw, Crash, Return, Goto, Held, Window
    <3> QED
      BY <3>1 DEF TInv, FilesOK, Time, Arrived, NoneOfTomorrow, requests
  <2> QED
    BY <2>1, <2>2, PollArrived, TimePasses, AdjustArrived DEF Next
<1> QED
  BY <1>1, <1>2, AlwaysTInv, PTL DEF Spec, Arrived
=============================================================================
