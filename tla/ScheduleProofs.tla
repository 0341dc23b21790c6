--------------------------- MODULE ScheduleProofs ---------------------------
(***************************************************************************)
(* What the rules of Schedule promise of every record, configuration and    *)
(* instant: the facts the proofs about the daemon rest on, and the theorems *)
(* about the rules themselves.                                              *)
(***************************************************************************)
EXTENDS Schedule, FiniteSetTheorems, WellFoundedInduction, TLAPS

(* ------------------------ what the rules return ------------------------- *)

\* A local day is a number, and never goes back.
LEMMA DayType == ASSUME NEW t \in Time PROVE localDayString(t) \in Day
BY DayLengthAssumption DEF localDayString, Time, Day

LEMMA DayMonotone ==
  ASSUME NEW t \in Time, NEW u \in Time, t <= u
  PROVE  localDayString(t) <= localDayString(u)
BY DayLengthAssumption DEF localDayString, Time

\* A fresh record is a record of its day.
LEMMA EmptyType == ASSUME NEW d \in Day PROVE emptyDayState(d) \in DayState
BY DEF emptyDayState, DayState, NoneOr

\* A reset yields a record of today: the same one when it already was.
LEMMA ResetFacts ==
  ASSUME NEW st \in DayState, NEW d \in Day
  PROVE  /\ resetIfNewDay(st, d) \in DayState
         /\ resetIfNewDay(st, d).day = d
         /\ st.day = d => resetIfNewDay(st, d) = st
         /\ st.day # d => /\ resetIfNewDay(st, d).snoozeMinutesTotal = 0
                          /\ ~resetIfNewDay(st, d).skipped
                          /\ ~resetIfNewDay(st, d).endOfDayFired
BY EmptyType DEF resetIfNewDay, emptyDayState, DayState, NoneOr

\* What decideSchedule says of a record of today.
LEMMA DecideFacts ==
  ASSUME NEW c \in NoneOr(Nat), NEW st \in DayState, NEW t \in Time, st.day = localDayString(t)
  PROVE  /\ decideSchedule(c, st, t).kind = "endOfDay" =>
              /\ c # None /\ ~st.skipped /\ ~st.endOfDayFired
              /\ t >= computeEffectiveEndOfDay(c, st.snoozeMinutesTotal, t)
         /\ decideSchedule(c, st, t).kind = "leadTimeWarning" =>
              /\ c # None
              /\ decideSchedule(c, st, t).nextState \in DayState
              /\ decideSchedule(c, st, t).nextState.day = st.day
              /\ decideSchedule(c, st, t).nextState.skipped = st.skipped
              /\ decideSchedule(c, st, t).nextState.endOfDayFired = st.endOfDayFired
              /\ decideSchedule(c, st, t).nextState.snoozeMinutesTotal = st.snoozeMinutesTotal
<1> DEFINE effective == computeEffectiveEndOfDay(c, st.snoozeMinutesTotal, t)
           fired == resolveFiredLeadTimes(st, effective)
           due == findDueLeadTime(fired, effective, t)
<1>1. resetIfNewDay(st, localDayString(t)) = st
  BY DEF resetIfNewDay
<1>2. CASE c = None
  BY <1>1, <1>2 DEF decideSchedule
<1>3. CASE c # None /\ st.skipped
  BY <1>1, <1>3 DEF decideSchedule
<1>4. CASE c # None /\ ~st.skipped /\ st.endOfDayFired
  BY <1>1, <1>4 DEF decideSchedule
<1>5. CASE c # None /\ ~st.skipped /\ ~st.endOfDayFired
  <2>1. decideSchedule(c, st, t) =
          IF t >= effective
          THEN [kind |-> "endOfDay", delay |-> t - effective,
                nextState |-> [st EXCEPT !.endOfDayFired = TRUE]]
          ELSE IF DueLeadTimes(fired, effective, t) = {}
          THEN [kind |-> "waiting", nextState |-> st]
          ELSE [kind |-> "leadTimeWarning",
                nextState |-> [st EXCEPT !.firedLeadTimesInMinutes = fired \cup due,
                                         !.firedLeadTimesEffectiveEndOfDay = effective]]
    BY <1>1, <1>5 DEF decideSchedule
  <2>2. CASE t >= effective
    BY <1>5, <2>1, <2>2
  <2>3. CASE ~(t >= effective)
    <3>1. effective \in Time
      BY <1>5, DayType, DayLengthAssumption
      DEF computeEffectiveEndOfDay, resolveEndOfDayInstant, NoneOr, Time, Day, DayState
    <3>2. fired \cup due \in SUBSET LeadTimes
      BY DEF resolveFiredLeadTimes, findDueLeadTime, DueLeadTimes, DayState
    <3> HIDE DEF effective, fired, due
    <3>3. [st EXCEPT !.firedLeadTimesInMinutes = fired \cup due,
                     !.firedLeadTimesEffectiveEndOfDay = effective] \in DayState
      BY <3>1, <3>2 DEF DayState, NoneOr
    <3> QED
      BY <1>5, <2>1, <2>3, <3>3 DEF DayState
  <2> QED
    BY <2>2, <2>3
<1> QED
  BY <1>2, <1>3, <1>4, <1>5

\* The counters leave everything else of the record alone.
LEMMA CounterFacts ==
  ASSUME NEW st \in DayState, NEW n \in SUBSET Session
  PROVE  /\ recordCaptureAttempts(st, n) \in DayState
         /\ recordCycleFailure(st) \in DayState
         /\ recordCycleSuccess(st) \in DayState
         /\ \A r \in {recordCaptureAttempts(st, n), recordCycleFailure(st), recordCycleSuccess(st)} :
              /\ r.day = st.day /\ r.skipped = st.skipped
              /\ r.snoozeMinutesTotal = st.snoozeMinutesTotal
              /\ r.endOfDayFired = st.endOfDayFired
BY DEF recordCaptureAttempts, recordCycleFailure, recordCycleSuccess, DayState

(* --------------------- the greatest of some numbers --------------------- *)

\* Numbers have a least one among them.
LEMMA HasLeast ==
  ASSUME NEW S \in SUBSET Nat, S # {}
  PROVE  \E n \in S : \A m \in S : n <= m
<1> DEFINE R == OpToRel(<, Nat)
<1>1. IsWellFoundedOn(R, Nat)
  BY NatLessThanWellFounded
<1>2. \A x, y \in Nat : x < y => <<x, y>> \in R
  BY DEF OpToRel
<1> HIDE DEF R
<1>3. PICK n \in S : \A y \in S : ~ (<<y, n>> \in R)
  BY <1>1, WFMin
<1>4. \A m \in S : n <= m
  <2> TAKE m \in S
  <2>1. n \in Nat /\ m \in Nat
    OBVIOUS
  <2>2. m < n => <<m, n>> \in R
    BY <1>2, <2>1
  <2>3. <<m, n>> \notin R
    BY <1>3
  <2> QED
    BY <2>1, <2>2, <2>3
<1> QED
  BY <1>4

\* A finite set of numbers has an upper bound: a smallest one without would
\* not be the smallest, for what is left of it without one member has none either.
LEMMA FiniteIsBounded ==
  ASSUME NEW S \in SUBSET Nat, IsFiniteSet(S)
  PROVE  \E b \in Nat : \A n \in S : n <= b
<1> DEFINE Bounded(U) == \E b \in Nat : \A n \in U : n <= b
           Sizes == {Cardinality(U) : U \in {V \in SUBSET S : ~Bounded(V)}}
<1>1. SUFFICES ASSUME ~Bounded(S) PROVE FALSE
  OBVIOUS
<1>2. \A U \in SUBSET S : IsFiniteSet(U) /\ Cardinality(U) \in Nat
  BY FS_Subset, FS_CardinalityType
<1>3. Sizes \in SUBSET Nat /\ Sizes # {}
  BY <1>1, <1>2
<1> HIDE DEF Bounded
<1>4. PICK U \in SUBSET S : ~Bounded(U) /\ \A m \in Sizes : Cardinality(U) <= m
  <2>1. PICK k \in Sizes : \A m \in Sizes : k <= m
    BY <1>3, HasLeast
  <2> QED
    BY <2>1
<1>5. PICK x \in U : TRUE
  <2>1. U = {} => Bounded(U)
    BY DEF Bounded
  <2> QED
    BY <1>4, <2>1
<1>6. Cardinality(U \ {x}) = Cardinality(U) - 1
  BY <1>2, <1>5, FS_RemoveElement
<1>7. Bounded(U \ {x})
  <2>1. SUFFICES ASSUME ~Bounded(U \ {x}) PROVE FALSE
    OBVIOUS
  <2>2. Cardinality(U \ {x}) \in Sizes
    BY <2>1
  <2>3. Cardinality(U) <= Cardinality(U \ {x})
    BY <1>4, <2>2
  <2> QED
    BY <1>2, <1>6, <2>3
<1>8. PICK b \in Nat : \A n \in U \ {x} : n <= b
  BY <1>7 DEF Bounded
<1>9. \A n \in U : n <= b + x
  <2> TAKE n \in U
  <2>1. n \in Nat /\ x \in Nat
    BY <1>5
  <2> QED
    BY <1>8, <2>1
<1>10. b + x \in Nat
  BY <1>5
<1>11. Bounded(U)
  BY <1>9, <1>10 DEF Bounded
<1> QED
  BY <1>4, <1>11

\* ... and finitely many have a greatest.
LEMMA HasGreatest ==
  ASSUME NEW S \in SUBSET Nat, IsFiniteSet(S), S # {}
  PROVE  \E n \in S : \A m \in S : m <= n
<1>1. PICK b \in Nat : \A n \in S : n <= b
  BY FiniteIsBounded
<1> DEFINE Gaps == {b - n : n \in S}
<1>2. Gaps \in SUBSET Nat /\ Gaps # {}
  <2>1. \A n \in S : n \in Nat /\ n <= b
    BY <1>1
  <2>2. \A n \in S : b - n \in Nat
    BY <2>1
  <2> QED
    BY <2>2
<1>3. PICK g \in Gaps : \A h \in Gaps : g <= h
  BY <1>2, HasLeast
<1>4. PICK n \in S : g = b - n
  BY <1>3
<1>5. \A m \in S : b - n <= b - m
  BY <1>3, <1>4
<1>6. \A m \in S : m <= n
  <2> TAKE m \in S
  <2>1. n \in Nat /\ m \in Nat /\ b - n <= b - m
    BY <1>5
  <2> QED
    BY <2>1
<1> QED
  BY <1>6

(* ------------------------------ the closing ----------------------------- *)

\* The deadline of a local day, as the rules compute it at an instant of it.
LEMMA DeadlineOf ==
  ASSUME NEW c \in Nat, NEW n \in Nat, NEW t \in Time
  PROVE  /\ computeEffectiveEndOfDay(c, n, t) = localDayString(t) * DayLength + c + n
         /\ computeEffectiveEndOfDay(c, n, t) \in Time
         /\ localDayString(t) * DayLength \in Nat
<1>1. localDayString(t) * DayLength \in Nat
  BY DayType, DayLengthAssumption DEF Day
<1> QED
  BY <1>1 DEF computeEffectiveEndOfDay, resolveEndOfDayInstant, Time

\* An instant lies within its local day.
LEMMA WithinItsDay ==
  ASSUME NEW t \in Time
  PROVE  /\ localDayString(t) * DayLength <= t
         /\ t < localDayString(t) * DayLength + DayLength
BY DayLengthAssumption DEF localDayString, Time

\* ... and the last instant of a local day is one of that day.
LEMMA LastInstant ==
  ASSUME NEW d \in Day
  PROVE  /\ d * DayLength + (DayLength - 1) \in Time
         /\ localDayString(d * DayLength + (DayLength - 1)) = d
<1>1. d \in Nat /\ DayLength \in Nat /\ DayLength > 0 /\ d * DayLength \in Nat
  BY DayLengthAssumption DEF Day
<1> DEFINE t == d * DayLength + (DayLength - 1)
<1>2. t \in Nat
  BY <1>1
<1>3. (t \div DayLength) \in Nat /\ (t \div DayLength) * DayLength <= t
        /\ t < (t \div DayLength) * DayLength + DayLength
  BY <1>2, WithinItsDay, DayType DEF localDayString, Time, Day
<1> DEFINE q == t \div DayLength
<1>4. q \in Nat /\ q * DayLength < (d + 1) * DayLength /\ d * DayLength < (q + 1) * DayLength
  BY <1>1, <1>3
<1> HIDE DEF q
<1>5. q < d + 1 /\ d < q + 1
  <2>1. q >= d + 1 => q * DayLength >= (d + 1) * DayLength
    BY <1>1, <1>4
  <2>2. d >= q + 1 => d * DayLength >= (q + 1) * DayLength
    BY <1>1, <1>4
  <2> QED
    BY <1>1, <1>4, <2>1, <2>2
<1>6. q = d
  BY <1>1, <1>4, <1>5
<1> QED
  BY <1>2, <1>6 DEF q, localDayString, Time

\* When decideSchedule closes a record of today, and what it leaves.
LEMMA ClosesWhen ==
  ASSUME NEW c \in NoneOr(Nat), NEW st \in DayState, NEW t \in Time, st.day = localDayString(t)
  PROVE  /\ decideSchedule(c, st, t).kind = "endOfDay" <=>
              /\ c # None /\ ~st.skipped /\ ~st.endOfDayFired
              /\ t >= computeEffectiveEndOfDay(c, st.snoozeMinutesTotal, t)
         /\ decideSchedule(c, st, t).kind = "endOfDay" =>
              decideSchedule(c, st, t).nextState = [st EXCEPT !.endOfDayFired = TRUE]
<1>1. resetIfNewDay(st, localDayString(t)) = st
  BY DEF resetIfNewDay
<1>2. CASE c = None
  BY <1>1, <1>2 DEF decideSchedule
<1>3. CASE c # None /\ st.skipped
  BY <1>1, <1>3 DEF decideSchedule
<1>4. CASE c # None /\ ~st.skipped /\ st.endOfDayFired
  BY <1>1, <1>4 DEF decideSchedule
<1>5. CASE c # None /\ ~st.skipped /\ ~st.endOfDayFired
  BY <1>1, <1>5 DEF decideSchedule
<1> QED
  BY <1>2, <1>3, <1>4, <1>5

\* There is an instant of the day of a record at which it closes that day.
CanClose(c, st) ==
  \E t \in Time : localDayString(t) = st.day /\ decideSchedule(c, st, t).kind = "endOfDay"

\* The closing of a day can come only inside that day: a snooze that carries the
\* deadline to midnight or past it (schedule.ts:77 adds it to the instant, and
\* resetIfNewDay drops it with the day) leaves the day without a closing, and
\* that is the only way, beside a skip, to lose it.
THEOREM ADayClosesInsideItself ==
  ASSUME NEW c \in NoneOr(Nat), NEW st \in DayState
  PROVE  CanClose(c, st) <=> /\ c # None /\ ~st.skipped /\ ~st.endOfDayFired
                             /\ c + st.snoozeMinutesTotal < DayLength
<1>1. st.day \in Day /\ st.snoozeMinutesTotal \in Nat
  BY DEF DayState
<1>2. ASSUME NEW t \in Time, localDayString(t) = st.day,
             decideSchedule(c, st, t).kind = "endOfDay"
      PROVE  /\ c # None /\ ~st.skipped /\ ~st.endOfDayFired
             /\ c + st.snoozeMinutesTotal < DayLength
  <2>1. /\ c # None /\ ~st.skipped /\ ~st.endOfDayFired
        /\ t >= computeEffectiveEndOfDay(c, st.snoozeMinutesTotal, t)
    BY <1>2, ClosesWhen
  <2>2. c \in Nat
    BY <2>1 DEF NoneOr
  <2> DEFINE start == localDayString(t) * DayLength
  <2>3. start \in Nat /\ computeEffectiveEndOfDay(c, st.snoozeMinutesTotal, t) = start + c + st.snoozeMinutesTotal
    BY <1>1, <2>2, DeadlineOf
  <2>4. t < start + DayLength /\ t \in Nat /\ DayLength \in Nat
    BY WithinItsDay, DayLengthAssumption DEF Time
  <2> HIDE DEF start
  <2>5. c + st.snoozeMinutesTotal < DayLength
    BY <1>1, <2>1, <2>2, <2>3, <2>4
  <2> QED
    BY <2>1, <2>5
<1>3. ASSUME c # None, ~st.skipped, ~st.endOfDayFired, c + st.snoozeMinutesTotal < DayLength
      PROVE  CanClose(c, st)
  <2> DEFINE t == st.day * DayLength + (DayLength - 1)
  <2>1. c \in Nat
    BY <1>3 DEF NoneOr
  <2>2. t \in Time /\ localDayString(t) = st.day
    BY <1>1, LastInstant
  <2>3. t >= computeEffectiveEndOfDay(c, st.snoozeMinutesTotal, t)
    <3>1. st.day * DayLength \in Nat
      BY <1>1, DayLengthAssumption DEF Day
    <3> QED
      BY <1>1, <1>3, <2>1, <2>2, <3>1, DeadlineOf, DayLengthAssumption
  <2> HIDE DEF t
  <2>4. decideSchedule(c, st, t).kind = "endOfDay"
    BY <1>3, <2>2, <2>3, ClosesWhen
  <2> QED
    BY <2>2, <2>4 DEF CanClose
<1> QED
  BY <1>2, <1>3 DEF CanClose

\* What the adjustments of the application and the command line may make of a
\* record on one day.
AdjustedRecords(st, d) ==
  {applySnooze(st, d, m) : m \in Nat} \cup {resetSnooze(st, d), applySkipToday(st, d)}

\* A day that has closed, or was skipped, is never closed again that day,
\* whatever adjustment comes after and whatever the configuration becomes.
THEOREM ASettledDayStaysSettled ==
  ASSUME NEW c \in NoneOr(Nat), NEW st \in DayState, st.endOfDayFired \/ st.skipped,
         NEW x \in AdjustedRecords(st, st.day)
  PROVE  /\ x \in DayState /\ x.day = st.day
         /\ x.endOfDayFired \/ x.skipped
         /\ ~CanClose(c, x)
<1>1. resetIfNewDay(st, st.day) = st
  BY DEF resetIfNewDay
<1>2. /\ x \in DayState /\ x.day = st.day
      /\ x.endOfDayFired \/ x.skipped
  <2>1. CASE \E m \in Nat : x = applySnooze(st, st.day, m)
    <3>1. PICK m \in Nat : x = [st EXCEPT !.snoozeMinutesTotal = @ + m]
      BY <1>1, <2>1 DEF applySnooze
    <3>2. st.snoozeMinutesTotal + m \in Nat
      BY DEF DayState
    <3> QED
      BY <3>1, <3>2 DEF DayState
  <2>2. CASE x = resetSnooze(st, st.day)
    BY <1>1, <2>2 DEF resetSnooze, DayState
  <2>3. CASE x = applySkipToday(st, st.day)
    BY <1>1, <2>3 DEF applySkipToday, DayState
  <2> QED
    BY <2>1, <2>2, <2>3 DEF AdjustedRecords
<1> QED
  BY <1>2, ADayClosesInsideItself

\* An undo that is offered never closes the day at once (decideUndoSnooze is
\* asked about the configured time, decideSchedule about the deadline): the
\* record it leaves still waits for a closing, and will have one if the
\* configured time is a time of the day.
THEOREM AnUndoDoesNotClose ==
  ASSUME NEW c \in NoneOr(Nat), NEW st \in DayState, NEW t \in Time, UndoAvailable(c, st, t)
  PROVE  LET undone == resetSnooze(st, localDayString(t)) IN
         /\ decideSchedule(c, undone, t).kind # "endOfDay"
         /\ c < DayLength => CanClose(c, undone)
<1> DEFINE undone == resetSnooze(st, localDayString(t))
           current == resetIfNewDay(st, localDayString(t))
<1>1. localDayString(t) \in Day
  BY DayType
<1>2. current \in DayState /\ current.day = localDayString(t)
  BY <1>1, ResetFacts
<1>3. /\ c \in Nat /\ c # None
      /\ ~current.skipped /\ ~current.endOfDayFired
      /\ t < resolveEndOfDayInstant(c, t)
  BY DEF UndoAvailable, NoneOr
<1>4. undone = [current EXCEPT !.snoozeMinutesTotal = 0]
  BY DEF resetSnooze
<1> HIDE DEF undone, current
<1>5. /\ undone \in DayState /\ undone.day = localDayString(t) /\ undone.snoozeMinutesTotal = 0
      /\ ~undone.skipped /\ ~undone.endOfDayFired
  BY <1>2, <1>3, <1>4 DEF DayState
<1>6. computeEffectiveEndOfDay(c, 0, t) = resolveEndOfDayInstant(c, t) /\ resolveEndOfDayInstant(c, t) \in Time
  BY <1>3, DeadlineOf DEF computeEffectiveEndOfDay, resolveEndOfDayInstant, Time
<1>7. decideSchedule(c, undone, t).kind # "endOfDay"
  <2>1. ~(t >= computeEffectiveEndOfDay(c, 0, t))
    BY <1>3, <1>6 DEF Time
  <2> QED
    BY <1>5, <2>1, ClosesWhen
<1>8. c < DayLength => CanClose(c, undone)
  BY <1>3, <1>5, ADayClosesInsideItself
<1> QED
  BY <1>7, <1>8 DEF undone

\* A record left from another day counts for nothing (schedule.ts, resetIfNewDay):
\* the rules decide as they would of a day nobody has touched, the streak of
\* failures of the daemon apart.
THEOREM AnotherDayCountsForNothing ==
  ASSUME NEW c \in NoneOr(Nat), NEW st \in DayState, NEW t \in Time, st.day # localDayString(t)
  PROVE  LET d == localDayString(t)
             fresh == [emptyDayState(d) EXCEPT !.consecutiveCycleFailures = st.consecutiveCycleFailures]
         IN  /\ decideSchedule(c, st, t) = decideSchedule(c, fresh, t)
             /\ decideSchedule(c, st, t).kind = "endOfDay" <=>
                  c # None /\ t >= resolveEndOfDayInstant(c, t)
<1> DEFINE d == localDayString(t)
           fresh == [emptyDayState(d) EXCEPT !.consecutiveCycleFailures = st.consecutiveCycleFailures]
<1>1. d \in Day
  BY DayType
<1>2. resetIfNewDay(st, d) = fresh
  BY DEF resetIfNewDay
<1>3. /\ fresh \in DayState /\ fresh.day = d /\ fresh.snoozeMinutesTotal = 0
      /\ ~fresh.skipped /\ ~fresh.endOfDayFired
  BY <1>1 DEF emptyDayState, DayState, NoneOr
<1>4. resetIfNewDay(fresh, d) = fresh
  BY <1>3 DEF resetIfNewDay
<1> HIDE DEF fresh
<1>5. decideSchedule(c, st, t) = decideSchedule(c, fresh, t)
  BY <1>2, <1>4 DEF decideSchedule
<1>6. c # None => computeEffectiveEndOfDay(c, 0, t) = resolveEndOfDayInstant(c, t)
  <2>1. SUFFICES ASSUME c # None PROVE computeEffectiveEndOfDay(c, 0, t) = resolveEndOfDayInstant(c, t)
    OBVIOUS
  <2>2. c \in Nat
    BY <2>1 DEF NoneOr
  <2> QED
    BY <2>2, DeadlineOf DEF computeEffectiveEndOfDay, resolveEndOfDayInstant
<1>7. decideSchedule(c, fresh, t).kind = "endOfDay" <=> c # None /\ t >= resolveEndOfDayInstant(c, t)
  <2>1. decideSchedule(c, fresh, t).kind = "endOfDay" <=>
          /\ c # None /\ ~fresh.skipped /\ ~fresh.endOfDayFired
          /\ t >= computeEffectiveEndOfDay(c, fresh.snoozeMinutesTotal, t)
    BY <1>3, ClosesWhen
  <2>2. decideSchedule(c, fresh, t).kind = "endOfDay" <=>
          c # None /\ t >= computeEffectiveEndOfDay(c, 0, t)
    BY <1>3, <2>1
  <2> QED
    BY <1>6, <2>2
<1> QED
  BY <1>5, <1>7 DEF fresh

(* ------------------------------ the warnings ---------------------------- *)

\* The lead times a record counts as warned of, for a deadline.
Warned(st, effective) == resolveFiredLeadTimes(st, effective)

\* A warning is spent: of finitely many lead times it marks one more, the
\* largest that was due and not warned of, as warned of before this deadline and
\* touches nothing else of the day; so no deadline is warned about more often
\* than there are lead times (findDueLeadTime, resolveFiredLeadTimes).
THEOREM AWarningIsSpent ==
  ASSUME IsFiniteSet(LeadTimes), NEW c \in NoneOr(Nat), NEW st \in DayState, NEW t \in Time,
         st.day = localDayString(t), decideSchedule(c, st, t).kind = "leadTimeWarning"
  PROVE  LET effective == computeEffectiveEndOfDay(c, st.snoozeMinutesTotal, t)
             next == decideSchedule(c, st, t).nextState
         IN  /\ computeEffectiveEndOfDay(c, next.snoozeMinutesTotal, t) = effective
             /\ \E l \in LeadTimes \ Warned(st, effective) :
                  /\ Warned(next, effective) = Warned(st, effective) \cup {l}
                  /\ t + l >= effective
                  /\ \A k \in LeadTimes \ Warned(next, effective) : t + k >= effective => k < l
             /\ Cardinality(LeadTimes \ Warned(next, effective)) =
                  Cardinality(LeadTimes \ Warned(st, effective)) - 1
<1> DEFINE effective == computeEffectiveEndOfDay(c, st.snoozeMinutesTotal, t)
           fired == resolveFiredLeadTimes(st, effective)
           due == DueLeadTimes(fired, effective, t)
           next == decideSchedule(c, st, t).nextState
<1>1. resetIfNewDay(st, localDayString(t)) = st
  BY DEF resetIfNewDay
<1>2. c # None /\ ~st.skipped /\ ~st.endOfDayFired
  <2>1. c = None => decideSchedule(c, st, t).kind = "disabled"
    BY DEF decideSchedule
  <2>2. c # None /\ st.skipped => decideSchedule(c, st, t).kind = "skipped"
    BY <1>1 DEF decideSchedule
  <2>3. c # None /\ ~st.skipped /\ st.endOfDayFired => decideSchedule(c, st, t).kind = "alreadyEnded"
    BY <1>1 DEF decideSchedule
  <2> QED
    BY <2>1, <2>2, <2>3
<1>3. decideSchedule(c, st, t) =
        IF t >= effective
        THEN [kind |-> "endOfDay", delay |-> t - effective,
              nextState |-> [st EXCEPT !.endOfDayFired = TRUE]]
        ELSE IF due = {}
        THEN [kind |-> "waiting", nextState |-> st]
        ELSE [kind |-> "leadTimeWarning",
              nextState |-> [st EXCEPT
                !.firedLeadTimesInMinutes = fired \cup findDueLeadTime(fired, effective, t),
                !.firedLeadTimesEffectiveEndOfDay = effective]]
  BY <1>1, <1>2 DEF decideSchedule
<1>4. due # {}
      /\ next = [st EXCEPT !.firedLeadTimesInMinutes = fired \cup findDueLeadTime(fired, effective, t),
                           !.firedLeadTimesEffectiveEndOfDay = effective]
  <2> HIDE DEF due, fired, effective
  <2> QED
    BY <1>3
<1>5. due \in SUBSET Nat /\ IsFiniteSet(due)
  <2>1. due \subseteq LeadTimes
    BY DEF DueLeadTimes
  <2> HIDE DEF due
  <2> QED
    BY <2>1, FS_Subset, LimitAssumption
<1>6. PICK l \in due : \A k \in due : k <= l
  <2> HIDE DEF due
  <2> QED
    BY <1>4, <1>5, HasGreatest
<1>7. findDueLeadTime(fired, effective, t) = {l}
  <2>1. \A k \in due : (\A j \in due : j <= k) => k = l
    <3> TAKE k \in due
    <3>1. k \in Nat /\ l \in Nat /\ k <= l
      BY <1>5, <1>6
    <3> QED
      BY <1>6, <3>1
  <2> QED
    BY <1>6, <2>1 DEF findDueLeadTime
<1>8. effective \in Time /\ c \in Nat
  <2>1. c \in Nat /\ st.snoozeMinutesTotal \in Nat
    BY <1>2 DEF NoneOr, DayState
  <2> QED
    BY <2>1, DeadlineOf
<1>9. l \in LeadTimes \ fired /\ t + l >= effective
  BY <1>6 DEF DueLeadTimes
<1>10. \A k \in LeadTimes \ fired : t + k >= effective => k <= l
  BY <1>6 DEF DueLeadTimes
<1>11. fired \subseteq LeadTimes
  BY DEF resolveFiredLeadTimes, DayState
<1> HIDE DEF effective, fired, due
<1>12. /\ next.firedLeadTimesInMinutes = fired \cup {l}
       /\ next.firedLeadTimesEffectiveEndOfDay = effective
       /\ next.snoozeMinutesTotal = st.snoozeMinutesTotal
  BY <1>4, <1>7 DEF DayState
<1> HIDE DEF next
<1>13. Warned(next, effective) = fired \cup {l}
  BY <1>12 DEF Warned, resolveFiredLeadTimes
<1>14. Warned(st, effective) = fired
  BY DEF Warned, fired
<1>15. \A k \in LeadTimes \ (fired \cup {l}) : t + k >= effective => k < l
  <2> TAKE k \in LeadTimes \ (fired \cup {l})
  <2>1. k \in Nat /\ l \in Nat /\ k # l
    BY <1>9, LimitAssumption
  <2> QED
    BY <1>10, <2>1
<1>16. Cardinality(LeadTimes \ (fired \cup {l})) = Cardinality(LeadTimes \ fired) - 1
  <2>1. LeadTimes \ (fired \cup {l}) = (LeadTimes \ fired) \ {l}
    OBVIOUS
  <2>2. IsFiniteSet(LeadTimes \ fired)
    BY FS_Subset
  <2> QED
    BY <1>9, <2>1, <2>2, FS_RemoveElement
<1>17. computeEffectiveEndOfDay(c, next.snoozeMinutesTotal, t) = effective
  BY <1>12 DEF effective
<1> QED
  BY <1>9, <1>13, <1>14, <1>15, <1>16, <1>17 DEF effective, next
=============================================================================
