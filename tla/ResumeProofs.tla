----------------------------- MODULE ResumeProofs -----------------------------
(***************************************************************************)
(* Proofs about Resume, for any sessions, runs of the command line, days    *)
(* and failures.  First what holds in any interleaving; then what holds     *)
(* when the runs, and the closings of the day, come one after another       *)
(* (~Overlap).                                                              *)
(***************************************************************************)
EXTENDS Resume, FiniteSetTheorems, TLAPS

-----------------------------------------------------------------------------
(* What a run remembers, by where it is. *)

\* The places where a run has a day, and where it has a session.
Dated    == {"pick", "read", "next", "attempt", "launched", "ask", "save"}
Attempts == {"attempt", "launched", "ask", "save"}

Remembers(x) ==
  /\ x.at \in Dated => x.day \in Day
  /\ x.at \in Attempts => x.cur \in Session

Discipline ==
  /\ TypeOK
  /\ \A r \in Runner : Remembers(run[r])

Becomes(r, x) == run' = [run EXCEPT ![r] = x]

LEMMA IdleType == Idle \in Run /\ Remembers(Idle)
BY BoundAssumption DEF Idle, Run, Remembers, Dated, Attempts

LEMMA Typed ==
  ASSUME Discipline, NEW r \in Runner
  PROVE  /\ run[r] \in Run /\ Remembers(run[r])
         /\ run \in [Runner -> Run]
         /\ \A d \in Day : resumed[d] \subseteq Session /\ Launched[d] \subseteq Session
BY DEF Discipline, TypeOK, Launched

\* A step of one run that leaves the rest with its types.
LEMMA StepDiscipline ==
  ASSUME Discipline, NEW r \in Runner, NEW x \in Run, Becomes(r, x), Remembers(x),
         plan' \in [Day -> [Session -> Plan]], today' \in Day,
         resumed' \in [Day -> SUBSET Session], shown' \in 0 .. MaxDay,
         resuming' \in BOOLEAN, window' \in BOOLEAN, failures' \in Nat,
         {got', stillborn'} \subseteq [Day -> SUBSET Session]
  PROVE  /\ Discipline'
         /\ run'[r] = x /\ \A y \in Runner : y # r => run'[y] = run[y]
<1>1. run' \in [Runner -> Run] /\ run'[r] = x /\ \A y \in Runner : y # r => run'[y] = run[y]
  BY Typed DEF Becomes
<1> QED
  BY <1>1 DEF Discipline, TypeOK

\* The same for a step that only moves the run.
LEMMA MoveDiscipline ==
  ASSUME Discipline, NEW r \in Runner, NEW x \in Run, Becomes(r, x), Remembers(x),
         UNCHANGED <<plan, today, resumed, shown, window, failures, got, stillborn>>, resuming' \in BOOLEAN
  PROVE  /\ Discipline'
         /\ run'[r] = x /\ \A y \in Runner : y # r => run'[y] = run[y]
<1>1. /\ plan' \in [Day -> [Session -> Plan]] /\ today' \in Day
      /\ resumed' \in [Day -> SUBSET Session] /\ shown' \in 0 .. MaxDay
      /\ resuming' \in BOOLEAN /\ window' \in BOOLEAN /\ failures' \in Nat
      /\ {got', stillborn'} \subseteq [Day -> SUBSET Session]
  BY DEF Discipline, TypeOK
<1> QED
  BY <1>1, StepDiscipline

\* What each kind of move makes of the run.
LEMMA TurnType ==
  ASSUME Discipline, NEW r \in Runner, run[r].at \in Dated
  PROVE  Turn(r) \in Run /\ Remembers(Turn(r)) /\ Turn(r).at = "next"
         /\ Turn(r).left = run[r].left /\ Turn(r).soFar = run[r].soFar
         /\ Turn(r).day = run[r].day /\ Turn(r).named = run[r].named
BY Typed DEF Turn, Run, Idle, Remembers, Dated, Attempts

LEMMA OverBecomes ==
  ASSUME Discipline, NEW r \in Runner, Over(r)
  PROVE  \E x \in Run : Remembers(x) /\ Becomes(r, x) /\ x.at \in {"idle", "report"}
<1> DEFINE x == IF r = app THEN [Idle EXCEPT !.at = "report"] ELSE Idle
<1>1. x \in Run /\ Remembers(x) /\ x.at \in {"idle", "report"}
  BY IdleType DEF Idle, Run, Remembers, Dated, Attempts
<1>2. Becomes(r, x)
  BY DEF Over, Becomes
<1> QED
  BY <1>1, <1>2

LEMMA EscapeBecomes ==
  ASSUME NEW r \in Runner, Escapes(r)
  PROVE  Becomes(r, Idle)
BY DEF Escapes, Becomes

\* A move within the attempt of one session.
Attempted(r, at, how, why) == [run[r] EXCEPT !.at = at, !.how = how, !.why = why]

LEMMA AttemptBecomes ==
  ASSUME Discipline, NEW r \in Runner, run[r].at \in Attempts,
         NEW at \in Attempts, NEW how \in {"resume", "withoutPlan", "fresh"},
         NEW why \in {"promptTooLarge", "resumeFailed"}
  PROVE  /\ Attempted(r, at, how, why) \in Run /\ Remembers(Attempted(r, at, how, why))
         /\ Attempted(r, at, how, why).at = at
         /\ Attempted(r, at, how, why).left = run[r].left
         /\ Attempted(r, at, how, why).soFar = run[r].soFar
         /\ Attempted(r, at, how, why).cur = run[r].cur
         /\ Attempted(r, at, how, why).day = run[r].day
         /\ Attempted(r, at, how, why).named = run[r].named
BY Typed DEF Attempted, Run, Remembers, Dated, Attempts

-----------------------------------------------------------------------------
(* The steps of a run that has a session in hand, or gives up *)

Others(r) == \A y \in Runner : y # r => run'[y] = run[y]

\* It is over, or goes on with the same session, or is done with it.
Within(r) ==
  \/ run'[r].at \in {"idle", "report"}
  \/ /\ run[r].at \in Attempts /\ run'[r].at \in Attempts \cup {"next"}
     /\ run'[r].left = run[r].left /\ run'[r].soFar = run[r].soFar
     /\ run'[r].day = run[r].day /\ run'[r].named = run[r].named
     /\ run'[r].at \in Attempts => run'[r].cur = run[r].cur
     /\ run'[r].at = "save" => run[r].cur \in Launched'[run[r].day]

Stepped(r) == Discipline' /\ Others(r) /\ Within(r)

LEMMA OverStep ==
  ASSUME Discipline, NEW r \in Runner, Over(r),
         UNCHANGED <<plan, today, resumed, shown, window, failures, got, stillborn>>, resuming' \in BOOLEAN
  PROVE  Stepped(r)
<1> PICK x \in Run : Remembers(x) /\ Becomes(r, x) /\ x.at \in {"idle", "report"}
  BY OverBecomes
<1> QED
  BY MoveDiscipline DEF Stepped, Others, Within

LEMMA EscapeStep ==
  ASSUME Discipline, NEW r \in Runner, Escapes(r),
         UNCHANGED <<plan, today, resumed, shown, window, failures, got, stillborn>>, resuming' \in BOOLEAN
  PROVE  Stepped(r)
<1>1. Idle.at = "idle"
  BY DEF Idle
<1> QED
  BY <1>1, EscapeBecomes, IdleType, MoveDiscipline DEF Stepped, Others, Within

\* On to another place of the same attempt, which is not the record's.
LEMMA AttemptStep ==
  ASSUME Discipline, NEW r \in Runner, run[r].at \in Attempts, NEW at \in Attempts \ {"save"},
         NEW how \in {"resume", "withoutPlan", "fresh"}, NEW why \in {"promptTooLarge", "resumeFailed"},
         Becomes(r, Attempted(r, at, how, why)),
         UNCHANGED <<plan, today, resumed, shown, window, failures, got, stillborn>>, resuming' \in BOOLEAN
  PROVE  Stepped(r)
<1> DEFINE x == Attempted(r, at, how, why)
<1>1. /\ x \in Run /\ Remembers(x) /\ x.at = at
      /\ x.left = run[r].left /\ x.soFar = run[r].soFar /\ x.cur = run[r].cur
      /\ x.day = run[r].day /\ x.named = run[r].named
  BY AttemptBecomes
<1> HIDE DEF x
<1>2. Discipline' /\ run'[r] = x /\ Others(r)
  BY <1>1, MoveDiscipline DEF Others, x
<1> QED
  BY <1>1, <1>2 DEF Stepped, Within

LEMMA TurnStep ==
  ASSUME Discipline, NEW r \in Runner, run[r].at \in Attempts, Becomes(r, Turn(r)),
         UNCHANGED <<plan, today, resumed, shown, window, failures, got, stillborn>>, resuming' \in BOOLEAN
  PROVE  Stepped(r)
<1>1. run[r].at \in Dated
  BY DEF Attempts, Dated
<1>2. Discipline' /\ run'[r] = Turn(r) /\ Others(r)
  BY <1>1, TurnType, MoveDiscipline DEF Others
<1> QED
  BY <1>1, <1>2, TurnType DEF Stepped, Within, Attempts

\* A run as a record, field by field.
LEMMA Fields ==
  ASSUME Discipline, NEW r \in Runner,
         NEW at \in Attempts
  PROVE  /\ [run EXCEPT ![r].at = at] =
              [run EXCEPT ![r] = Attempted(r, at, run[r].how, run[r].why)]
         /\ run[r].how \in {"resume", "withoutPlan", "fresh"}
         /\ run[r].why \in {"promptTooLarge", "resumeFailed"}
<1>1. run[r] \in Run /\ run \in [Runner -> Run]
  BY Typed
<1>2. [run[r] EXCEPT !.at = at] = Attempted(r, at, run[r].how, run[r].why)
  BY <1>1 DEF Run, Attempted
<1>3. [run EXCEPT ![r].at = at] = [run EXCEPT ![r] = [run[r] EXCEPT !.at = at]]
  BY <1>1
<1> QED
  BY <1>1, <1>2, <1>3 DEF Run, Attempted

LEMMA GoesStep ==
  ASSUME Discipline, NEW r \in Runner, run[r].at \in Attempts, NEW at \in Attempts \ {"save"}, Goes(r, at),
         UNCHANGED <<plan, today, resumed, shown, window, failures, got, stillborn>>, resuming' \in BOOLEAN
  PROVE  Stepped(r)
<1>1. Becomes(r, Attempted(r, at, run[r].how, run[r].why))
  BY Fields DEF Becomes, Goes
<1> QED
  BY <1>1, Fields, AttemptStep

LEMMA AsksStep ==
  ASSUME Discipline, NEW r \in Runner, run[r].at \in Attempts,
         NEW why \in {"promptTooLarge", "resumeFailed"}, Asks(r, why),
         UNCHANGED <<plan, today, resumed, shown, window, failures, got, stillborn>>, resuming' \in BOOLEAN
  PROVE  Stepped(r)
<1>1. CASE r = app /\ ~window
  BY <1>1, EscapeStep DEF Asks
<1>2. CASE ~(r = app /\ ~window)
  <2>1. run' = [run EXCEPT ![r].at = "ask", ![r].why = why]
    BY <1>2 DEF Asks
  <2>2. [run EXCEPT ![r].at = "ask", ![r].why = why] =
          [run EXCEPT ![r] = Attempted(r, "ask", run[r].how, why)]
    BY Typed DEF Run, Attempted
  <2>3. Becomes(r, Attempted(r, "ask", run[r].how, why))
    BY <2>1, <2>2 DEF Becomes
  <2>4. "ask" \in Attempts \ {"save"}
    BY DEF Attempts
  <2> QED
    BY <2>3, <2>4, Fields, AttemptStep
<1> QED
  BY <1>1, <1>2

LEMMA attemptResumeStep ==
  ASSUME Discipline, NEW r \in Runner, attemptResume(r)
  PROVE  Stepped(r)
<1>1. UNCHANGED <<plan, today, resumed, shown, window, failures, got, stillborn>> /\ resuming' \in BOOLEAN
  BY DEF attemptResume, screen, Discipline, TypeOK
<1>2. run[r].at \in Attempts /\ "launched" \in Attempts \ {"save"}
  BY DEF attemptResume, Is, Attempts
<1> QED
  BY <1>1, <1>2, AsksStep, GoesStep, OverStep DEF attemptResume

LEMMA FailsFastStep ==
  ASSUME Discipline, NEW r \in Runner, FailsFast(r)
  PROVE  Stepped(r)
<1>1. UNCHANGED <<plan, today, resumed, shown, window, failures, got, stillborn>> /\ resuming' \in BOOLEAN
  BY DEF FailsFast, screen, Discipline, TypeOK
<1>2. run[r].at \in Attempts
  BY DEF FailsFast, Is, Attempts
<1> QED
  BY <1>1, <1>2, AsksStep, TurnStep, OverStep DEF FailsFast, Becomes

LEMMA AnswerStep ==
  ASSUME Discipline, NEW r \in Runner, Answer(r)
  PROVE  Stepped(r)
<1>1. UNCHANGED <<plan, today, resumed, shown, window, failures, got, stillborn>> /\ resuming' \in BOOLEAN
  BY DEF Answer, screen, Discipline, TypeOK
<1>2. run[r].at \in Attempts /\ "launched" \in Attempts \ {"save"}
  BY DEF Answer, Is, Attempts
<1>3. ASSUME NEW how \in {"withoutPlan", "fresh"},
             run' = [run EXCEPT ![r].at = "launched", ![r].how = how]
      PROVE  Stepped(r)
  <2>1. [run EXCEPT ![r].at = "launched", ![r].how = how] =
          [run EXCEPT ![r] = Attempted(r, "launched", how, run[r].why)]
    BY Typed DEF Run, Attempted
  <2>2. Becomes(r, Attempted(r, "launched", how, run[r].why))
    BY <1>3, <2>1 DEF Becomes
  <2> QED
    BY <1>1, <1>2, <2>2, Fields, AttemptStep
<1> QED
  BY <1>1, <1>2, <1>3, TurnStep, OverStep DEF Answer, Becomes

\* The session counts as launched: the step to the record.
LEMMA LaunchedStep ==
  ASSUME Discipline, NEW r \in Runner, Is(r, "launched"), Goes(r, "save"),
         {got', stillborn'} \subseteq [Day -> SUBSET Session], run[r].cur \in Launched'[run[r].day],
         UNCHANGED <<plan, today, resumed, screen, failures>>
  PROVE  Stepped(r)
<1> DEFINE x == Attempted(r, "save", run[r].how, run[r].why)
<1>1. run[r].at \in Attempts /\ "save" \in Attempts
  BY DEF Is, Attempts
<1>2. Becomes(r, x)
  BY <1>1, Fields DEF Becomes, Goes
<1>3. /\ x \in Run /\ Remembers(x) /\ x.at = "save"
      /\ x.left = run[r].left /\ x.soFar = run[r].soFar /\ x.cur = run[r].cur
      /\ x.day = run[r].day /\ x.named = run[r].named
  <2>1. run[r].how \in {"resume", "withoutPlan", "fresh"} /\ run[r].why \in {"promptTooLarge", "resumeFailed"}
    BY <1>1, Fields
  <2> QED
    BY <1>1, <2>1, AttemptBecomes
<1> HIDE DEF x
<1>4. Discipline' /\ run'[r] = x /\ Others(r)
  <2>1. /\ plan' \in [Day -> [Session -> Plan]] /\ today' \in Day
        /\ resumed' \in [Day -> SUBSET Session] /\ shown' \in 0 .. MaxDay
        /\ resuming' \in BOOLEAN /\ window' \in BOOLEAN /\ failures' \in Nat
    BY DEF Discipline, TypeOK, screen
  <2> QED
    BY <1>2, <1>3, <2>1, StepDiscipline DEF Others
<1> QED
  BY <1>1, <1>3, <1>4 DEF Stepped, Within, Is

\* Somebody got into it, or a fresh tab died at once.
Dies(r) == stillborn' = [stillborn EXCEPT ![run[r].day] = @ \cup {run[r].cur}]

Counts(r) == Launched' = [Launched EXCEPT ![run[r].day] = @ \cup {run[r].cur}]

LEMMA GotType ==
  ASSUME Discipline, NEW r \in Runner, Is(r, "launched"),
         \/ Got(r) /\ UNCHANGED stillborn
         \/ Dies(r) /\ UNCHANGED got
  PROVE  /\ run[r].day \in Day /\ run[r].cur \in Session
         /\ {got', stillborn'} \subseteq [Day -> SUBSET Session]
         /\ Counts(r) /\ run[r].cur \in Launched'[run[r].day]
<1>1. run[r].day \in Day /\ run[r].cur \in Session
  BY Typed DEF Is, Remembers, Dated, Attempts
<1>2. \A d \in Day : got[d] \in SUBSET Session /\ stillborn[d] \in SUBSET Session
  BY DEF Discipline, TypeOK
<1>3. got \in [Day -> SUBSET Session] /\ stillborn \in [Day -> SUBSET Session]
  BY DEF Discipline, TypeOK
<1>4. CASE Got(r) /\ UNCHANGED stillborn
  <2>1. got' \in [Day -> SUBSET Session] /\ stillborn' \in [Day -> SUBSET Session]
    BY <1>1, <1>2, <1>3, <1>4 DEF Got
  <2>2. \A d \in Day : got'[d] \cup stillborn'[d] =
          IF d = run[r].day THEN (got[d] \cup stillborn[d]) \cup {run[r].cur} ELSE got[d] \cup stillborn[d]
    BY <1>1, <1>3, <1>4 DEF Got
  <2> QED
    BY <1>1, <2>1, <2>2 DEF Counts, Launched
<1>5. CASE Dies(r) /\ UNCHANGED got
  <2>1. got' \in [Day -> SUBSET Session] /\ stillborn' \in [Day -> SUBSET Session]
    BY <1>1, <1>2, <1>3, <1>5 DEF Dies
  <2>2. \A d \in Day : got'[d] \cup stillborn'[d] =
          IF d = run[r].day THEN (got[d] \cup stillborn[d]) \cup {run[r].cur} ELSE got[d] \cup stillborn[d]
    BY <1>1, <1>3, <1>5 DEF Dies
  <2> QED
    BY <1>1, <2>1, <2>2 DEF Counts, Launched
<1> QED
  BY <1>4, <1>5

LEMMA SurvivesGraceStep ==
  ASSUME Discipline, SurvivesGrace
  PROVE  Stepped(app)
BY GotType, LaunchedStep DEF SurvivesGrace, Runner

LEMMA FreshTabOpensStep ==
  ASSUME Discipline, FreshTabOpens
  PROVE  Stepped(app)
BY GotType, LaunchedStep DEF FreshTabOpens, Dies, Runner

LEMMA SessionEndsStep ==
  ASSUME Discipline, NEW r \in Runner, SessionEnds(r)
  PROVE  Stepped(r)
BY GotType, LaunchedStep DEF SessionEnds

\* What the panel shows is a day, or none.
LEMMA ShowType ==
  ASSUME Show
  PROVE  shown' \in 0 .. MaxDay
BY BoundAssumption DEF Show, findPendingBriefing, Scanned, Day

\* A run that is over, and leaves the record as it is.
LEMMA IdleStep ==
  ASSUME Discipline, NEW r \in Runner, Becomes(r, Idle), UNCHANGED <<plan, today, resumed>>,
         shown' \in 0 .. MaxDay, resuming' \in BOOLEAN, window' \in BOOLEAN,
         failures' \in Nat, {got', stillborn'} \subseteq [Day -> SUBSET Session]
  PROVE  Stepped(r)
<1>1. /\ plan' \in [Day -> [Session -> Plan]] /\ today' \in Day
      /\ resumed' \in [Day -> SUBSET Session]
  BY DEF Discipline, TypeOK
<1>2. Idle.at = "idle"
  BY DEF Idle
<1> QED
  BY <1>1, <1>2, IdleType, StepDiscipline DEF Stepped, Others, Within

LEMMA ReportStep ==
  ASSUME Discipline, Report
  PROVE  Stepped(app)
<1>1. shown' \in 0 .. MaxDay /\ resuming' \in BOOLEAN
  BY ShowType DEF Report, Discipline, TypeOK
<1>2. UNCHANGED <<plan, today, resumed, window, failures, got, stillborn>> /\ Becomes(app, Idle) /\ app \in Runner
  BY DEF Report, Becomes, Runner
<1>3. window' \in BOOLEAN /\ failures' \in Nat /\ {got', stillborn'} \subseteq [Day -> SUBSET Session]
  BY <1>2 DEF Discipline, TypeOK
<1> QED
  BY <1>1, <1>2, <1>3, IdleStep

LEMMA FailsType ==
  ASSUME Discipline, Fails
  PROVE  failures' \in Nat
BY BoundAssumption DEF Discipline, TypeOK, Fails

LEMMA StorageFailsStep ==
  ASSUME Discipline, NEW r \in Runner, StorageFails(r)
  PROVE  Stepped(r)
<1>1. /\ UNCHANGED <<plan, today, resumed, shown, resuming, window, got, stillborn>> /\ Becomes(r, Idle)
      /\ failures' \in Nat
  BY FailsType, EscapeBecomes DEF StorageFails, screen
<1>2. /\ shown' \in 0 .. MaxDay /\ resuming' \in BOOLEAN /\ window' \in BOOLEAN
      /\ {got', stillborn'} \subseteq [Day -> SUBSET Session]
  BY <1>1 DEF Discipline, TypeOK
<1> QED
  BY <1>1, <1>2, IdleStep

LEMMA DieStep ==
  ASSUME Discipline, NEW r \in Runner, Die(r)
  PROVE  Stepped(r)
<1>1. UNCHANGED <<plan, today, resumed>> /\ Becomes(r, Idle) /\ failures' \in Nat
  BY FailsType, EscapeBecomes DEF Die
<1>2. shown' \in 0 .. MaxDay /\ resuming' \in BOOLEAN /\ window' \in BOOLEAN
  <2>1. CASE r = app
    <3>1. shown' = 0 /\ resuming' = FALSE /\ window' = TRUE
      BY <2>1, Zenon DEF Die
    <3>2. 0 \in 0 .. MaxDay
      BY BoundAssumption
    <3> QED
      BY <3>1, <3>2
  <2>2. CASE r # app
    BY <2>2 DEF Die, screen, Discipline, TypeOK
  <2> QED
    BY <2>1, <2>2
<1>3. {got', stillborn'} \subseteq [Day -> SUBSET Session]
  BY GotType DEF Die, Discipline, TypeOK
<1> QED
  BY <1>1, <1>2, <1>3, IdleStep

\* The steps of a run after the choice of its sessions that write no record.
Steady(r) ==
  \/ attemptResume(r) \/ FailsFast(r) \/ SessionEnds(r) \/ Answer(r) \/ StorageFails(r) \/ Die(r)
  \/ r = app /\ (SurvivesGrace \/ FreshTabOpens \/ Report)

LEMMA SteadyStep ==
  ASSUME Discipline, NEW r \in Runner, Steady(r)
  PROVE  Stepped(r)
BY attemptResumeStep, FailsFastStep, SessionEndsStep, AnswerStep, StorageFailsStep, DieStep,
   SurvivesGraceStep, FreshTabOpensStep, ReportStep DEF Steady

-----------------------------------------------------------------------------
(* The steps that choose, read, go on to the next session, and record it *)

\* A run of the record's fields, at a place where it has a day and no session.
LEMMA LookStep ==
  ASSUME Discipline, NEW r \in Runner, Look(r)
  PROVE  /\ Discipline' /\ Others(r) /\ run'[r].at = "pick"
         /\ run'[r].left \cap resumed[run'[r].day] = {}
<1> PICK day \in findPendingBriefing, named \in BOOLEAN :
      run' = [run EXCEPT ![r] = [Idle EXCEPT !.at = "pick", !.day = day, !.named = named,
                                             !.left = unresumedHandoffs(day)]]
  BY DEF Look
<1> DEFINE x == [Idle EXCEPT !.at = "pick", !.day = day, !.named = named, !.left = unresumedHandoffs(day)]
<1>1. day \in Day
  BY DEF findPendingBriefing, Scanned
<1>2. unresumedHandoffs(day) \subseteq Session /\ unresumedHandoffs(day) \cap resumed[day] = {}
  BY DEF unresumedHandoffs, Handoffs
<1>3. /\ x \in Run /\ Remembers(x) /\ x.at = "pick" /\ x.day = day
      /\ x.left = unresumedHandoffs(day)
  <2>1. day \in 0 .. MaxDay
    BY <1>1, BoundAssumption DEF Day
  <2> QED
    BY <1>1, <1>2, <2>1, IdleType DEF Run, Remembers, Attempts
<1>4. Becomes(r, x)
  BY DEF Becomes
<1> HIDE DEF x
<1>5. UNCHANGED <<plan, today, resumed, shown, window, failures, got, stillborn>> /\ resuming' \in BOOLEAN
  BY DEF Look, screen, Discipline, TypeOK
<1>6. Discipline' /\ run'[r] = x /\ Others(r)
  BY <1>3, <1>4, <1>5, MoveDiscipline DEF Others
<1> QED
  BY <1>2, <1>3, <1>6

LEMMA ChooseStep ==
  ASSUME Discipline, NEW r \in Runner, Choose(r)
  PROVE  /\ Discipline' /\ Others(r)
         /\ \/ run'[r] = Idle
            \/ /\ run'[r].at = "read" /\ run'[r].day = run[r].day /\ run'[r].named = run[r].named
               /\ ~run[r].named => run'[r].left \subseteq run[r].left
<1> PICK chosen \in Choices(r) :
      run' = [run EXCEPT ![r] = IF chosen = {} THEN Idle
                                ELSE [@ EXCEPT !.at = "read", !.left = chosen]]
  BY DEF Choose
<1> DEFINE y == [run[r] EXCEPT !.at = "read", !.left = chosen]
           x == IF chosen = {} THEN Idle ELSE y
<1>1. run[r] \in Run /\ Remembers(run[r]) /\ run \in [Runner -> Run] /\ Is(r, "pick")
  BY Typed DEF Choose
<1>2. chosen \subseteq Session /\ (~run[r].named => chosen \subseteq run[r].left)
  BY <1>1 DEF Choices, Handoffs, Run
<1>3. /\ y \in Run /\ Remembers(y) /\ y.at = "read" /\ y.day = run[r].day
      /\ y.named = run[r].named /\ y.left = chosen
  BY <1>1, <1>2 DEF Run, Remembers, Dated, Attempts, Is
<1>4. Becomes(r, x)
  BY <1>1 DEF Becomes
<1> HIDE DEF y
<1>5. x \in Run /\ Remembers(x)
  BY <1>3, IdleType
<1>6. UNCHANGED <<plan, today, resumed, shown, window, failures, got, stillborn>> /\ resuming' \in BOOLEAN
  BY DEF Choose, screen, Discipline, TypeOK
<1>7. Discipline' /\ run'[r] = x /\ Others(r)
  <2> HIDE DEF x
  <2> QED
    BY <1>4, <1>5, <1>6, MoveDiscipline DEF Others
<1> QED
  BY <1>2, <1>3, <1>7

LEMMA ClickStep ==
  ASSUME Discipline, Click
  PROVE  Discipline' /\ Others(app) /\ run'[app].at = "read"
<1> PICK chosen \in SUBSET Handoffs(shown) \ {{}} :
      run' = [run EXCEPT ![app] = [Idle EXCEPT !.at = "read", !.day = shown, !.left = chosen]]
  BY DEF Click
<1> DEFINE x == [Idle EXCEPT !.at = "read", !.day = shown, !.left = chosen]
<1>1. shown \in Day /\ chosen \subseteq Session
  BY BoundAssumption DEF Click, Discipline, TypeOK, Day, Handoffs
<1>2. x \in Run /\ Remembers(x) /\ x.at = "read"
  <2>1. shown \in 0 .. MaxDay
    BY DEF Discipline, TypeOK
  <2> QED
    BY <1>1, <2>1, IdleType DEF Run, Remembers, Attempts
<1>3. Becomes(app, x) /\ app \in Runner
  BY DEF Becomes, Runner
<1> HIDE DEF x
<1>4. UNCHANGED <<plan, today, resumed, shown, window, failures, got, stillborn>> /\ resuming' \in BOOLEAN
  BY DEF Click
<1> QED
  BY <1>2, <1>3, <1>4, MoveDiscipline DEF Others

LEMMA ReadRecordStep ==
  ASSUME Discipline, NEW r \in Runner, ReadRecord(r)
  PROVE  /\ Discipline' /\ Others(r) /\ run'[r].at = "next" /\ run'[r].soFar = resumed[run[r].day]
         /\ run'[r].day = run[r].day /\ run'[r].named = run[r].named /\ run'[r].left = run[r].left
<1> DEFINE x == [run[r] EXCEPT !.at = "next", !.soFar = resumed[run[r].day]]
<1>1. run[r] \in Run /\ Remembers(run[r]) /\ run \in [Runner -> Run] /\ Is(r, "read")
  BY Typed DEF ReadRecord
<1>2. run[r].day \in Day /\ resumed[run[r].day] \subseteq Session
  BY <1>1, Typed DEF Remembers, Dated, Is
<1>3. /\ x \in Run /\ Remembers(x) /\ x.at = "next" /\ x.soFar = resumed[run[r].day]
      /\ x.day = run[r].day /\ x.named = run[r].named /\ x.left = run[r].left
  BY <1>1, <1>2 DEF Run, Remembers, Dated, Attempts
<1>4. Becomes(r, x)
  BY <1>1 DEF Becomes, ReadRecord
<1> HIDE DEF x
<1>5. UNCHANGED <<plan, today, resumed, shown, window, failures, got, stillborn>> /\ resuming' \in BOOLEAN
  BY DEF ReadRecord, screen, Discipline, TypeOK
<1>6. Discipline' /\ run'[r] = x /\ Others(r)
  BY <1>3, <1>4, <1>5, MoveDiscipline DEF Others
<1> QED
  BY <1>3, <1>6

LEMMA NextSessionStep ==
  ASSUME Discipline, NEW r \in Runner, NextSession(r)
  PROVE  /\ Discipline' /\ Others(r)
         /\ \/ run'[r].at \in {"idle", "report"}
            \/ /\ run'[r].at = "attempt" /\ run'[r].cur \in run[r].left
               /\ run'[r].left = run[r].left \ {run'[r].cur}
               /\ run'[r].soFar = run[r].soFar /\ run'[r].day = run[r].day
               /\ run'[r].named = run[r].named
<1>1. UNCHANGED <<plan, today, resumed, shown, window, failures, got, stillborn>> /\ resuming' \in BOOLEAN
  BY DEF NextSession, screen, Discipline, TypeOK
<1>2. run[r] \in Run /\ Remembers(run[r]) /\ run \in [Runner -> Run] /\ Is(r, "next")
  BY Typed DEF NextSession
<1>3. CASE Over(r) \/ Escapes(r)
  <2>1. Stepped(r) /\ ~(run[r].at \in Attempts)
    BY <1>1, <1>2, <1>3, OverStep, EscapeStep DEF Is, Attempts
  <2> QED
    BY <2>1 DEF Stepped, Within
<1>4. ASSUME NEW s \in run[r].left,
             run' = [run EXCEPT ![r].at = "attempt", ![r].cur = s, ![r].left = @ \ {s}]
      PROVE  /\ Discipline' /\ Others(r)
             /\ run'[r].at = "attempt" /\ run'[r].cur = s /\ run'[r].left = run[r].left \ {s}
             /\ run'[r].soFar = run[r].soFar /\ run'[r].day = run[r].day
             /\ run'[r].named = run[r].named
  <2> DEFINE x == [run[r] EXCEPT !.at = "attempt", !.cur = s, !.left = run[r].left \ {s}]
  <2>1. s \in Session /\ run[r].day \in Day
    BY <1>2 DEF Run, Remembers, Is, Dated
  <2>2. /\ x \in Run /\ Remembers(x) /\ x.at = "attempt" /\ x.cur = s /\ x.left = run[r].left \ {s}
        /\ x.soFar = run[r].soFar /\ x.day = run[r].day /\ x.named = run[r].named
    BY <1>2, <2>1 DEF Run, Remembers, Dated, Attempts
  <2>3. Becomes(r, x)
    BY <1>2, <1>4 DEF Becomes
  <2> HIDE DEF x
  <2>4. Discipline' /\ run'[r] = x /\ Others(r)
    BY <1>1, <2>2, <2>3, MoveDiscipline DEF Others
  <2> QED
    BY <2>2, <2>4
<1> QED
  BY <1>3, <1>4 DEF NextSession

LEMMA SaveStep ==
  ASSUME Discipline, NEW r \in Runner, Save(r)
  PROVE  /\ Discipline' /\ Others(r) /\ run[r].day \in Day /\ run[r].cur \in Session
         /\ run'[r].at = "next" /\ run'[r].soFar = Recorded(r) /\ run'[r].left = run[r].left
         /\ run'[r].day = run[r].day /\ run'[r].named = run[r].named
         /\ resumed' = [resumed EXCEPT ![run[r].day] = Recorded(r)]
<1> DEFINE x == [Turn(r) EXCEPT !.soFar = Recorded(r)]
<1>1. run[r] \in Run /\ Remembers(run[r]) /\ Is(r, "save")
  BY Typed DEF Save
<1>2. run[r].day \in Day /\ run[r].cur \in Session /\ Recorded(r) \subseteq Session
  BY <1>1 DEF Run, Remembers, Is, Dated, Attempts, Recorded
<1>3. Turn(r) \in Run /\ Remembers(Turn(r)) /\ Turn(r).at = "next"
      /\ Turn(r).left = run[r].left /\ Turn(r).day = run[r].day /\ Turn(r).named = run[r].named
  BY <1>1, TurnType DEF Is, Dated
<1>4. /\ x \in Run /\ Remembers(x) /\ x.at = "next" /\ x.soFar = Recorded(r)
      /\ x.left = run[r].left /\ x.day = run[r].day /\ x.named = run[r].named
  <2> HIDE DEF Turn
  <2> QED
    BY <1>2, <1>3 DEF Run, Remembers, Attempts
<1>5. Becomes(r, x) /\ resumed' = [resumed EXCEPT ![run[r].day] = Recorded(r)]
  BY DEF Becomes, Save
<1>6. /\ plan' \in [Day -> [Session -> Plan]] /\ today' \in Day
      /\ resumed' \in [Day -> SUBSET Session] /\ shown' \in 0 .. MaxDay
      /\ resuming' \in BOOLEAN /\ window' \in BOOLEAN /\ failures' \in Nat
      /\ {got', stillborn'} \subseteq [Day -> SUBSET Session]
  BY <1>2, <1>5 DEF Discipline, TypeOK, Save, screen
<1> HIDE DEF x
<1>7. Discipline' /\ run'[r] = x /\ Others(r)
  BY <1>4, <1>5, <1>6, StepDiscipline DEF Others
<1> QED
  BY <1>2, <1>4, <1>5, <1>7

-----------------------------------------------------------------------------
(* The rest of the world leaves the runs alone. *)

World == Refresh \/ CloseWindow \/ EndDay \/ NextDay

LEMMA WorldStep ==
  ASSUME Discipline, World
  PROVE  Discipline' /\ UNCHANGED <<run, resumed, got, stillborn>> /\ (UNCHANGED window \/ ~window')
<1>1. UNCHANGED <<run, resumed, failures, got, stillborn>>
  BY DEF World, Refresh, CloseWindow, EndDay, NextDay
<1>2. plan' \in [Day -> [Session -> Plan]]
  BY DEF World, Refresh, CloseWindow, EndDay, NextDay, Discipline, TypeOK
<1>3. today' \in Day
  <2>1. CASE NextDay
    BY <2>1, BoundAssumption DEF NextDay, Discipline, TypeOK, Day
  <2>2. CASE Refresh \/ CloseWindow \/ EndDay
    BY <2>2 DEF Refresh, CloseWindow, EndDay, Discipline, TypeOK
  <2> QED
    BY <2>1, <2>2 DEF World
<1>4. shown' \in 0 .. MaxDay /\ resuming' \in BOOLEAN /\ window' \in BOOLEAN /\ (UNCHANGED window \/ ~window')
  <2>1. CASE Refresh
    BY <2>1, ShowType DEF Refresh, Discipline, TypeOK
  <2>2. CASE EndDay \/ NextDay
    BY <2>2 DEF EndDay, NextDay, screen, Discipline, TypeOK
  <2>3. CASE CloseWindow
    <3>1. window' = FALSE /\ UNCHANGED <<shown, resuming>>
      BY <2>3 DEF CloseWindow
    <3> QED
      BY <3>1 DEF Discipline, TypeOK
  <2> QED
    BY <2>1, <2>2, <2>3 DEF World
<1>5. TypeOK'
  BY <1>1, <1>2, <1>3, <1>4 DEF Discipline, TypeOK
<1> QED
  BY <1>1, <1>4, <1>5 DEF Discipline, Remembers

-----------------------------------------------------------------------------
(* Types, in any interleaving *)

LEMMA Kinds ==
  ASSUME Next
  PROVE  \/ \E r \in Runner : \/ Steady(r) \/ Look(r) \/ Choose(r) \/ ReadRecord(r)
                              \/ NextSession(r) \/ Save(r)
         \/ Click \/ World
BY DEF Next, Step, Steady, World

LEMMA InitDiscipline == Init => Discipline
<1> SUFFICES ASSUME Init PROVE Discipline
  OBVIOUS
<1>1. run = [r \in Runner |-> Idle] /\ Idle \in Run /\ Remembers(Idle)
  BY IdleType DEF Init
<1>2. 1 \in Day /\ 0 \in 0 .. MaxDay /\ 0 \in Nat
  BY BoundAssumption DEF Day
<1> QED
  BY <1>1, <1>2 DEF Init, Discipline, TypeOK, Plan

LEMMA DisciplineStep == Discipline /\ [Next]_vars => Discipline'
<1> SUFFICES ASSUME Discipline, [Next]_vars PROVE Discipline'
  OBVIOUS
<1>1. CASE UNCHANGED vars
  BY <1>1 DEF vars, screen, Discipline, TypeOK, Remembers
<1>2. CASE Next
  BY <1>2, Kinds, SteadyStep, LookStep, ChooseStep, ReadRecordStep, NextSessionStep, SaveStep,
     ClickStep, WorldStep DEF Stepped
<1> QED
  BY <1>1, <1>2

\* Every variable keeps its type, in particular what the questions and answers
\* of resumeSessions may be (application/start-day.ts).
THEOREM TypeCorrect == Spec => []TypeOK
<1>1. Discipline => TypeOK
  BY DEF Discipline
<1> QED
  BY <1>1, InitDiscipline, DisciplineStep, PTL DEF Spec

-----------------------------------------------------------------------------
(* The record, in any interleaving *)

\* At work: not waiting for an answer that cannot come.
Active(r) == ~Is(r, "idle") /\ ~Forgotten(r)

\* What the steady steps do to the record, and to those who got into a session.
LEMMA SteadyFrame ==
  ASSUME Discipline, NEW r \in Runner, Steady(r)
  PROVE  /\ UNCHANGED resumed /\ (UNCHANGED window \/ r = app)
         /\ Active(r) \/ run'[r].at = "idle"
         /\ \/ UNCHANGED <<got, stillborn>>
            \/ /\ run[r].day \in Day /\ run[r].cur \in Session /\ Counts(r)
               /\ Got(r) \/ UNCHANGED got
<1>1. UNCHANGED resumed /\ (UNCHANGED window \/ r = app)
  BY DEF Steady, attemptResume, FailsFast, SessionEnds, Answer, StorageFails, Die, SurvivesGrace,
         FreshTabOpens, Report, screen
<1>2. Active(r) \/ run'[r].at = "idle"
  <2>1. CASE StorageFails(r) \/ Die(r)
    <3>1. run'[r] = Idle
      BY <2>1, Typed DEF StorageFails, Die, Escapes
    <3> QED
      BY <3>1 DEF Idle
  <2>2. CASE attemptResume(r) \/ FailsFast(r) \/ SessionEnds(r) \/ Answer(r) \/ (r = app /\ (SurvivesGrace \/ FreshTabOpens \/ Report))
    BY <2>2 DEF attemptResume, FailsFast, SessionEnds, Answer, SurvivesGrace, FreshTabOpens, Report, Active, Forgotten, Is
  <2> QED
    BY <2>1, <2>2 DEF Steady
<1>3. \/ UNCHANGED <<got, stillborn>>
      \/ /\ Is(r, "launched")
         /\ \/ Got(r) /\ UNCHANGED stillborn
            \/ Dies(r) /\ UNCHANGED got
  <2>1. CASE attemptResume(r) \/ FailsFast(r) \/ Answer(r) \/ StorageFails(r) \/ (r = app /\ Report)
    BY <2>1 DEF attemptResume, FailsFast, Answer, StorageFails, Report
  <2>2. CASE SessionEnds(r) \/ (r = app /\ SurvivesGrace)
    BY <2>2 DEF SessionEnds, SurvivesGrace
  <2>3. CASE Die(r)
    BY <2>3 DEF Die
  <2>4. CASE r = app /\ FreshTabOpens
    BY <2>4 DEF FreshTabOpens, Dies
  <2> QED
    BY <2>1, <2>2, <2>3, <2>4 DEF Steady
<1> QED
  BY <1>1, <1>2, <1>3, GotType

LEMMA LaunchedGrows ==
  ASSUME Discipline, NEW r \in Runner,
         \/ UNCHANGED <<got, stillborn>>
         \/ run[r].day \in Day /\ run[r].cur \in Session /\ Counts(r)
  PROVE  \A d \in Day : Launched[d] \subseteq Launched'[d]
<1>1. CASE UNCHANGED <<got, stillborn>>
  BY <1>1 DEF Launched
<1>2. CASE run[r].day \in Day /\ run[r].cur \in Session /\ Counts(r)
  <2>1. Launched \in [Day -> SUBSET Session]
    BY DEF Launched, Discipline, TypeOK
  <2> QED
    BY <1>2, <2>1 DEF Counts
<1> QED
  BY <1>1, <1>2

\* Only what somebody got into, or a fresh tab was opened for, is on record.
MarkedIsLaunched == \A d \in Day : resumed[d] \subseteq Launched[d]

\* What a run is about to record is of sessions that were launched, even where
\* another run has written the record since it was read.
EarnedInv(r) ==
  /\ run[r].at \in Attempts \cup {"next"} => run[r].soFar \subseteq Launched[run[r].day]
  /\ run[r].at = "save" => run[r].cur \in Launched[run[r].day]

OverlapInv == Discipline /\ MarkedIsLaunched /\ \A r \in Runner : EarnedInv(r)

LEMMA OverlapMove ==
  ASSUME OverlapInv, NEW r \in Runner, Discipline', Others(r),
         \A d \in Day : Launched[d] \subseteq Launched'[d], MarkedIsLaunched', EarnedInv(r)'
  PROVE  OverlapInv'
<1>1. ASSUME NEW q \in Runner, q # r PROVE EarnedInv(q)'
  <2>1. run'[q] = run[q] /\ EarnedInv(q)
    BY <1>1 DEF Others, OverlapInv
  <2>2. run[q].at \in Attempts \cup {"next"} => run[q].day \in Day
    BY Typed DEF OverlapInv, Remembers, Dated, Attempts
  <2> QED
    BY <2>1, <2>2 DEF EarnedInv, Attempts
<1> QED
  BY <1>1 DEF OverlapInv

LEMMA OverlapSteady ==
  ASSUME OverlapInv, NEW r \in Runner, Steady(r)
  PROVE  OverlapInv'
<1>1. Stepped(r)
  BY SteadyStep DEF OverlapInv
<1>2. UNCHANGED resumed /\ \A d \in Day : Launched[d] \subseteq Launched'[d]
  BY SteadyFrame, LaunchedGrows DEF OverlapInv, Launched
<1>3. MarkedIsLaunched'
  BY <1>2 DEF OverlapInv, MarkedIsLaunched
<1>4. EarnedInv(r)'
  <2>1. CASE run'[r].at \in {"idle", "report"}
    BY <2>1 DEF EarnedInv, Attempts
  <2>2. CASE run'[r].at \notin {"idle", "report"}
    <3>1. /\ run[r].at \in Attempts
          /\ run'[r].soFar = run[r].soFar /\ run'[r].day = run[r].day
          /\ run'[r].at \in Attempts => run'[r].cur = run[r].cur
          /\ run'[r].at = "save" => run[r].cur \in Launched'[run[r].day]
      BY <1>1, <2>2 DEF Stepped, Within
    <3>2. run[r].day \in Day
      BY <3>1, Typed DEF OverlapInv, Remembers, Dated, Attempts
    <3> QED
      BY <1>2, <3>1, <3>2 DEF EarnedInv, OverlapInv, Attempts
  <2> QED
    BY <2>1, <2>2
<1> QED
  BY <1>1, <1>2, <1>3, <1>4, OverlapMove DEF Stepped

LEMMA OverlapSave ==
  ASSUME OverlapInv, NEW r \in Runner, Save(r)
  PROVE  OverlapInv'
<1>1. /\ Discipline' /\ Others(r) /\ run[r].day \in Day
      /\ run'[r].at = "next" /\ run'[r].soFar = Recorded(r) /\ run'[r].day = run[r].day
      /\ resumed' = [resumed EXCEPT ![run[r].day] = Recorded(r)]
  BY SaveStep DEF OverlapInv
<1>2. UNCHANGED Launched /\ run[r].at = "save"
  BY DEF Save, Is, Launched
<1>3. Recorded(r) \subseteq Launched[run[r].day]
  BY <1>2 DEF OverlapInv, EarnedInv, Recorded, Attempts
<1>4. MarkedIsLaunched'
  BY <1>1, <1>2, <1>3 DEF OverlapInv, MarkedIsLaunched, Discipline, TypeOK
<1>5. EarnedInv(r)'
  BY <1>1, <1>2, <1>3 DEF EarnedInv
<1> QED
  BY <1>1, <1>2, <1>4, <1>5, OverlapMove

LEMMA OverlapStep == OverlapInv /\ [Next]_vars => OverlapInv'
<1> SUFFICES ASSUME OverlapInv, [Next]_vars PROVE OverlapInv'
  OBVIOUS
<1>1. ASSUME NEW r \in Runner, Look(r) \/ Choose(r) \/ ReadRecord(r) \/ NextSession(r)
      PROVE  OverlapInv'
  <2>1. UNCHANGED <<resumed, Launched>>
    BY <1>1 DEF Look, Choose, ReadRecord, NextSession, Launched
  <2>2. /\ Discipline' /\ Others(r)
        /\ \/ run'[r].at \in {"pick", "read", "idle", "report"}
           \/ run'[r].soFar = resumed[run[r].day] /\ run'[r].day = run[r].day /\ run[r].day \in Day /\ run'[r].at = "next"
           \/ /\ run'[r].soFar = run[r].soFar /\ run'[r].day = run[r].day
              /\ run'[r].at = "attempt" /\ run[r].at = "next"
    <3>1. CASE Look(r) \/ Choose(r)
      BY <3>1, LookStep, ChooseStep DEF OverlapInv, Idle
    <3>2. CASE ReadRecord(r)
      <4>1. run[r].day \in Day
        BY <3>2, Typed DEF OverlapInv, ReadRecord, Is, Remembers, Dated
      <4> QED
        BY <3>2, <4>1, ReadRecordStep DEF OverlapInv
    <3>3. CASE NextSession(r)
      BY <3>3, NextSessionStep DEF OverlapInv, NextSession, Is
    <3> QED
      BY <1>1, <3>1, <3>2, <3>3
  <2>3. EarnedInv(r)'
    BY <2>1, <2>2 DEF OverlapInv, EarnedInv, MarkedIsLaunched, Attempts
  <2> QED
    BY <2>1, <2>2, <2>3, OverlapMove DEF OverlapInv, MarkedIsLaunched
<1>2. CASE Click
  <2>1. Discipline' /\ Others(app) /\ run'[app].at = "read" /\ UNCHANGED <<resumed, Launched>> /\ app \in Runner
    BY <1>2, ClickStep DEF OverlapInv, Click, Runner, Launched
  <2> QED
    BY <2>1, OverlapMove DEF OverlapInv, MarkedIsLaunched, EarnedInv, Attempts
<1>3. CASE World
  BY <1>3, WorldStep DEF OverlapInv, MarkedIsLaunched, EarnedInv, Launched
<1>4. CASE UNCHANGED vars
  BY <1>4, DisciplineStep DEF vars, OverlapInv, MarkedIsLaunched, EarnedInv, Launched
<1>5. CASE Next
  BY <1>1, <1>2, <1>3, <1>5, Kinds, OverlapSteady, OverlapSave
<1> QED
  BY <1>4, <1>5

\* However many runs of start-day overlap each other and the closings, whatever dies between
\* a launch and its record: a session that is on record without anybody having got into it is
\* one whose fresh tab was opened by the application, which does not wait for those. Runs that
\* overlap can lose each other's marks, so that a session is offered again, but never gain one.
THEOREM MarksAreEarned == Spec => []MarkedIsLaunched
<1>1. Init => OverlapInv
  <2> SUFFICES ASSUME Init PROVE OverlapInv
    OBVIOUS
  <2>1. \A r \in Runner : run[r].at = "idle"
    BY DEF Init, Idle
  <2> QED
    BY <2>1, InitDiscipline DEF Init, OverlapInv, MarkedIsLaunched, EarnedInv, Attempts
<1>2. OverlapInv => MarkedIsLaunched
  BY DEF OverlapInv
<1> QED
  BY <1>1, <1>2, OverlapStep, PTL DEF Spec

-----------------------------------------------------------------------------
(* The record, where the runs come one after another *)

Alone == \A r, q \in Runner : Active(r) /\ Active(q) => r = q

\* The record as the run r, which is at work, has it is the one on disk.
RecordInv(r) ==
  /\ Active(r) /\ run[r].at \in Attempts \cup {"next"} => run[r].soFar = resumed[run[r].day]
  /\ run[r].at = "save" => run[r].cur \in Launched[run[r].day]

\* What a run of the command line that chose from the unmarked has left is unmarked.
ChoiceInv(r) ==
  r \in Cli /\ ~run[r].named =>
    /\ run[r].at \in Dated => run[r].left \cap resumed[run[r].day] = {}
    /\ run[r].at \in Attempts => run[r].cur \notin run[r].left \cup resumed[run[r].day]

SerialInv ==
  /\ Discipline /\ Alone /\ MarkedIsLaunched
  /\ \A r \in Runner : RecordInv(r) /\ ChoiceInv(r)

LEMMA InitSerial == Init => SerialInv
<1> SUFFICES ASSUME Init PROVE SerialInv
  OBVIOUS
<1>1. \A r \in Runner : run[r] = Idle /\ Is(r, "idle")
  BY DEF Init, Idle, Is
<1>2. Alone
  BY <1>1 DEF Alone, Active
<1>3. MarkedIsLaunched
  BY DEF Init, MarkedIsLaunched
<1>4. \A r \in Runner : RecordInv(r) /\ ChoiceInv(r)
  BY <1>1 DEF RecordInv, ChoiceInv, Active, Is, Attempts, Dated
<1> QED
  BY <1>2, <1>3, <1>4, InitDiscipline DEF SerialInv

\* A step of a run that is at work, starts alone, or comes to an end.
LEMMA SerialMove ==
  ASSUME SerialInv, NEW r \in Runner, Discipline', Others(r),
         UNCHANGED window \/ r = app,
         Active(r) \/ run'[r].at = "idle" \/ \A q \in Runner : ~Active(q),
         UNCHANGED resumed \/ Active(r),
         \A d \in Day : Launched[d] \subseteq Launched'[d],
         MarkedIsLaunched', RecordInv(r)', ChoiceInv(r)'
  PROVE  SerialInv'
<1>1. \A q \in Runner : q # r => run'[q] = run[q] /\ (Active(q)' => Active(q))
  BY DEF Others, Active, Forgotten, Is
<1>2. Alone'
  <2> SUFFICES ASSUME NEW p \in Runner, NEW q \in Runner, Active(p)', Active(q)', p # q
               PROVE  FALSE
    BY DEF Alone
  <2>1. Active(r)' => run'[r].at # "idle"
    BY DEF Active, Is
  <2> QED
    BY <1>1, <2>1 DEF SerialInv, Alone
<1>3. ASSUME NEW q \in Runner, q # r
      PROVE  RecordInv(q)' /\ ChoiceInv(q)'
  <2>1. RecordInv(q) /\ ChoiceInv(q) /\ run'[q] = run[q] /\ (Active(q)' => Active(q))
    BY <1>1, <1>3 DEF SerialInv
  <2>2. run[q].at = "save" => run[q].day \in Day
    BY Typed DEF SerialInv, Remembers, Dated
  <2>3. CASE UNCHANGED resumed
    <3>1. run[q].at = "save" => run[q].cur \in Launched'[run[q].day]
      BY <2>1, <2>2 DEF RecordInv
    <3> QED
      BY <2>1, <2>3, <3>1 DEF RecordInv, ChoiceInv
  <2>4. CASE Active(r)
    <3>1. ~Active(q)
      BY <1>3, <2>4 DEF SerialInv, Alone
    <3>2. run[q].at = "idle" \/ (q = app /\ run[q].at = "ask")
      BY <3>1 DEF Active, Forgotten, Is
    <3>3. RecordInv(q)'
      BY <2>1, <3>1, <3>2 DEF RecordInv
    <3>4. ChoiceInv(q)'
      BY <2>1, <3>2, RunnerAssumption DEF ChoiceInv, Dated, Attempts
    <3> QED
      BY <3>3, <3>4
  <2> QED
    BY <2>3, <2>4
<1> QED
  BY <1>2, <1>3 DEF SerialInv

LEMMA StartsAlone ==
  ASSUME ~Overlap, MayStart, NEW q \in Runner
  PROVE  ~Active(q)
BY DEF MayStart, Active

LEMMA SteadySerial ==
  ASSUME SerialInv, NEW r \in Runner, Steady(r)
  PROVE  SerialInv'
<1>1. Discipline
  BY DEF SerialInv
<1>2. Stepped(r)
  BY <1>1, SteadyStep
<1>3. /\ UNCHANGED resumed /\ (UNCHANGED window \/ r = app)
      /\ Active(r) \/ run'[r].at = "idle"
  BY <1>1, SteadyFrame
<1>4. \A d \in Day : Launched[d] \subseteq Launched'[d]
  BY <1>1, SteadyFrame, LaunchedGrows
<1>5. MarkedIsLaunched'
  BY <1>3, <1>4 DEF SerialInv, MarkedIsLaunched
<1>6. RecordInv(r)' /\ ChoiceInv(r)'
  <2>1. CASE run'[r].at \in {"idle", "report"}
    BY <2>1 DEF RecordInv, ChoiceInv, Attempts, Dated
  <2>2. CASE run'[r].at \notin {"idle", "report"}
    <3>1. /\ run[r].at \in Attempts /\ run'[r].at \in Attempts \cup {"next"}
          /\ run'[r].left = run[r].left /\ run'[r].soFar = run[r].soFar
          /\ run'[r].day = run[r].day /\ run'[r].named = run[r].named
          /\ run'[r].at \in Attempts => run'[r].cur = run[r].cur
          /\ run'[r].at = "save" => run[r].cur \in Launched'[run[r].day]
      BY <1>2, <2>2 DEF Stepped, Within
    <3>2. "save" \in Attempts /\ Attempts \subseteq Dated
      BY DEF Attempts, Dated
    <3>3. RecordInv(r)'
      BY <1>3, <2>2, <3>1, <3>2 DEF RecordInv, SerialInv
    <3>4. ChoiceInv(r)'
      BY <1>3, <3>1, <3>2 DEF ChoiceInv, SerialInv
    <3> QED
      BY <3>3, <3>4
  <2> QED
    BY <2>1, <2>2
<1> QED
  BY <1>2, <1>3, <1>4, <1>5, <1>6, SerialMove DEF Stepped

LEMMA LookSerial ==
  ASSUME ~Overlap, SerialInv, NEW r \in Runner, Look(r)
  PROVE  SerialInv'
<1>1. /\ Discipline' /\ Others(r) /\ run'[r].at = "pick"
      /\ run'[r].left \cap resumed[run'[r].day] = {}
  BY LookStep DEF SerialInv
<1>2. UNCHANGED <<resumed, window, Launched>> /\ \A q \in Runner : ~Active(q)
  BY StartsAlone DEF Look, screen, Launched
<1>3. MarkedIsLaunched' /\ RecordInv(r)' /\ ChoiceInv(r)'
  BY <1>1, <1>2 DEF SerialInv, MarkedIsLaunched, RecordInv, ChoiceInv, Attempts
<1> QED
  BY <1>1, <1>2, <1>3, SerialMove

LEMMA ClickSerial ==
  ASSUME ~Overlap, SerialInv, Click
  PROVE  SerialInv'
<1>1. Discipline' /\ Others(app) /\ run'[app].at = "read"
  BY ClickStep DEF SerialInv
<1>2. UNCHANGED <<resumed, window, Launched>> /\ \A q \in Runner : ~Active(q)
  BY StartsAlone DEF Click, Launched
<1>3. MarkedIsLaunched' /\ RecordInv(app)' /\ ChoiceInv(app)' /\ app \in Runner
  BY <1>1, <1>2, RunnerAssumption DEF SerialInv, MarkedIsLaunched, RecordInv, ChoiceInv, Attempts, Runner
<1> QED
  BY <1>1, <1>2, <1>3, SerialMove

LEMMA ChooseSerial ==
  ASSUME SerialInv, NEW r \in Runner, Choose(r)
  PROVE  SerialInv'
<1>1. /\ Discipline' /\ Others(r)
      /\ \/ run'[r] = Idle
         \/ /\ run'[r].at = "read" /\ run'[r].day = run[r].day /\ run'[r].named = run[r].named
            /\ ~run[r].named => run'[r].left \subseteq run[r].left
  BY ChooseStep DEF SerialInv
<1>2. UNCHANGED <<resumed, window, Launched>> /\ Active(r) /\ run[r].at = "pick"
  BY DEF Choose, screen, Active, Forgotten, Is, Launched
<1>3. MarkedIsLaunched' /\ RecordInv(r)'
  BY <1>1, <1>2 DEF SerialInv, MarkedIsLaunched, RecordInv, Attempts, Idle
<1>4. ChoiceInv(r)'
  <2>1. CASE run'[r] = Idle
    BY <2>1 DEF ChoiceInv, Idle, Dated, Attempts
  <2>2. CASE run'[r].at = "read"
    <3>1. run[r].at \in Dated /\ run'[r] # Idle
      BY <1>2, <2>2 DEF Dated, Idle
    <3> QED
      BY <1>1, <1>2, <2>2, <3>1 DEF ChoiceInv, SerialInv, Attempts
  <2> QED
    BY <1>1, <2>1, <2>2
<1> QED
  BY <1>1, <1>2, <1>3, <1>4, SerialMove

LEMMA ReadRecordSerial ==
  ASSUME SerialInv, NEW r \in Runner, ReadRecord(r)
  PROVE  SerialInv'
<1>1. /\ Discipline' /\ Others(r) /\ run'[r].at = "next" /\ run'[r].soFar = resumed[run[r].day]
      /\ run'[r].day = run[r].day /\ run'[r].named = run[r].named /\ run'[r].left = run[r].left
  BY ReadRecordStep DEF SerialInv
<1>2. UNCHANGED <<resumed, window, Launched>> /\ Active(r) /\ run[r].at = "read"
  BY DEF ReadRecord, screen, Active, Forgotten, Is, Launched
<1>3. MarkedIsLaunched' /\ RecordInv(r)'
  BY <1>1, <1>2 DEF SerialInv, MarkedIsLaunched, RecordInv
<1>4. ChoiceInv(r)'
  BY <1>1, <1>2 DEF ChoiceInv, SerialInv, Dated, Attempts
<1> QED
  BY <1>1, <1>2, <1>3, <1>4, SerialMove

LEMMA NextSessionSerial ==
  ASSUME SerialInv, NEW r \in Runner, NextSession(r)
  PROVE  SerialInv'
<1>1. /\ Discipline' /\ Others(r)
      /\ \/ run'[r].at \in {"idle", "report"}
         \/ /\ run'[r].at = "attempt" /\ run'[r].cur \in run[r].left
            /\ run'[r].left = run[r].left \ {run'[r].cur}
            /\ run'[r].soFar = run[r].soFar /\ run'[r].day = run[r].day
            /\ run'[r].named = run[r].named
  BY NextSessionStep DEF SerialInv
<1>2. UNCHANGED <<resumed, window, Launched>> /\ Active(r) /\ run[r].at = "next"
  BY DEF NextSession, screen, Active, Forgotten, Is, Launched
<1>3. MarkedIsLaunched'
  BY <1>2 DEF SerialInv, MarkedIsLaunched
<1>4. RecordInv(r)' /\ ChoiceInv(r)'
  <2>1. CASE run'[r].at \in {"idle", "report"}
    BY <2>1 DEF RecordInv, ChoiceInv, Attempts, Dated
  <2>2. CASE run'[r].at = "attempt"
    <3>1. RecordInv(r)'
      BY <1>1, <1>2, <2>2 DEF RecordInv, SerialInv
    <3>2. ChoiceInv(r)'
      BY <1>1, <1>2, <2>2 DEF ChoiceInv, SerialInv, Dated
    <3> QED
      BY <3>1, <3>2
  <2> QED
    BY <1>1, <2>1, <2>2
<1> QED
  BY <1>1, <1>2, <1>3, <1>4, SerialMove

\* The record on disk grows by the session in hand, which was launched.
LEMMA SaveMarks ==
  ASSUME SerialInv, NEW r \in Runner, Save(r)
  PROVE  /\ run[r].day \in Day /\ run[r].cur \in Session /\ run[r].cur \in Launched[run[r].day]
         /\ resumed' = [resumed EXCEPT ![run[r].day] = @ \cup {run[r].cur}]
         /\ Recorded(r) = resumed[run[r].day] \cup {run[r].cur}
         /\ resumed \in [Day -> SUBSET Session]
<1>1. Active(r) /\ run[r].at = "save" /\ "save" \in Attempts
  BY DEF Save, Active, Forgotten, Is, Attempts
<1>2. run[r].soFar = resumed[run[r].day] /\ run[r].cur \in Launched[run[r].day]
  BY <1>1 DEF SerialInv, RecordInv
<1> QED
  BY <1>2, SaveStep DEF SerialInv, Recorded, Discipline, TypeOK

LEMMA SaveSerial ==
  ASSUME SerialInv, NEW r \in Runner, Save(r)
  PROVE  SerialInv'
<1>1. /\ Discipline' /\ Others(r) /\ run[r].day \in Day
      /\ run'[r].at = "next" /\ run'[r].soFar = Recorded(r) /\ run'[r].left = run[r].left
      /\ run'[r].day = run[r].day /\ run'[r].named = run[r].named
  BY SaveStep DEF SerialInv
<1>2. UNCHANGED <<window, Launched>> /\ Active(r) /\ run[r].at = "save"
  BY DEF Save, screen, Active, Forgotten, Is, Launched
<1>3. /\ run[r].cur \in Launched[run[r].day] /\ Recorded(r) = resumed[run[r].day] \cup {run[r].cur}
      /\ resumed'[run[r].day] = Recorded(r)
      /\ \A d \in Day : d # run[r].day => resumed'[d] = resumed[d]
  BY SaveMarks
<1>4. MarkedIsLaunched'
  BY <1>2, <1>3 DEF SerialInv, MarkedIsLaunched
<1>5. RecordInv(r)'
  BY <1>1, <1>3 DEF RecordInv
<1>6. ChoiceInv(r)'
  BY <1>1, <1>2, <1>3 DEF ChoiceInv, SerialInv, Dated, Attempts
<1> QED
  BY <1>1, <1>2, <1>4, <1>5, <1>6, SerialMove

LEMMA WorldSerial ==
  ASSUME SerialInv, World
  PROVE  SerialInv'
<1>1. Discipline' /\ UNCHANGED <<run, resumed, Launched>> /\ (UNCHANGED window \/ ~window')
  BY WorldStep DEF SerialInv, Launched
<1>2. \A r \in Runner : Active(r)' => Active(r)
  BY <1>1 DEF Active, Forgotten, Is
<1> QED
  BY <1>1, <1>2 DEF SerialInv, Alone, MarkedIsLaunched, RecordInv, ChoiceInv

LEMMA SerialStep == ~Overlap /\ SerialInv /\ [Next]_vars => SerialInv'
<1> SUFFICES ASSUME ~Overlap, SerialInv, [Next]_vars PROVE SerialInv'
  OBVIOUS
<1>1. CASE UNCHANGED vars
  <2>1. UNCHANGED <<plan, today, resumed, run, shown, resuming, window, failures, got, stillborn>>
    BY <1>1 DEF vars, screen
  <2>2. Discipline'
    BY <2>1 DEF SerialInv, Discipline, TypeOK, Remembers
  <2>3. \A r \in Runner : Active(r)' = Active(r)
    BY <2>1 DEF Active, Forgotten, Is
  <2> QED
    BY <2>1, <2>2, <2>3 DEF SerialInv, Alone, MarkedIsLaunched, RecordInv, ChoiceInv, Launched
<1>2. CASE Next
  BY <1>2, Kinds, SteadySerial, LookSerial, ChooseSerial, ReadRecordSerial, NextSessionSerial,
     SaveSerial, ClickSerial, WorldSerial
<1> QED
  BY <1>1, <1>2

\* What --all and the picker launch is never on record already, where runs come one
\* after another (unresumedHandoffs, and the loop of resumeSessions).
THEOREM LaunchesAreNew == ~Overlap /\ Spec => []NotReopened
<1>1. SerialInv => NotReopened
  BY DEF SerialInv, ChoiceInv, NotReopened, Is, Attempts, Runner
<1>2. CASE Overlap
  BY <1>2
<1>3. CASE ~Overlap
  BY <1>1, <1>3, InitSerial, SerialStep, PTL DEF Spec
<1> QED
  BY <1>2, <1>3, OverlapAssumption

\* A step of the morning launches a session, marks one that was launched, or does
\* neither.
LEMMA MarksStep ==
  ASSUME SerialInv, [Next]_vars
  PROVE  [Marks!Next]_<<Launched, resumed>>
<1>1. CASE UNCHANGED vars
  BY <1>1 DEF vars, Launched
<1>2. ASSUME NEW r \in Runner, Steady(r)
      PROVE  [Marks!Next]_<<Launched, resumed>>
  <2>1. /\ UNCHANGED resumed
        /\ \/ UNCHANGED Launched
           \/ run[r].day \in Day /\ run[r].cur \in Session /\ Counts(r)
    BY <1>2, SteadyFrame DEF SerialInv, Launched
  <2>2. CASE run[r].day \in Day /\ run[r].cur \in Session /\ Counts(r)
    <3>1. Marks!Launch(run[r].day, run[r].cur)
      BY <2>1, <2>2 DEF Counts, Marks!Launch
    <3> QED
      BY <2>2, <3>1 DEF Marks!Next, Day
  <2> QED
    BY <2>1, <2>2
<1>3. ASSUME NEW r \in Runner, Save(r)
      PROVE  [Marks!Next]_<<Launched, resumed>>
  <2>1. Marks!Mark(run[r].day, run[r].cur) /\ run[r].day \in Day /\ run[r].cur \in Session
    BY <1>3, SaveMarks DEF Marks!Mark, Save, Launched
  <2> QED
    BY <2>1 DEF Marks!Next, Day
<1>4. ASSUME NEW r \in Runner, Look(r) \/ Choose(r) \/ ReadRecord(r) \/ NextSession(r)
      PROVE  UNCHANGED <<Launched, resumed>>
  BY <1>4 DEF Look, Choose, ReadRecord, NextSession, Launched
<1>5. CASE Click \/ World
  BY <1>5 DEF Click, World, Refresh, CloseWindow, EndDay, NextDay, Launched
<1>6. CASE Next
  BY <1>2, <1>3, <1>4, <1>5, <1>6, Kinds
<1> QED
  BY <1>1, <1>6

\* Only a session that somebody got into, or that a fresh tab was opened for, is
\* marked, and a mark stays: the record of start-day.ts:225, written whole after each session, implements MorningMarks where
\* runs come one after another.
THEOREM Implementation == ~Overlap /\ Spec => ImplementsMorningMarks
<1>1. Init => Marks!Init
  BY DEF Init, Marks!Init, Day, Launched
<1>2. CASE Overlap
  BY <1>2
<1>3. CASE ~Overlap
  BY <1>1, <1>3, InitSerial, SerialStep, MarksStep, PTL DEF Spec, ImplementsMorningMarks, Marks!Spec
<1> QED
  BY <1>2, <1>3, OverlapAssumption

-----------------------------------------------------------------------------
(* What a failure may lose *)

\* The sessions that somebody got into, not on record, and no run about to record them.
Lost == {m \in Unrecorded :
           \A r \in Runner : run[r].at = "save" => m # <<run[r].day, run[r].cur>>}

LossInv == SerialInv /\ IsFiniteSet(Lost) /\ Cardinality(Lost) <= failures

InHand(r) == <<run[r].day, run[r].cur>>

\* A step of a run leaves the sessions lost as they are, but for the one in its hand.
LEMMA LostByOne ==
  ASSUME Discipline, NEW r \in Runner, Others(r), UNCHANGED resumed,
         UNCHANGED got \/ (run[r].day \in Day /\ run[r].cur \in Session /\ Got(r))
  PROVE  Lost' \subseteq Lost \cup {InHand(r)}
<1> SUFFICES ASSUME NEW m \in Lost', m # InHand(r) PROVE m \in Lost
  OBVIOUS
<1>1. m \in Day \X Session /\ m[2] \in got'[m[1]] /\ m[2] \notin resumed[m[1]]
  BY DEF Lost, Unrecorded
<1>2. m = <<m[1], m[2]>> /\ m[1] \in Day
  BY <1>1
<1>3. m[2] \in got[m[1]]
  BY <1>1, <1>2 DEF Got, InHand, Discipline, TypeOK
<1>4. ASSUME NEW q \in Runner, run[q].at = "save"
      PROVE  m # <<run[q].day, run[q].cur>>
  BY <1>4 DEF Lost, Others, InHand
<1> QED
  BY <1>1, <1>3, <1>4 DEF Lost, Unrecorded

\* It is not lost where the run goes on to record it, nor where there was none.
LEMMA LostByNone ==
  ASSUME Discipline, NEW r \in Runner, Others(r), UNCHANGED resumed, run[r].at # "save",
         \/ UNCHANGED got
         \/ /\ run[r].day \in Day /\ run[r].cur \in Session /\ Got(r)
            /\ run'[r].at = "save" /\ run'[r].day = run[r].day /\ run'[r].cur = run[r].cur
  PROVE  Lost' \subseteq Lost
<1> SUFFICES ASSUME NEW m \in Lost' PROVE m \in Lost
  OBVIOUS
<1>1. CASE UNCHANGED got
  BY <1>1 DEF Lost, Unrecorded, Others
<1>2. CASE /\ run[r].day \in Day /\ run[r].cur \in Session /\ Got(r)
           /\ run'[r].at = "save" /\ run'[r].day = run[r].day /\ run'[r].cur = run[r].cur
  <2>1. m # InHand(r)
    BY <1>2 DEF Lost, InHand
  <2> QED
    BY <1>2, <2>1, LostByOne
<1> QED
  BY <1>1, <1>2

LEMMA SteadyLoss ==
  ASSUME Discipline, NEW r \in Runner, Steady(r)
  PROVE  \/ Lost' \subseteq Lost /\ UNCHANGED failures
         \/ Lost' \subseteq Lost \cup {InHand(r)} /\ failures' = failures + 1
<1>1. Stepped(r)
  BY SteadyStep
<1>2. UNCHANGED resumed
  BY SteadyFrame
<1>3. CASE StorageFails(r) \/ Die(r)
  <2>1. failures' = failures + 1
    BY <1>3 DEF StorageFails, Die, Fails
  <2> QED
    BY <1>1, <1>2, <2>1, LostByOne, SteadyFrame DEF Stepped
<1>4. CASE attemptResume(r) \/ FailsFast(r) \/ Answer(r) \/ (r = app /\ Report)
  <2>1. UNCHANGED <<got, failures>> /\ run[r].at # "save"
    BY <1>4 DEF attemptResume, FailsFast, Answer, Report, Is
  <2> QED
    BY <1>1, <1>2, <2>1, LostByNone DEF Stepped
<1>5. CASE r = app /\ FreshTabOpens /\ UNCHANGED got
  <2>1. UNCHANGED failures /\ run[r].at # "save"
    BY <1>5 DEF FreshTabOpens, Is
  <2> QED
    BY <1>1, <1>2, <1>5, <2>1, LostByNone DEF Stepped
<1>6. CASE SessionEnds(r) \/ (r = app /\ (SurvivesGrace \/ (FreshTabOpens /\ Got(app))))
  <2>1. Got(r) /\ Goes(r, "save") /\ Is(r, "launched") /\ UNCHANGED failures
    BY <1>6 DEF SessionEnds, SurvivesGrace, FreshTabOpens
  <2>2. run[r].day \in Day /\ run[r].cur \in Session
    BY <2>1, Typed DEF Is, Remembers, Dated, Attempts
  <2>3. run'[r].at = "save" /\ run'[r].day = run[r].day /\ run'[r].cur = run[r].cur /\ run[r].at # "save"
    BY <2>1, Typed DEF Goes, Is, Run
  <2> QED
    BY <1>1, <1>2, <2>1, <2>2, <2>3, LostByNone DEF Stepped
<1> QED
  BY <1>3, <1>4, <1>6, <1>5 DEF Steady, FreshTabOpens

LEMMA SaveLoss ==
  ASSUME SerialInv, NEW r \in Runner, Save(r)
  PROVE  Lost' \subseteq Lost /\ UNCHANGED failures
<1>1. UNCHANGED <<got, failures>> /\ Others(r)
  BY SaveStep DEF Save, SerialInv
<1>2. /\ run[r].day \in Day /\ resumed \in [Day -> SUBSET Session]
      /\ resumed' = [resumed EXCEPT ![run[r].day] = @ \cup {run[r].cur}]
  BY SaveMarks
<1> SUFFICES ASSUME NEW m \in Lost' PROVE m \in Lost
  BY <1>1
<1>3. m \in Day \X Session /\ m[2] \in got[m[1]] /\ m[2] \notin resumed'[m[1]]
  BY <1>1 DEF Lost, Unrecorded
<1>4. m[1] \in Day /\ m[2] \notin resumed[m[1]] /\ m # InHand(r)
  BY <1>2, <1>3 DEF InHand
<1>5. ASSUME NEW q \in Runner, run[q].at = "save"
      PROVE  m # <<run[q].day, run[q].cur>>
  BY <1>1, <1>4, <1>5 DEF Lost, Others, InHand
<1> QED
  BY <1>3, <1>4, <1>5 DEF Lost, Unrecorded

LEMMA NextLoss ==
  ASSUME SerialInv, [Next]_vars
  PROVE  \/ Lost' \subseteq Lost /\ UNCHANGED failures
         \/ (\E x : Lost' \subseteq Lost \cup {x}) /\ failures' = failures + 1
<1>1. CASE UNCHANGED vars
  BY <1>1 DEF vars, Lost, Unrecorded
<1>2. ASSUME NEW r \in Runner, Look(r) \/ Choose(r) \/ ReadRecord(r) \/ NextSession(r)
      PROVE  Lost' \subseteq Lost /\ UNCHANGED failures
  <2>1. UNCHANGED <<resumed, got, failures>> /\ run[r].at # "save"
    BY <1>2 DEF Look, Choose, ReadRecord, NextSession, Is
  <2>2. Others(r)
    BY <1>2, LookStep, ChooseStep, ReadRecordStep, NextSessionStep DEF SerialInv
  <2> QED
    BY <2>1, <2>2, LostByNone DEF SerialInv
<1>3. CASE Click
  <2>1. UNCHANGED <<resumed, got, failures>> /\ run[app].at # "save" /\ app \in Runner
    BY <1>3 DEF Click, Is, Runner
  <2>2. Others(app)
    BY <1>3, ClickStep DEF SerialInv
  <2> QED
    BY <2>1, <2>2, LostByNone DEF SerialInv
<1>4. CASE World
  BY <1>4 DEF World, Refresh, CloseWindow, EndDay, NextDay, Lost, Unrecorded
<1>5. ASSUME NEW r \in Runner, Steady(r)
      PROVE  \/ Lost' \subseteq Lost /\ UNCHANGED failures
             \/ (\E x : Lost' \subseteq Lost \cup {x}) /\ failures' = failures + 1
  BY <1>5, SteadyLoss DEF SerialInv
<1>6. CASE Next
  BY <1>2, <1>3, <1>4, <1>5, <1>6, SaveLoss, Kinds
<1> QED
  BY <1>1, <1>6

LEMMA AddAtMostOne ==
  ASSUME NEW S, NEW x, IsFiniteSet(S)
  PROVE  /\ IsFiniteSet(S \cup {x}) /\ Cardinality(S \cup {x}) \in Nat
         /\ Cardinality(S \cup {x}) <= Cardinality(S) + 1
<1>1. Cardinality(S) \in Nat
  BY FS_CardinalityType
<1>2. /\ IsFiniteSet(S \cup {x})
      /\ Cardinality(S \cup {x}) = IF x \in S THEN Cardinality(S) ELSE Cardinality(S) + 1
  BY FS_AddElement
<1> QED
  BY <1>1, <1>2

LEMMA LossStep == ~Overlap /\ LossInv /\ [Next]_vars => LossInv'
<1> SUFFICES ASSUME ~Overlap, LossInv, [Next]_vars PROVE LossInv'
  OBVIOUS
<1>1. SerialInv' /\ IsFiniteSet(Lost) /\ Cardinality(Lost) <= failures /\ failures \in Nat
  BY SerialStep, BoundAssumption DEF LossInv, SerialInv, Discipline, TypeOK
<1>2. Cardinality(Lost) \in Nat
  BY <1>1, FS_CardinalityType
<1>3. CASE Lost' \subseteq Lost /\ UNCHANGED failures
  <2>1. IsFiniteSet(Lost') /\ Cardinality(Lost') <= Cardinality(Lost)
    BY <1>1, <1>3, FS_Subset
  <2>2. Cardinality(Lost') \in Nat
    BY <2>1, FS_CardinalityType
  <2> QED
    BY <1>1, <1>2, <1>3, <2>1, <2>2 DEF LossInv
<1>4. ASSUME NEW x, Lost' \subseteq Lost \cup {x}, failures' = failures + 1
      PROVE  LossInv'
  <2>1. IsFiniteSet(Lost \cup {x}) /\ Cardinality(Lost \cup {x}) <= Cardinality(Lost) + 1
        /\ Cardinality(Lost \cup {x}) \in Nat
    BY <1>1, AddAtMostOne
  <2>2. IsFiniteSet(Lost') /\ Cardinality(Lost') <= Cardinality(Lost \cup {x})
    BY <1>4, <2>1, FS_Subset
  <2>3. Cardinality(Lost') \in Nat
    BY <2>2, FS_CardinalityType
  <2> QED
    BY <1>1, <1>2, <1>4, <2>1, <2>2, <2>3 DEF LossInv
<1> QED
  BY <1>3, <1>4, NextLoss DEF LossInv

LEMMA LossBound == LossInv => OneLostPerFailure
<1> SUFFICES ASSUME LossInv PROVE OneLostPerFailure
  OBVIOUS
<1> DEFINE S == {r \in Runner : Is(r, "save")}
<1>1. Cardinality(Lost) \in Nat /\ failures \in Nat /\ Cardinality(Lost) <= failures /\ IsFiniteSet(Lost)
  BY FS_CardinalityType, BoundAssumption DEF LossInv, SerialInv, Discipline, TypeOK
<1>2. CASE S = {}
  <2>1. Unrecorded = Lost
    BY <1>2 DEF Lost, Is
  <2>2. Cardinality(S) = 0
    BY <1>2, FS_EmptySet
  <2> QED
    BY <1>1, <2>1, <2>2 DEF OneLostPerFailure
<1>3. ASSUME NEW r \in S
      PROVE  OneLostPerFailure
  <2>1. \A q \in S : Active(q)
    BY DEF Active, Forgotten, Is
  <2>2. S = {r}
    BY <1>3, <2>1 DEF LossInv, SerialInv, Alone
  <2>3. Cardinality(S) = 1
    BY <2>2, FS_Singleton
  <2>4. Unrecorded \subseteq Lost \cup {InHand(r)}
    BY <2>2 DEF Lost, InHand, Is
  <2>5. IsFiniteSet(Lost \cup {InHand(r)}) /\ Cardinality(Lost \cup {InHand(r)}) <= Cardinality(Lost) + 1
        /\ Cardinality(Lost \cup {InHand(r)}) \in Nat
    BY <1>1, AddAtMostOne
  <2>6. IsFiniteSet(Unrecorded) /\ Cardinality(Unrecorded) <= Cardinality(Lost \cup {InHand(r)})
    BY <2>4, <2>5, FS_Subset
  <2>7. Cardinality(Unrecorded) \in Nat
    BY <2>6, FS_CardinalityType
  <2> QED
    BY <1>1, <2>3, <2>5, <2>6, <2>7 DEF OneLostPerFailure
<1> QED
  BY <1>2, <1>3

\* However many failures there are, each loses the record of one session, where runs
\* come one after another (attemptResume writes it right after the session).
THEOREM FailuresLoseOne == ~Overlap /\ Spec => []OneLostPerFailure
<1>1. Init => LossInv
  <2> SUFFICES ASSUME Init PROVE LossInv
    OBVIOUS
  <2>1. Lost = {} /\ failures = 0
    BY DEF Init, Lost, Unrecorded
  <2> QED
    BY <2>1, InitSerial, FS_EmptySet DEF LossInv
<1>2. CASE Overlap
  BY <1>2
<1>3. CASE ~Overlap
  BY <1>1, <1>3, LossStep, LossBound, PTL DEF Spec
<1> QED
  BY <1>2, <1>3, OverlapAssumption
=============================================================================
