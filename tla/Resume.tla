------------------------------- MODULE Resume -------------------------------
(***************************************************************************)
(* The morning: `seeya start-day` and the application's "Resume selected"   *)
(* both run resumeSessions (application/start-day.ts) over the briefing     *)
(* that still has something pending (find-pending-briefing.ts), the command *)
(* line with a session in its own terminal (adapters/resumption), one after *)
(* another, the application with one in a tab each (app/src/resume).  Each  *)
(* session that starts is recorded in the day's resumed.json.               *)
(***************************************************************************)
EXTENDS Naturals, FiniteSets

CONSTANTS
  Session,
  Cli,         \* runs of the command line
  app,         \* the run of the application: its window allows one at a time
  NoSession,
  MaxDay,      \* bound: days
  MaxScan,     \* config.maxBriefingScanDays: days to look back
  MaxFailures, \* bound: processes that die, fresh tabs that die at once, and writes that fail
  Overlap      \* environment: may runs, and closings of the day, overlap?

ASSUME RunnerAssumption == app \notin Cli
ASSUME SessionAssumption == NoSession \notin Session
ASSUME BoundAssumption == MaxDay \in Nat \ {0} /\ MaxScan \in Nat /\ MaxFailures \in Nat
ASSUME OverlapAssumption == Overlap \in BOOLEAN

Runner == Cli \cup {app}
Day    == 1 .. MaxDay

VARIABLES
  plan,     \* by day and session: the handoff that a closing wrote
  today,
  resumed,  \* by day: resumed.json
  run,      \* per runner
  shown,    \* the day on the application's panel (0: none)
  resuming, \* the panel's button waits for an answer
  window,   \* is there a window?  (macOS keeps the application without one)
  failures,
  got,      \* by day, the sessions somebody got into (nothing depends on it)
  stillborn \* by day, those whose fresh tab opened and died at once (nor on this)

screen == <<shown, resuming, window>>
vars == <<plan, today, resumed, run, screen, failures, got, stillborn>>

\* A handoff has a plan to carry on with, or no model said it has none, or the
\* model found nothing left to do.
Plan == {"none", "clean", "pending"}

Run ==
  [at   : {"idle", "pick", "read", "next", "attempt", "launched", "ask", "save", "report"},
   day  : 0 .. MaxDay,
   named : BOOLEAN,                   \* --session: it names one session
   left : SUBSET Session,             \* chosen, not attempted yet
   cur  : Session \cup {NoSession},
   how  : {"resume", "withoutPlan", "fresh"},
   why  : {"promptTooLarge", "resumeFailed"},
   soFar : SUBSET Session]            \* the record as read, with what was added

Idle == [at |-> "idle", day |-> 0, named |-> FALSE, left |-> {}, cur |-> NoSession,
         how |-> "resume", why |-> "resumeFailed", soFar |-> {}]

TypeOK ==
  /\ plan \in [Day -> [Session -> Plan]]
  /\ today \in Day
  /\ resumed \in [Day -> SUBSET Session]
  /\ run \in [Runner -> Run]
  /\ shown \in 0 .. MaxDay
  /\ resuming \in BOOLEAN
  /\ window \in BOOLEAN
  /\ failures \in Nat
  /\ {got, stillborn} \subseteq [Day -> SUBSET Session]

Init ==
  /\ plan = [d \in Day |-> [s \in Session |-> "none"]]
  /\ today = 1
  /\ resumed = [d \in Day |-> {}]
  /\ run = [r \in Runner |-> Idle]
  /\ shown = 0
  /\ resuming = FALSE
  /\ window = TRUE
  /\ failures = 0
  /\ got = [d \in Day |-> {}]
  /\ stillborn = got

Is(r, at) == run[r].at = at

\* Its question went to a window that is gone: it waits for ever.
Forgotten(r) == r = app /\ ~window /\ Is(r, "ask")

\* Nobody else is at it, unless they may overlap.
MayStart == Overlap \/ \A r \in Runner : Is(r, "idle") \/ Forgotten(r)

-----------------------------------------------------------------------------
(* What is pending *)

Handoffs(d) == {s \in Session : plan[d][s] # "none"}

handoffStillPending(d, s) == s \notin resumed[d] /\ plan[d][s] = "pending"

briefingStillPending(d) == \E s \in Session : handoffStillPending(d, s)

\* Mutant: every handoff of the day is a candidate.
unresumedHandoffs_All(d) == Handoffs(d)

unresumedHandoffs(d) == Handoffs(d) \ resumed[d]

Scanned == {d \in Day : d <= today /\ today - d <= MaxScan /\ briefingStillPending(d)}

\* The last day with something pending, as far back as one looks, if there is one.
\* The look back reads one day after another and nothing else: it is one step.
findPendingBriefing == {d \in Scanned : \A e \in Scanned : e <= d}

\* What the panel then shows.
Show == shown' \in (IF findPendingBriefing = {} THEN {0} ELSE findPendingBriefing)

-----------------------------------------------------------------------------
(* Choosing: the command line, and the panel *)

Look(r) ==
  /\ r \in Cli /\ Is(r, "idle") /\ MayStart
  /\ \E day \in findPendingBriefing, named \in BOOLEAN :
       run' = [run EXCEPT ![r] = [Idle EXCEPT !.at = "pick", !.day = day, !.named = named,
                                              !.left = unresumedHandoffs(day)]]
  /\ UNCHANGED <<plan, today, resumed, screen, failures, got, stillborn>>

\* The picker takes some of what is left, --all all of it, --session any one handoff.
Choices(r) ==
  IF run[r].named THEN {{s} : s \in Handoffs(run[r].day)} ELSE SUBSET run[r].left

Choose(r) ==
  /\ Is(r, "pick")
  /\ \E chosen \in Choices(r) :
       run' = [run EXCEPT ![r] = IF chosen = {} THEN Idle
                                 ELSE [@ EXCEPT !.at = "read", !.left = chosen]]
  /\ UNCHANGED <<plan, today, resumed, screen, failures, got, stillborn>>

\* getTodayPanel and the pushes of todayUpdate.
Refresh ==
  /\ window /\ Is(app, "idle")
  /\ Show
  /\ UNCHANGED <<plan, today, resumed, run, resuming, window, failures, got, stillborn>>

\* "Resume selected".  What is offered depends on what runs, not on the record.
Click ==
  /\ window /\ ~resuming /\ shown # 0 /\ Is(app, "idle") /\ MayStart
  /\ \E chosen \in SUBSET Handoffs(shown) \ {{}} :
       run' = [run EXCEPT ![app] = [Idle EXCEPT !.at = "read", !.day = shown, !.left = chosen]]
  /\ resuming' = TRUE
  /\ UNCHANGED <<plan, today, resumed, shown, window, failures, got, stillborn>>

-----------------------------------------------------------------------------
(* resumeSessions *)

Goes(r, next) == run' = [run EXCEPT ![r].at = next]

\* On to the next session.
Turn(r) ==
  [run[r] EXCEPT !.at = "next", !.cur = NoSession, !.how = Idle.how, !.why = Idle.why]

\* What the caller does when the loop is over: the command line reports, and the
\* application refreshes its panel before it answers.
Over(r) ==
  run' = [run EXCEPT ![r] = IF r = app THEN [Idle EXCEPT !.at = "report"] ELSE Idle]

\* An exception that nobody catches: the panel never hears of it.
Escapes(r) == run' = [run EXCEPT ![r] = Idle]

ReadRecord(r) ==
  /\ Is(r, "read")
  /\ run' = [run EXCEPT ![r].at = "next", ![r].soFar = resumed[run[r].day]]
  /\ UNCHANGED <<plan, today, resumed, screen, failures, got, stillborn>>

\* The progress message does not reach a window that is gone.
NextSession(r) ==
  /\ Is(r, "next")
  /\ \/ run[r].left = {} /\ Over(r)
     \/ run[r].left # {} /\ r = app /\ ~window /\ Escapes(r)
     \/ /\ run[r].left # {} /\ (r = app => window)
        /\ \E s \in run[r].left :
             run' = [run EXCEPT ![r].at = "attempt", ![r].cur = s, ![r].left = @ \ {s}]
  /\ UNCHANGED <<plan, today, resumed, screen, failures, got, stillborn>>

\* The question, too, needs its window.
Asks(r, why) ==
  IF r = app /\ ~window THEN Escapes(r)
                         ELSE run' = [run EXCEPT ![r].at = "ask", ![r].why = why]

\* Mutant: a tab that cannot be opened is an exception, and not the end of the loop.
attemptResume_Throws(r) ==
  /\ Is(r, "attempt")
  /\ \/ Asks(r, "promptTooLarge")
     \/ Goes(r, "launched")
     \/ r = app /\ Escapes(r)
  /\ UNCHANGED <<plan, today, resumed, screen, failures, got, stillborn>>

\* A plan too long for an argument is not tried.  A tab has to find the harness first.
attemptResume(r) ==
  /\ Is(r, "attempt")
  /\ \/ Asks(r, "promptTooLarge")
     \/ Goes(r, "launched")
     \/ r = app /\ Over(r)
  /\ UNCHANGED <<plan, today, resumed, screen, failures, got, stillborn>>

\* Mutant: a session that failed without the plan is asked about once more.
FailsFast_AsksAgain(r) ==
  /\ Is(r, "launched")
  /\ \/ run[r].how = "resume" /\ Asks(r, "resumeFailed")
     \/ run[r].how = "withoutPlan" /\ Asks(r, "resumeWithoutPlanFailed")
     \/ run[r].how = "fresh" /\ r # app /\ Over(r)
  /\ UNCHANGED <<plan, today, resumed, screen, failures, got, stillborn>>

\* Mutant: its exit code is not looked at.
FailsFast_Counts(r) ==
  /\ Is(r, "launched")
  /\ \/ run[r].how = "resume" /\ Asks(r, "resumeFailed")
     \/ run[r].how = "withoutPlan" /\ Goes(r, "save")
     \/ run[r].how = "fresh" /\ r # app /\ Over(r)
  /\ UNCHANGED <<plan, today, resumed, screen, failures, got, stillborn>>

\* What a failure to start within the grace period leads to.
FailsFast(r) ==
  /\ Is(r, "launched")
  /\ \/ run[r].how = "resume" /\ Asks(r, "resumeFailed")
     \/ run[r].how = "withoutPlan" /\ run' = [run EXCEPT ![r] = Turn(r)]
     \/ run[r].how = "fresh" /\ r # app /\ Over(r)
  /\ UNCHANGED <<plan, today, resumed, screen, failures, got, stillborn>>

\* The budget of the environment.
MayFail == failures + Cardinality({m \in Day \X Session : m[2] \in stillborn[m[1]]}) < MaxFailures

Got(r) == got' = [got EXCEPT ![run[r].day] = @ \cup {run[r].cur}]

\* A tab that outlives the grace period, or ends well in it, counts.
SurvivesGrace ==
  /\ Is(app, "launched") /\ run[app].how # "fresh"
  /\ Goes(app, "save")
  /\ Got(app)
  /\ UNCHANGED <<plan, today, resumed, screen, failures, stillborn>>

\* A fresh session in a tab is not waited for at all: it counts when its tab is
\* open, whether somebody gets into it or it dies at once.
FreshTabOpens ==
  /\ Is(app, "launched") /\ run[app].how = "fresh"
  /\ Goes(app, "save")
  /\ \/ Got(app) /\ UNCHANGED stillborn
     \/ /\ MayFail
        /\ stillborn' = [stillborn EXCEPT ![run[app].day] = @ \cup {run[app].cur}]
        /\ UNCHANGED got
  /\ UNCHANGED <<plan, today, resumed, screen, failures>>

\* In a terminal the session is over before it counts.
SessionEnds(r) ==
  /\ r \in Cli /\ Is(r, "launched")
  /\ Goes(r, "save")
  /\ Got(r)
  /\ UNCHANGED <<plan, today, resumed, screen, failures, stillborn>>

Decisions(r) ==
  {"open", "skip"} \cup (IF run[r].why = "promptTooLarge" THEN {"withoutPlan"} ELSE {})

\* confirmFallback.  A window that is gone gives no answer.  An answer that makes
\* no sense passes for a skip.
Answer(r) ==
  /\ Is(r, "ask") /\ (r = app => window)
  /\ \E decision \in Decisions(r) :
       \/ decision = "open" /\ run' = [run EXCEPT ![r].at = "launched", ![r].how = "fresh"]
       \/ decision = "withoutPlan" /\ run' = [run EXCEPT ![r].at = "launched", ![r].how = "withoutPlan"]
       \/ decision = "skip" /\ run' = [run EXCEPT ![r] = Turn(r)]
       \/ (decision = "open" \/ (decision = "withoutPlan" /\ r = app))
          /\ Over(r) \* no file for the plan, or no tab
  /\ UNCHANGED <<plan, today, resumed, screen, failures, got, stillborn>>

Recorded(r) == run[r].soFar \cup {run[r].cur}

\* Mutant: the record is written once, at the end.
Save_AtTheEnd(r) ==
  /\ Is(r, "save")
  /\ run' = [run EXCEPT ![r] = [Turn(r) EXCEPT !.soFar = Recorded(r)]]
  /\ resumed' = IF run[r].left = {} THEN [resumed EXCEPT ![run[r].day] = Recorded(r)] ELSE resumed
  /\ UNCHANGED <<plan, today, screen, failures, got, stillborn>>

Save(r) ==
  /\ Is(r, "save")
  /\ resumed' = [resumed EXCEPT ![run[r].day] = Recorded(r)]
  /\ run' = [run EXCEPT ![r] = [Turn(r) EXCEPT !.soFar = Recorded(r)]]
  /\ UNCHANGED <<plan, today, screen, failures, got, stillborn>>

\* todayUpdate, and the answer to the click.
Report ==
  /\ Is(app, "report")
  /\ run' = [run EXCEPT ![app] = Idle]
  /\ IF window THEN Show /\ resuming' = FALSE
               ELSE UNCHANGED <<shown, resuming>>
  /\ UNCHANGED <<plan, today, resumed, window, failures, got, stillborn>>

-----------------------------------------------------------------------------
(* The rest of the world *)

Fails == MayFail /\ failures' = failures + 1

\* The record cannot be read or written: nobody catches it.
StorageFails(r) ==
  /\ Is(r, "read") \/ Is(r, "save")
  /\ Fails /\ Escapes(r)
  /\ UNCHANGED <<plan, today, resumed, screen, got, stillborn>>

\* A process dies, perhaps with somebody in the session it launched; the
\* application is started again.
Die(r) ==
  /\ ~Is(r, "idle")
  /\ Fails /\ Escapes(r)
  /\ IF r = app THEN shown' = 0 /\ resuming' = FALSE /\ window' = TRUE ELSE UNCHANGED screen
  /\ UNCHANGED got \/ (Is(r, "launched") /\ Got(r))
  /\ UNCHANGED <<plan, today, resumed, stillborn>>

CloseWindow ==
  /\ window /\ window' = FALSE
  /\ UNCHANGED <<plan, today, resumed, run, shown, resuming, failures, got, stillborn>>

\* A closing of the day captures sessions, some of them again.
EndDay ==
  /\ MayStart
  /\ \E captured \in [Session -> Plan] :
       /\ plan' = [plan EXCEPT ![today] = captured]
       /\ \A s \in Session : captured[s] = "none" => plan[today][s] = "none"
  /\ UNCHANGED <<today, resumed, run, screen, failures, got, stillborn>>

NextDay ==
  /\ today < MaxDay /\ today' = today + 1
  /\ UNCHANGED <<plan, resumed, run, screen, failures, got, stillborn>>

\* What goes on by itself.
Step(r) ==
  \/ ReadRecord(r) \/ NextSession(r) \/ attemptResume(r) \/ Save(r)
  \/ r = app /\ (SurvivesGrace \/ FreshTabOpens \/ Report)

Next ==
  \/ \E r \in Runner :
       \/ Step(r) \/ Look(r) \/ Choose(r) \/ FailsFast(r) \/ SessionEnds(r) \/ Answer(r)
       \/ StorageFails(r) \/ Die(r)
  \/ Refresh \/ Click \/ CloseWindow \/ EndDay \/ NextDay

Spec == Init /\ [][Next]_vars

\* A session may last as long as it likes; the application does not wait for it.
\* The person answers the questions of a window.
FairSpec == Spec /\ WF_vars(Step(app)) /\ WF_vars(Answer(app))

-----------------------------------------------------------------------------
(* Properties *)

Launched == [d \in Day |-> got[d] \cup stillborn[d]]

\* A session is marked only after somebody got into it, or a fresh tab was opened
\* for it at the person's word, and stays so.
Marks == INSTANCE MorningMarks WITH launched <- Launched, marked <- resumed
ImplementsMorningMarks == Marks!Spec

\* "A fallback the person chose still means they got a session to work in"
\* (start-day.ts:199-200): whatever is on record, somebody got into.
MarkedIsGot == \A d \in Day : resumed[d] \subseteq got[d]

\* What --all and the picker launch is not on record, however often start-day is run.
NotReopened ==
  \A r \in Cli : Is(r, "attempt") /\ ~run[r].named =>
                   run[r].cur \notin resumed[run[r].day]

Unrecorded == {m \in Day \X Session : m[2] \in got[m[1]] \ resumed[m[1]]}

\* A death, or a write that fails, loses the record of one session, not of the run.
OneLostPerFailure ==
  Cardinality(Unrecorded) <= failures + Cardinality({r \in Runner : Is(r, "save")})

\* "Resume selected" comes back without waiting for any session to end.
ButtonComesBack == resuming ~> (~resuming \/ ~window \/ failures > 0)
=============================================================================
