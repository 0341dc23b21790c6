---------------------------- MODULE EndDayProofs ----------------------------
(***************************************************************************)
(* Proofs about EndDay, for any sessions, forks of earlier days, pool size  *)
(* and changes.  First what holds of any closings, then what holds when     *)
(* they do not overlap (OneRunner).                                        *)
(***************************************************************************)
EXTENDS EndDay, FiniteSetTheorems, TLAPS

-----------------------------------------------------------------------------
(* How a step changes what a run holds in memory. *)

RunType == run \in [Runner -> Run]

\* The fields of a run that a capture leaves alone.
Frame(q) == /\ run'[q].pc = run[q].pc
            /\ run'[q].dryRun = run[q].dryRun
            /\ run'[q].skipTermination = run[q].skipTermination
            /\ run'[q].listing = run[q].listing
            /\ run'[q].entries = run[q].entries
            /\ run'[q].handled = run[q].handled

LEMMA NoWorkType == NoWork \in Work
BY NoneAssumption DEF NoWork, Work, Source, NoneOr

LEMMA IdleType == Idle \in Run
BY NoWorkType DEF Idle, Run, NoHandoffs, NoneOr

LEMMA WorkType ==
  ASSUME RunType, NEW r \in Runner, NEW s \in Session
  PROVE  WorkOf(r, s) \in Work
BY DEF RunType, Run, WorkOf

\* A step of a capture: its work is replaced, and nothing else any run holds.
LEMMA HoldsFacts ==
  ASSUME RunType, NEW r \in Runner, NEW s \in Session, NEW w \in Work, Holds(r, s, w)
  PROVE  /\ RunType'
         /\ \A q \in Runner : Frame(q)
         /\ WorkOf(r, s)' = w
         /\ \A q \in Runner, x \in Session : q # r \/ x # s => WorkOf(q, x)' = WorkOf(q, x)
         /\ \A q \in Runner : q # r => run'[q] = run[q]
<1> DEFINE new == [run[r] EXCEPT !.work = [run[r].work EXCEPT ![s] = w]]
<1>1. run[r] \in Run
  BY DEF RunType
<1>2. new \in Run
  BY <1>1 DEF Run
<1>3. /\ new.work = [run[r].work EXCEPT ![s] = w]
      /\ new.pc = run[r].pc /\ new.dryRun = run[r].dryRun
      /\ new.skipTermination = run[r].skipTermination /\ new.listing = run[r].listing
      /\ new.entries = run[r].entries /\ new.handled = run[r].handled
  BY <1>1 DEF Run
<1>4. run[r].work \in [Session -> Work]
  BY <1>1 DEF Run
<1>5. run' = [run EXCEPT ![r] = new]
  BY DEF Holds
<1> HIDE DEF new
<1>6. run'[r] = new /\ \A q \in Runner : q # r => run'[q] = run[q]
  BY <1>5 DEF RunType
<1>7. RunType'
  BY <1>2, <1>5 DEF RunType
<1>8. \A q \in Runner : Frame(q)
  BY <1>3, <1>6 DEF Frame
<1>9. WorkOf(r, s)' = w
  BY <1>3, <1>4, <1>6 DEF WorkOf
<1>10. \A q \in Runner, x \in Session : q # r \/ x # s => WorkOf(q, x)' = WorkOf(q, x)
  BY <1>3, <1>4, <1>6 DEF WorkOf
<1> QED
  BY <1>6, <1>7, <1>8, <1>9, <1>10

\* A step of the run itself.
LEMMA BecomesFacts ==
  ASSUME RunType, NEW r \in Runner, NEW v \in Run, Becomes(r, v)
  PROVE  RunType' /\ run'[r] = v /\ \A q \in Runner : q # r => run'[q] = run[q]
BY DEF RunType, Becomes

-----------------------------------------------------------------------------
(* The discipline of a closing: which captures get where. *)

WorkRule(r, s) ==
  LET w == WorkOf(r, s) IN
  /\ w.at # "out" => run[r].pc = "pool"
  /\ w.at \in {"write", "spawn"} => w.fork \in Nat \ {0}
  /\ w.at \in {"register", "write", "spawn"} => s \in Deep /\ ~run[r].dryRun
  /\ w.at = "generate" /\ s \in Deep => ~run[r].dryRun
  /\ w.at \in {"verify", "terminate"} => ~run[r].dryRun
  /\ w.at = "terminate" => s \in CanTerminate /\ ~run[r].skipTermination

RunRule(r) == run[r].pc \in {"brief", "cleanup", "delete", "rewrite"} => ~run[r].dryRun

Discipline ==
  /\ TypeOK
  /\ \A r \in Runner : RunRule(r)
  /\ \A r \in Runner, s \in Session : WorkRule(r, s)

LEMMA InitDiscipline == Init => Discipline
<1> SUFFICES ASSUME Init PROVE Discipline
  OBVIOUS
<1>1. TypeOK
  BY IdleType, OldForksAssumption DEF Init, TypeOK, NoHandoffs, NoneOr, IdsOf, Entry
<1>2. \A r \in Runner : run[r] = Idle
  BY DEF Init
<1>3. Idle.pc = "idle" /\ \A s \in Session : Idle.work[s] = NoWork
  BY DEF Idle
<1>4. NoWork.at = "out"
  BY DEF NoWork
<1> QED
  BY <1>1, <1>2, <1>3, <1>4 DEF Init, Discipline, RunRule, WorkRule, WorkOf

\* Only the capture that moves has its rule to keep.
LEMMA CaptureKeeps ==
  ASSUME Discipline, TypeOK', NEW r \in Runner, NEW s \in Session, NEW w \in Work, Holds(r, s, w),
         WorkRule(r, s)'
  PROVE  Discipline'
<1>1. /\ RunType'
      /\ \A q \in Runner : Frame(q)
      /\ \A q \in Runner, x \in Session : q # r \/ x # s => WorkOf(q, x)' = WorkOf(q, x)
  BY HoldsFacts DEF Discipline, TypeOK, RunType
<1>2. \A q \in Runner : RunRule(q)'
  BY <1>1 DEF Discipline, RunRule, Frame
<1>3. ASSUME NEW q \in Runner, NEW x \in Session, q # r \/ x # s PROVE WorkRule(q, x)'
  BY <1>1, <1>3 DEF Discipline, WorkRule, Frame
<1> QED
  BY <1>2, <1>3 DEF Discipline

LEMMA CaptureDiscipline ==
  ASSUME Discipline, NEW r \in Runner, NEW s \in Session, Captures(r, s)
  PROVE  Discipline'
<1> USE DEF Discipline
<1>t. RunType
  BY DEF TypeOK, RunType
<1>w. WorkOf(r, s) \in Work
  BY <1>t, WorkType
<1>n. NoWork \in Work /\ NoWork.at = "out"
  BY NoWorkType DEF NoWork
<1>o. ASSUME Out(r, s), TypeOK'
      PROVE  Discipline'
  <2>1. Holds(r, s, NoWork)
    BY <1>o DEF Out
  <2>2. WorkOf(r, s)' = NoWork
    BY <2>1, <1>t, <1>n, HoldsFacts
  <2>3. WorkRule(r, s)'
    BY <2>2, <1>n DEF WorkRule
  <2> QED
    BY <2>1, <2>3, <1>n, <1>o, CaptureKeeps
<1>e. ASSUME NEW w \in Work, Holds(r, s, w), TypeOK' \/ UNCHANGED <<disk, world, claude, counts>>,
             w.at = "out" \/ run[r].pc = "pool",
             w.at \in {"write", "spawn"} => w.fork \in Nat \ {0},
             w.at \in {"register", "write", "spawn"} => s \in Deep /\ ~run[r].dryRun,
             w.at = "generate" /\ s \in Deep => ~run[r].dryRun,
             w.at \in {"verify", "terminate"} => ~run[r].dryRun,
             w.at = "terminate" => s \in CanTerminate /\ ~run[r].skipTermination
      PROVE  Discipline'
  <2>1. RunType' /\ WorkOf(r, s)' = w /\ Frame(r)
    BY <1>e, <1>t, HoldsFacts
  <2>2. TypeOK'
    BY <1>e, <2>1 DEF TypeOK, RunType, disk, world, claude, counts
  <2>3. WorkRule(r, s)'
    BY <1>e, <2>1 DEF WorkRule, Frame
  <2> QED
    BY <1>e, <2>2, <2>3, CaptureKeeps
<1> DEFINE here == WorkOf(r, s)
<1>r. WorkRule(r, s) /\ (here.at # "out" => run[r].pc = "pool")
  BY DEF WorkRule
<1>f. /\ here.at \in {"out", "queued"} \cup Capturing /\ here.evidence \in Nat
      /\ here.source \in Source /\ here.fork \in NoneOr(Int) /\ here.registry \in SUBSET Entry
  BY <1>w DEF Work
<1>1. CASE Take(r, s)
  <2>1. CASE To(r, s, "gather")
    <3> DEFINE w == [here EXCEPT !.at = "gather"]
    <3>1. w \in Work /\ w.at = "gather"
      BY <1>w DEF Work, Capturing
    <3>2. Holds(r, s, w) /\ here.at = "queued"
      BY <1>1, <2>1 DEF Take, To, At
    <3> HIDE DEF w, here
    <3> QED
      BY <1>1, <1>e, <1>r, <3>1, <3>2 DEF Take, world
  <2>2. CASE Out(r, s)
    <3>1. TypeOK'
      BY <1>1, <1>t, <1>n, <2>2, HoldsFacts DEF Take, Out, TypeOK, RunType, disk, world, claude, counts
    <3> QED
      BY <1>1, <1>o, <2>2, <3>1 DEF Take, world
  <2> QED
    BY <1>1, <2>1, <2>2 DEF Take
<1>2. CASE Gather(r, s)
  <2> DEFINE w == [here EXCEPT !.at = "compare", !.evidence = evidence[s]]
  <2>1. w \in Work /\ w.at = "compare"
    BY <1>w DEF Work, Capturing, TypeOK
  <2>2. Holds(r, s, w) /\ here.at = "gather"
    BY <1>2 DEF Gather, At
  <2> HIDE DEF w, here
  <2> QED
    BY <1>2, <1>e, <1>r, <2>1, <2>2 DEF Gather, world
<1>3. CASE Compare(r, s)
  <2>1. CASE duplicateToday(r, s)
    <3>1. Out(r, s)
      BY <1>3, <2>1 DEF Compare
    <3>2. TypeOK'
      BY <1>3, <1>t, <1>n, <3>1, HoldsFacts DEF Compare, Out, TypeOK, RunType, disk, world, claude, counts
    <3> QED
      BY <1>3, <1>o, <3>1, <3>2 DEF Compare, world
  <2>2. CASE ~duplicateToday(r, s)
    <3> DEFINE w == [here EXCEPT !.at = resolveGeneration(r, s)]
    <3>1. /\ resolveGeneration(r, s) \in {"generate", "save", "register"}
          /\ resolveGeneration(r, s) = "generate" => s \notin Deep
          /\ resolveGeneration(r, s) = "register" => s \in Deep /\ ~run[r].dryRun
      BY DEF resolveGeneration
    <3>2. w \in Work /\ w.at = resolveGeneration(r, s)
      BY <1>w, <3>1 DEF Work, Capturing
    <3>3. Holds(r, s, w) /\ here.at = "compare"
      BY <1>3, <2>2 DEF Compare, To, At
    <3> HIDE DEF w, here
    <3> QED
      BY <1>3, <1>e, <1>r, <3>1, <3>2, <3>3 DEF Compare, world
  <2> QED
    BY <2>1, <2>2
<1>4. CASE ReadForks(r, s)
  <2> DEFINE w == [here EXCEPT !.at = "write", !.fork = lastFork + 1, !.registry = forks]
  <2>0. lastFork + 1 \in Nat \ {0} /\ forks \in SUBSET Entry
    BY DEF TypeOK
  <2>n. lastFork + 1 \in NoneOr(Int)
    BY <2>0 DEF NoneOr
  <2>1. w \in Work /\ w.at = "write" /\ w.fork = lastFork + 1
    BY <1>w, <2>0, <2>n DEF Work, Capturing
  <2>2. Holds(r, s, w) /\ here.at = "register"
    BY <1>4 DEF ReadForks, At
  <2> HIDE DEF w
  <2>3. TypeOK'
    BY <1>4, <1>t, <2>0, <2>1, <2>2, HoldsFacts
    DEF ReadForks, TypeOK, RunType, disk, world, claude
  <2>4. here.at # "out" /\ s \in Deep /\ ~run[r].dryRun
    BY <1>r, <2>2 DEF WorkRule
  <2> HIDE DEF here
  <2> QED
    BY <1>4, <1>e, <1>r, <2>0, <2>1, <2>2, <2>3, <2>4 DEF ReadForks, world
<1>5. CASE WriteForks(r, s)
  <2>0. here.at = "write" /\ here.fork \in Nat \ {0} /\ s \in Deep /\ ~run[r].dryRun
    BY <1>5, <1>r DEF WriteForks, At, WorkRule
  <2>1. CASE /\ forks' = here.registry \cup {[id |-> here.fork, createdAt |-> Today]}
             /\ Holds(r, s, [here EXCEPT !.at = "spawn", !.registry = {}])
    <3> DEFINE w == [here EXCEPT !.at = "spawn", !.registry = {}]
    <3>1. w \in Work /\ w.at = "spawn" /\ w.fork = here.fork
      BY <1>w DEF Work, Capturing
    <3>2. [id |-> here.fork, createdAt |-> Today] \in Entry
      BY <2>0, DaysAssumption DEF Entry, NoneOr
    <3>3. Holds(r, s, w)
      BY <2>1
    <3> HIDE DEF w
    <3>4. TypeOK'
      BY <1>5, <1>f, <1>t, <2>1, <3>1, <3>2, <3>3, HoldsFacts
      DEF WriteForks, TypeOK, RunType, world, claude, counts
    <3> HIDE DEF here
    <3> QED
      BY <1>5, <1>e, <1>r, <2>0, <3>1, <3>3, <3>4 DEF WriteForks, world
  <2>2. CASE /\ Holds(r, s, [here EXCEPT !.at = "save", !.registry = {}, !.fork = None])
             /\ UNCHANGED forks
    <3> DEFINE w == [here EXCEPT !.at = "save", !.registry = {}, !.fork = None]
    <3>1. w \in Work /\ w.at = "save"
      BY <1>w DEF Work, Capturing, NoneOr
    <3>2. Holds(r, s, w)
      BY <2>2
    <3> HIDE DEF w, here
    <3> QED
      BY <1>5, <1>e, <1>r, <2>0, <2>2, <3>1, <3>2 DEF WriteForks, world, disk
  <2> QED
    BY <1>5, <2>1, <2>2 DEF WriteForks
<1>6. CASE Spawn(r, s)
  <2> DEFINE w == [here EXCEPT !.at = "generate"]
  <2>0. here.at = "spawn" /\ here.fork \in Nat \ {0} /\ s \in Deep /\ ~run[r].dryRun
    BY <1>6, <1>r DEF Spawn, At, WorkRule
  <2>1. w \in Work /\ w.at = "generate"
    BY <1>w DEF Work, Capturing
  <2>2. Holds(r, s, w)
    BY <1>6 DEF Spawn, To
  <2> HIDE DEF w
  <2>4. spawned' \subseteq Int
    <3>1. spawned' = spawned \cup {here.fork}
      BY <1>6 DEF Spawn
    <3>2. spawned \subseteq Int
      BY DEF TypeOK
    <3> HIDE DEF here
    <3>3. here.fork \in Int
      BY <2>0
    <3> QED
      BY <3>1, <3>2, <3>3
  <2>5. RunType'
    BY <1>t, <2>1, <2>2, HoldsFacts
  <2>3. TypeOK'
    BY <1>6, <2>4, <2>5 DEF Spawn, TypeOK, RunType, disk, world, counts
  <2> HIDE DEF here
  <2> QED
    BY <1>6, <1>e, <1>r, <2>0, <2>1, <2>2, <2>3 DEF Spawn, world
<1>7. CASE Generate(r, s)
  <2>0. here.at = "generate"
    BY <1>7 DEF Generate, At
  <2>1. PICK source \in Source : Holds(r, s, [here EXCEPT !.at = "save", !.source = source, !.fork = None])
    BY <1>7 DEF Generate
  <2> DEFINE w == [here EXCEPT !.at = "save", !.source = source, !.fork = None]
  <2>2. w \in Work /\ w.at = "save"
    BY <1>w DEF Work, Capturing, NoneOr
  <2>3. Holds(r, s, w)
    BY <2>1
  <2> HIDE DEF w
  <2>4. TypeOK'
    BY <1>7, <1>t, <2>2, <2>3, HoldsFacts
    DEF Generate, TypeOK, RunType, disk, world, counts
  <2> HIDE DEF here
  <2> QED
    BY <1>7, <1>e, <1>r, <2>0, <2>2, <2>3, <2>4 DEF Generate, world
<1>8. CASE SaveHandoff(r, s)
  <2>0. here.at = "save"
    BY <1>8 DEF SaveHandoff, At
  <2>h. handoffs' \in [Session -> NoneOr(Handoff)]
    BY <1>8, <1>f DEF SaveHandoff, TypeOK, Handoff, NoneOr
  <2>1. CASE Out(r, s)
    <3>1. TypeOK'
      BY <1>8, <1>t, <1>n, <2>1, <2>h, HoldsFacts
      DEF SaveHandoff, Out, TypeOK, RunType, world, claude, counts
    <3> QED
      BY <1>8, <1>o, <2>1, <3>1 DEF SaveHandoff, world
  <2>2. CASE To(r, s, "verify") /\ ~run[r].dryRun
    <3> DEFINE w == [here EXCEPT !.at = "verify"]
    <3>1. w \in Work /\ w.at = "verify"
      BY <1>w DEF Work, Capturing
    <3>2. Holds(r, s, w)
      BY <2>2 DEF To
    <3> HIDE DEF w
    <3>3. TypeOK'
      BY <1>8, <1>t, <2>h, <3>1, <3>2, HoldsFacts
      DEF SaveHandoff, TypeOK, RunType, world, claude, counts
    <3> HIDE DEF here
    <3> QED
      BY <1>8, <1>e, <1>r, <2>0, <2>2, <3>1, <3>2, <3>3 DEF SaveHandoff, world
  <2> QED
    BY <1>8, <2>1, <2>2 DEF SaveHandoff
<1>9. CASE Verify(r, s)
  <2>0. here.at = "verify" /\ ~run[r].dryRun
    BY <1>9, <1>r DEF Verify, At, WorkRule
  <2>1. CASE Out(r, s)
    <3>1. TypeOK'
      BY <1>9, <1>t, <1>n, <2>1, HoldsFacts DEF Verify, Out, TypeOK, RunType, disk, world, claude, counts
    <3> QED
      BY <1>9, <1>o, <2>1, <3>1 DEF Verify, world
  <2>2. CASE To(r, s, "terminate") /\ MayTerminate(r, s)
    <3> DEFINE w == [here EXCEPT !.at = "terminate"]
    <3>1. w \in Work /\ w.at = "terminate"
      BY <1>w DEF Work, Capturing
    <3>2. Holds(r, s, w)
      BY <2>2 DEF To
    <3> HIDE DEF w, here
    <3> QED
      BY <1>9, <1>e, <1>r, <2>0, <2>2, <3>1, <3>2 DEF Verify, world, MayTerminate
  <2> QED
    BY <1>9, <2>1, <2>2 DEF Verify
<1>10. CASE Terminate(r, s)
  <2>1. Out(r, s)
    BY <1>10 DEF Terminate
  <2>2. proc' \in [Session -> {"alive", "closed", "dead", "recycled"}]
    BY <1>10 DEF Terminate, TypeOK
  <2>3. TypeOK'
    BY <1>10, <1>t, <1>n, <2>1, <2>2, HoldsFacts
    DEF Terminate, Out, TypeOK, RunType, disk, claude, counts
  <2> QED
    BY <1>o, <2>1, <2>2, <2>3
<1> QED
  BY <1>1, <1>2, <1>3, <1>4, <1>5, <1>6, <1>7, <1>8, <1>9, <1>10 DEF Captures

Finishing == {"brief", "cleanup", "delete", "rewrite"}

\* A run whose captures are all out, or only queued, keeps their rules whatever it becomes.
LEMMA BecomesKeeps ==
  ASSUME Discipline, TypeOK', NEW r \in Runner, NEW v \in Run, Becomes(r, v),
         v.pc \in Finishing => ~v.dryRun,
         \A x \in Session : \/ v.work[x].at = "out"
                            \/ v.work[x].at = "queued" /\ v.pc = "pool",
         UNCHANGED proc
  PROVE  Discipline'
<1>1. run'[r] = v /\ \A q \in Runner : q # r => run'[q] = run[q]
  BY BecomesFacts DEF Discipline, TypeOK, RunType
<1>2. \A q \in Runner : RunRule(q)'
  BY <1>1 DEF Discipline, RunRule, Finishing
<1>3. ASSUME NEW q \in Runner, NEW x \in Session PROVE WorkRule(q, x)'
  <2>1. CASE q = r
    BY <1>1, <2>1 DEF WorkRule, WorkOf
  <2>2. CASE q # r
    BY <1>1, <2>2 DEF Discipline, WorkRule, WorkOf
  <2> QED
    BY <2>1, <2>2
<1> QED
  BY <1>2, <1>3 DEF Discipline

\* Outside the pool no capture is under way.
LEMMA OutOfPool ==
  ASSUME Discipline, NEW r \in Runner, run[r].pc # "pool", NEW s \in Session
  PROVE  WorkOf(r, s).at = "out"
BY DEF Discipline, WorkRule

LEMMA IdleFacts == Idle.pc = "idle" /\ \A x \in Session : Idle.work[x].at = "out"
BY DEF Idle, NoWork

LEMMA EndedKeeps ==
  ASSUME Discipline, TypeOK', NEW r \in Runner, Ended(r), UNCHANGED proc
  PROVE  Discipline'
BY IdleType, IdleFacts, BecomesKeeps DEF Ended, Finishing

\* A closing starts with its captures queued, or out.
LEMMA DiscoverFacts ==
  ASSUME RunType, NEW r \in Runner, Discover(r)
  PROVE  \E v \in Run : /\ Becomes(r, v) /\ v.pc = "pool"
                        /\ \A x \in Session : v.work[x].at \in {"queued", "out"}
<1>1. PICK scope \in {Session} \cup {{s} : s \in Session}, dry, skip \in BOOLEAN :
        Becomes(r, [Idle EXCEPT !.pc = "pool", !.dryRun = dry, !.skipTermination = skip,
                      !.work = [s \in Session |-> [NoWork EXCEPT
                        !.at = IF s \in scope /\ proc[s] # "closed" THEN "queued" ELSE "out"]]])
  BY DEF Discover
<1> DEFINE work == [s \in Session |-> [NoWork EXCEPT
                     !.at = IF s \in scope /\ proc[s] # "closed" THEN "queued" ELSE "out"]]
           v == [Idle EXCEPT !.pc = "pool", !.dryRun = dry, !.skipTermination = skip, !.work = work]
<1>2. /\ work \in [Session -> Work]
      /\ \A x \in Session : work[x].at \in {"queued", "out"}
  BY NoWorkType DEF NoWork, Work
<1> HIDE DEF work
<1>3. v \in Run /\ v.pc = "pool" /\ v.work = work
  BY <1>2, IdleType DEF Run
<1>4. Becomes(r, v)
  BY <1>1 DEF work
<1> HIDE DEF v
<1> QED
  BY <1>2, <1>3, <1>4

LEMMA RunDiscipline ==
  ASSUME Discipline, NEW r \in Runner, Discover(r) \/ Finishes(r) \/ Crash(r)
  PROVE  Discipline'
<1> USE DEF Discipline
<1>t. RunType /\ run[r] \in Run
  BY DEF TypeOK, RunType
<1>k. ASSUME NEW v \in Run, Becomes(r, v), UNCHANGED proc, TypeOK',
             v.pc \in Finishing => ~v.dryRun, v.work = run[r].work,
             \A x \in Session : WorkOf(r, x).at = "out"
      PROVE  Discipline'
  BY <1>k, BecomesKeeps DEF WorkOf
<1>1. CASE Discover(r)
  <2>1. PICK v \in Run : /\ Becomes(r, v) /\ v.pc = "pool"
                         /\ \A x \in Session : v.work[x].at \in {"queued", "out"}
    BY <1>1, <1>t, DiscoverFacts
  <2>2. TypeOK'
    <3>0. /\ runs' = runs + 1
          /\ UNCHANGED <<disk, world, claude, lastFork, crashes, changes>>
      BY <1>1 DEF Discover
    <3>1. runs' \in Nat
      BY <3>0 DEF TypeOK
    <3>2. RunType'
      BY <1>t, <2>1, BecomesFacts
    <3> QED
      BY <3>0, <3>1, <3>2 DEF TypeOK, RunType, disk, world, claude
  <2>3. UNCHANGED proc
    BY <1>1 DEF Discover, world
  <2> QED
    BY <2>1, <2>2, <2>3, BecomesKeeps DEF Finishing
<1>2. CASE Crash(r)
  <2>1. Ended(r) /\ UNCHANGED proc
    BY <1>2 DEF Crash, world
  <2>2. TypeOK'
    <3>1. crashes' \in Nat
      BY <1>2 DEF Crash, TypeOK
    <3>2. RunType'
      BY <1>t, <2>1, IdleType, BecomesFacts DEF Ended
    <3> QED
      BY <1>2, <3>1, <3>2 DEF Crash, TypeOK, RunType, disk, world, claude
  <2> QED
    BY <2>1, <2>2, EndedKeeps
<1>3. CASE ListHandoffs(r)
  <2>0. \A x \in Session : WorkOf(r, x).at = "out"
    BY <1>3 DEF ListHandoffs, Drained, NoWork
  <2>u. UNCHANGED <<disk, world, claude, counts>>
    BY <1>3 DEF ListHandoffs
  <2>1. CASE Ended(r)
    <3>1. RunType'
      BY <1>t, <2>1, IdleType, BecomesFacts DEF Ended
    <3> QED
      BY <2>1, <2>u, <3>1, EndedKeeps DEF TypeOK, RunType, disk, world, claude, counts
  <2>2. CASE ~run[r].dryRun /\ Becomes(r, [run[r] EXCEPT !.pc = "brief", !.listing = handoffs])
    <3> DEFINE v == [run[r] EXCEPT !.pc = "brief", !.listing = handoffs]
    <3>1. v \in Run /\ v.dryRun = run[r].dryRun /\ v.work = run[r].work
      BY <1>t DEF Run, TypeOK
    <3>2. Becomes(r, v)
      BY <2>2
    <3> HIDE DEF v
    <3>3. RunType'
      BY <1>t, <3>1, <3>2, BecomesFacts
    <3>4. TypeOK' /\ UNCHANGED proc
      BY <2>u, <3>3 DEF TypeOK, RunType, disk, world, claude, counts
    <3> QED
      BY <1>k, <2>0, <2>2, <3>1, <3>2, <3>4
  <2> QED
    BY <1>3, <2>1, <2>2 DEF ListHandoffs
<1>4. CASE SaveBriefing(r)
  <2>0. run[r].pc = "brief" /\ ~run[r].dryRun
    BY <1>4 DEF SaveBriefing, RunRule
  <2>o. \A x \in Session : WorkOf(r, x).at = "out"
    BY <2>0, OutOfPool
  <2>s. summary' \in NoneOr([Session -> NoneOr(Handoff)])
    BY <1>4, <1>t DEF SaveBriefing, Run, TypeOK, NoneOr
  <2>u. UNCHANGED <<handoffs, forks, world, claude, counts>>
    BY <1>4 DEF SaveBriefing
  <2>1. CASE Ended(r)
    <3>1. RunType'
      BY <1>t, <2>1, IdleType, BecomesFacts DEF Ended
    <3> QED
      BY <2>1, <2>s, <2>u, <3>1, EndedKeeps DEF TypeOK, RunType, world, claude, counts
  <2>2. CASE Becomes(r, [run[r] EXCEPT !.pc = "cleanup"])
    <3> DEFINE v == [run[r] EXCEPT !.pc = "cleanup"]
    <3>1. v \in Run /\ v.dryRun = run[r].dryRun /\ v.work = run[r].work
      BY <1>t DEF Run
    <3>2. Becomes(r, v)
      BY <2>2
    <3> HIDE DEF v
    <3>3. RunType'
      BY <1>t, <3>1, <3>2, BecomesFacts
    <3>4. TypeOK' /\ UNCHANGED proc
      BY <2>s, <2>u, <3>3 DEF TypeOK, RunType, world, claude, counts
    <3> QED
      BY <1>k, <2>0, <2>o, <3>1, <3>2, <3>4
  <2> QED
    BY <1>4, <2>1, <2>2 DEF SaveBriefing
<1>5. CASE ReadEntries(r)
  <2>0. run[r].pc = "cleanup" /\ ~run[r].dryRun
    BY <1>5 DEF ReadEntries, RunRule
  <2>o. \A x \in Session : WorkOf(r, x).at = "out"
    BY <2>0, OutOfPool
  <2> DEFINE v == [run[r] EXCEPT !.pc = "delete", !.entries = forks]
  <2>1. v \in Run /\ v.dryRun = run[r].dryRun /\ v.work = run[r].work
    BY <1>t DEF Run, TypeOK
  <2>2. Becomes(r, v)
    BY <1>5 DEF ReadEntries
  <2> HIDE DEF v
  <2>3. RunType'
    BY <1>t, <2>1, <2>2, BecomesFacts
  <2>4. TypeOK' /\ UNCHANGED proc
    BY <1>5, <2>3 DEF ReadEntries, TypeOK, RunType, disk, world, claude, counts
  <2> QED
    BY <1>k, <2>0, <2>o, <2>1, <2>2, <2>4
<1>6. CASE DeleteForks(r)
  <2>0. run[r].pc = "delete" /\ ~run[r].dryRun
    BY <1>6 DEF DeleteForks, RunRule
  <2>o. \A x \in Session : WorkOf(r, x).at = "out"
    BY <2>0, OutOfPool
  <2>p. PICK kept \in SUBSET (planForkCleanup(run[r].entries) \cap transcripts) :
          LET gone == planForkCleanup(run[r].entries) \ kept
          IN  /\ transcripts' = transcripts \ gone
              /\ IF gone = {} THEN Ended(r)
                   ELSE Becomes(r, [run[r] EXCEPT !.pc = "rewrite", !.handled = gone])
    BY <1>6 DEF DeleteForks
  <2> DEFINE gone == planForkCleanup(run[r].entries) \ kept
             v == [run[r] EXCEPT !.pc = "rewrite", !.handled = gone]
  <2>g. gone \subseteq Int
    BY <1>t DEF Run, Entry, planForkCleanup, IdsOf
  <2>u. transcripts' \subseteq Int /\ UNCHANGED <<disk, world, spawned, counts>>
    BY <1>6, <2>p DEF DeleteForks, TypeOK
  <2> HIDE DEF gone
  <2>1. CASE Ended(r)
    <3>1. RunType'
      BY <1>t, <2>1, IdleType, BecomesFacts DEF Ended
    <3> QED
      BY <2>1, <2>u, <3>1, EndedKeeps DEF TypeOK, RunType, disk, world, counts
  <2>2. CASE Becomes(r, v)
    <3>1. v \in Run /\ v.dryRun = run[r].dryRun /\ v.work = run[r].work
      BY <1>t, <2>g DEF Run
    <3> HIDE DEF v
    <3>3. RunType'
      BY <1>t, <2>2, <3>1, BecomesFacts
    <3>4. TypeOK' /\ UNCHANGED proc
      BY <2>u, <3>3 DEF TypeOK, RunType, disk, world, counts
    <3> QED
      BY <1>k, <2>0, <2>2, <2>o, <3>1, <3>4
  <2> QED
    BY <2>1, <2>2, <2>p DEF gone
<1>7. CASE dropHandledEntries(r)
  <2>1. Ended(r)
    BY <1>7 DEF dropHandledEntries
  <2>2. forks' \subseteq Entry /\ UNCHANGED <<handoffs, summary, world, claude, counts>>
    BY <1>7, <1>t DEF dropHandledEntries, Run, TypeOK
  <2>3. RunType'
    BY <1>t, <2>1, IdleType, BecomesFacts DEF Ended
  <2> QED
    BY <2>1, <2>2, <2>3, EndedKeeps DEF TypeOK, RunType, world, claude, counts
<1> QED
  BY <1>1, <1>2, <1>3, <1>4, <1>5, <1>6, <1>7 DEF Finishes

\* Steps of the environment, which no run notices.
LEMMA WorldDiscipline ==
  ASSUME Discipline,
         \/ \E f \in spawned : ForkWrites(f)
         \/ \E s \in Session : Evolves(s) \/ Ends(s)
         \/ UNCHANGED vars
  PROVE  Discipline'
<1> USE DEF Discipline
<1>r. UNCHANGED run
  BY DEF ForkWrites, Evolves, Ends, vars
<1>1. /\ \A r \in Runner : RunRule(r)'
      /\ \A r \in Runner, s \in Session : WorkRule(r, s)'
  BY <1>r DEF RunRule, WorkRule, WorkOf
<1>2. ASSUME NEW f \in spawned, ForkWrites(f) PROVE Discipline'
  <2>1. transcripts' = transcripts \cup {f} /\ UNCHANGED <<disk, world, spawned, run, counts>>
    BY <1>2 DEF ForkWrites
  <2>2. transcripts' \subseteq Int
    BY <2>1 DEF TypeOK
  <2> QED
    BY <1>1, <2>1, <2>2 DEF TypeOK, disk, world, counts
<1>3. ASSUME NEW s \in Session, Evolves(s) PROVE Discipline'
  <2>1. /\ evidence' = [evidence EXCEPT ![s] = @ + 1] /\ changes' = changes + 1
        /\ UNCHANGED <<disk, proc, claude, run, lastFork, runs, crashes>>
    BY <1>3 DEF Evolves, Changes
  <2>2. evidence' \in [Session -> Nat] /\ changes' \in Nat
    BY <2>1 DEF TypeOK
  <2> QED
    BY <1>1, <2>1, <2>2 DEF TypeOK, disk, claude
<1>4. ASSUME NEW s \in Session, Ends(s) PROVE Discipline'
  <2>1. /\ changes' = changes + 1
        /\ UNCHANGED <<disk, evidence, claude, run, lastFork, runs, crashes>>
        /\ \/ \E how \in {"closed", "dead"} : proc' = [proc EXCEPT ![s] = how]
           \/ proc' = [proc EXCEPT ![s] = "recycled"]
    BY <1>4 DEF Ends, Changes
  <2>2. changes' \in Nat
    BY <2>1 DEF TypeOK
  <2>3. proc' \in [Session -> {"alive", "closed", "dead", "recycled"}]
    BY <2>1 DEF TypeOK
  <2> QED
    BY <1>1, <2>1, <2>2, <2>3 DEF TypeOK, disk, claude
<1>5. CASE UNCHANGED vars
  BY <1>1, <1>5 DEF TypeOK, vars, disk, world, claude, counts
<1> QED
  BY <1>2, <1>3, <1>4, <1>5

LEMMA NextDiscipline == Discipline /\ [Next]_vars => Discipline'
<1> SUFFICES ASSUME Discipline, [Next]_vars PROVE Discipline'
  OBVIOUS
<1>1. ASSUME NEW r \in Runner, NEW s \in Session, Captures(r, s) PROVE Discipline'
  BY <1>1, CaptureDiscipline
<1>2. ASSUME NEW r \in Runner, Discover(r) \/ Finishes(r) \/ Crash(r) PROVE Discipline'
  BY <1>2, RunDiscipline
<1>3. CASE \/ \E f \in spawned : ForkWrites(f)
           \/ \E s \in Session : Evolves(s) \/ Ends(s)
           \/ UNCHANGED vars
  BY <1>3, WorldDiscipline
<1> QED
  BY <1>1, <1>2, <1>3 DEF Next

LEMMA AlwaysDiscipline == Spec => []Discipline
BY InitDiscipline, NextDiscipline, PTL DEF Spec

\* What closings, briefing and cleanup write, whatever overlaps or dies, keeps its
\* type: no step takes for granted what another run may have left there.
THEOREM TypeCorrect == Spec => []TypeOK
<1>1. Discipline => TypeOK
  BY DEF Discipline
<1> QED
  BY <1>1, AlwaysDiscipline, PTL

\* A preview leaves files, processes and forks alone, whatever runs beside it: the captures
\* that write, fork or end something are never those of a dry run.
THEOREM DryRunsTouchNothing == Spec => DryRunTouchesNothing
<1>1. ASSUME Discipline, Next, NEW r \in Runner, run[r].dryRun, run'[r] # run[r]
      PROVE  UNCHANGED <<disk, proc, claude>>
  <2> USE DEF Discipline
  <2>t. RunType
    BY <1>1 DEF TypeOK, RunType
  <2>1. CASE \E q \in Runner, s \in Session : Captures(q, s)
    <3>1. PICK q \in Runner, s \in Session : Captures(q, s)
      BY <2>1
    <3>2. WorkRule(q, s) /\ (q = r => run[q].dryRun)
      BY <1>1
    <3>3. CASE q = r
      <4>1. CASE Take(q, s) \/ Gather(q, s) \/ Compare(q, s) \/ ReadForks(q, s) \/ Verify(q, s)
        BY <4>1 DEF Take, Gather, Compare, ReadForks, Verify, world
      <4>2. CASE WriteForks(q, s) \/ Spawn(q, s) \/ Terminate(q, s)
        BY <3>2, <3>3, <4>2 DEF WorkRule, WriteForks, Spawn, Terminate, At
      <4>3. CASE Generate(q, s)
        BY <3>2, <3>3, <4>3 DEF WorkRule, Generate, At, world, claude
      <4>4. CASE SaveHandoff(q, s)
        BY <3>2, <3>3, <4>4 DEF SaveHandoff, disk, world
      <4> QED
        BY <3>1, <4>1, <4>2, <4>3, <4>4 DEF Captures
    <3>4. CASE q # r
      <4>1. \E w : run' = [run EXCEPT ![q].work[s] = w]
        BY <3>1 DEF Captures, Take, Gather, Compare, ReadForks, WriteForks, Spawn, Generate,
                    SaveHandoff, Verify, Terminate, To, Out, Holds
      <4> QED
        BY <1>1, <2>t, <3>4, <4>1 DEF RunType
    <3> QED
      BY <3>3, <3>4
  <2>2. CASE \E q \in Runner : Discover(q) \/ Finishes(q) \/ Crash(q)
    <3>1. PICK q \in Runner : Discover(q) \/ Finishes(q) \/ Crash(q)
      BY <2>2
    <3>2. \E v : run' = [run EXCEPT ![q] = v]
      BY <3>1 DEF Discover, Finishes, Crash, ListHandoffs, SaveBriefing, ReadEntries, DeleteForks,
                  dropHandledEntries, Ended, Becomes
    <3>3. q = r
      BY <1>1, <2>t, <3>2 DEF RunType
    <3>4. CASE Discover(q) \/ Crash(q) \/ ListHandoffs(q)
      BY <3>4 DEF Discover, Crash, ListHandoffs, world
    <3>5. CASE SaveBriefing(q) \/ ReadEntries(q) \/ DeleteForks(q) \/ dropHandledEntries(q)
      BY <1>1, <3>3, <3>5 DEF RunRule, SaveBriefing, ReadEntries, DeleteForks, dropHandledEntries
    <3> QED
      BY <3>1, <3>4, <3>5 DEF Finishes
  <2>3. CASE (\E f \in spawned : ForkWrites(f)) \/ (\E s \in Session : Evolves(s) \/ Ends(s))
    BY <1>1, <2>3 DEF ForkWrites, Evolves, Ends
  <2> QED
    BY <1>1, <2>1, <2>2, <2>3 DEF Next
<1>2. Discipline /\ [Next]_vars =>
        [\A r \in Runner : run[r].dryRun /\ run'[r] # run[r] => UNCHANGED <<disk, proc, claude>>]_vars
  BY <1>1
<1> QED
  BY <1>2, AlwaysDiscipline, PTL DEF Spec, DryRunTouchesNothing

-----------------------------------------------------------------------------
(* The steps of a closing, as far as what is on disk and in the pool goes.  *)

\* What a capture step may do, whichever it is: the work becomes w.
CapturesTo(r, s, w) ==
  LET here == WorkOf(r, s) IN
  /\ Holds(r, s, w)
  /\ UNCHANGED <<evidence, transcripts, summary>>
  /\ \/ UNCHANGED forks
     \/ here.at = "write" /\ forks' = here.registry \cup {[id |-> here.fork, createdAt |-> Today]}
  /\ w.at = "write" => w.registry = forks /\ UNCHANGED forks
  /\ \/ spawned' \subseteq spawned
     \/ here.at = "spawn" /\ spawned' = spawned \cup {here.fork}
  /\ \/ UNCHANGED handoffs
     \/ handoffs' = [handoffs EXCEPT ![s] = [evidence |-> here.evidence, source |-> here.source]]
  /\ w.evidence \in {here.evidence, evidence[s], 0}
  /\ w.at = "terminate" => handoffs[s] # None /\ UNCHANGED handoffs
  /\ w.at \in Capturing => here.at \in Capturing \/ Cardinality(Busy(r)) < Limit

LEMMA CaptureStep ==
  ASSUME Discipline, NEW r \in Runner, NEW s \in Session, Captures(r, s)
  PROVE  \E w \in Work : CapturesTo(r, s, w)
<1>t. RunType /\ forks \in SUBSET Entry /\ lastFork + 1 \in NoneOr(Int) /\ evidence[s] \in Nat
  BY DEF Discipline, TypeOK, RunType, NoneOr
<1>w. WorkOf(r, s) \in Work
  BY <1>t, WorkType
<1>n. NoWork \in Work /\ NoWork.at = "out" /\ NoWork.evidence = 0
  BY NoWorkType DEF NoWork
<1> DEFINE here == WorkOf(r, s)
<1>c. "out" \notin Capturing /\ {"terminate", "write"} \subseteq Capturing
  BY DEF Capturing
<1>o. ASSUME Out(r, s), UNCHANGED <<evidence, transcripts, summary, forks, spawned, handoffs>>
      PROVE  \E w \in Work : CapturesTo(r, s, w)
  BY <1>o, <1>n, <1>c DEF Out, CapturesTo
\* Nothing but the step of the work itself.
<1>g. ASSUME NEW w \in Work, Holds(r, s, w), UNCHANGED <<evidence, transcripts, summary, forks, handoffs>>,
             spawned' \subseteq spawned, w.evidence \in {here.evidence, evidence[s]},
             w.at \notin {"write", "terminate"}, here.at \in Capturing
      PROVE  CapturesTo(r, s, w)
  BY <1>g DEF CapturesTo
<1>1. CASE Take(r, s)
  <2>1. UNCHANGED <<evidence, transcripts, summary, forks, spawned, handoffs>> /\ Cardinality(Busy(r)) < Limit
    BY <1>1 DEF Take, disk, world, claude
  <2>2. CASE To(r, s, "gather")
    <3> DEFINE w == [here EXCEPT !.at = "gather"]
    <3>1. w \in Work /\ w.at = "gather" /\ w.evidence = here.evidence
      BY <1>w DEF Work, Capturing
    <3>2. Holds(r, s, w)
      BY <2>2 DEF To
    <3> HIDE DEF w
    <3>3. CapturesTo(r, s, w)
      BY <2>1, <3>1, <3>2 DEF CapturesTo
    <3> QED
      BY <3>1, <3>3
  <2> QED
    BY <1>1, <1>o, <2>1, <2>2 DEF Take
<1>2. CASE Gather(r, s)
  <2> DEFINE w == [here EXCEPT !.at = "compare", !.evidence = evidence[s]]
  <2>1. w \in Work /\ w.at = "compare" /\ w.evidence = evidence[s]
    BY <1>w, <1>t DEF Work, Capturing
  <2>2. /\ Holds(r, s, w) /\ here.at \in Capturing
        /\ UNCHANGED <<evidence, transcripts, summary, forks, spawned, handoffs>>
    BY <1>2 DEF Gather, At, Capturing, disk, world, claude
  <2> HIDE DEF w, here
  <2> QED
    BY <1>g, <2>1, <2>2
<1>3. CASE Compare(r, s)
  <2>1. here.at \in Capturing /\ UNCHANGED <<evidence, transcripts, summary, forks, spawned, handoffs>>
    BY <1>3 DEF Compare, At, Capturing, disk, world, claude
  <2> DEFINE w == [here EXCEPT !.at = resolveGeneration(r, s)]
  <2>2. resolveGeneration(r, s) \in {"generate", "save", "register"}
    BY DEF resolveGeneration
  <2>3. w \in Work /\ w.at = resolveGeneration(r, s) /\ w.evidence = here.evidence
    BY <1>w, <2>2 DEF Work, Capturing
  <2>4. Holds(r, s, w) \/ Out(r, s)
    BY <1>3 DEF Compare, To
  <2> HIDE DEF w, here
  <2> QED
    BY <1>g, <1>o, <2>1, <2>2, <2>3, <2>4
<1>4. CASE ReadForks(r, s)
  <2> DEFINE w == [here EXCEPT !.at = "write", !.fork = lastFork + 1, !.registry = forks]
  <2>1. w \in Work /\ w.at = "write" /\ w.registry = forks /\ w.evidence = here.evidence
    BY <1>w, <1>t DEF Work, Capturing
  <2>2. /\ Holds(r, s, w) /\ here.at \in Capturing
        /\ UNCHANGED <<evidence, transcripts, summary, forks, spawned, handoffs>>
    BY <1>4 DEF ReadForks, At, Capturing, disk, world, claude
  <2> HIDE DEF w
  <2>3. CapturesTo(r, s, w)
    BY <2>1, <2>2 DEF CapturesTo
  <2> QED
    BY <2>1, <2>3
<1>5. CASE WriteForks(r, s)
  <2>0. /\ here.at = "write" /\ here.at \in Capturing
        /\ UNCHANGED <<evidence, transcripts, summary, spawned, handoffs>>
    BY <1>5 DEF WriteForks, At, Capturing, world, claude
  <2>1. CASE /\ forks' = here.registry \cup {[id |-> here.fork, createdAt |-> Today]}
             /\ Holds(r, s, [here EXCEPT !.at = "spawn", !.registry = {}])
    <3> DEFINE w == [here EXCEPT !.at = "spawn", !.registry = {}]
    <3>1. w \in Work /\ w.at = "spawn" /\ w.evidence = here.evidence
      BY <1>w DEF Work, Capturing
    <3>2. Holds(r, s, w)
      BY <2>1
    <3> HIDE DEF w
    <3>3. CapturesTo(r, s, w)
      BY <2>0, <2>1, <3>1, <3>2 DEF CapturesTo
    <3> QED
      BY <3>1, <3>3
  <2>2. CASE /\ Holds(r, s, [here EXCEPT !.at = "save", !.registry = {}, !.fork = None])
             /\ UNCHANGED forks
    <3> DEFINE w == [here EXCEPT !.at = "save", !.registry = {}, !.fork = None]
    <3>1. w \in Work /\ w.at = "save" /\ w.evidence = here.evidence
      BY <1>w DEF Work, Capturing, NoneOr
    <3>2. Holds(r, s, w)
      BY <2>2
    <3> HIDE DEF w, here
    <3> QED
      BY <1>g, <2>0, <2>2, <3>1, <3>2
  <2> QED
    BY <1>5, <2>1, <2>2 DEF WriteForks
<1>6. CASE Spawn(r, s)
  <2> DEFINE w == [here EXCEPT !.at = "generate"]
  <2>1. w \in Work /\ w.at = "generate" /\ w.evidence = here.evidence
    BY <1>w DEF Work, Capturing
  <2>2. /\ Holds(r, s, w) /\ here.at = "spawn" /\ here.at \in Capturing
        /\ spawned' = spawned \cup {here.fork}
        /\ UNCHANGED <<evidence, transcripts, summary, forks, handoffs>>
    BY <1>6 DEF Spawn, To, At, Capturing, disk, world
  <2> HIDE DEF w
  <2>3. CapturesTo(r, s, w)
    BY <2>1, <2>2 DEF CapturesTo
  <2> QED
    BY <2>1, <2>3
<1>7. CASE Generate(r, s)
  <2>1. PICK source \in Source :
          Holds(r, s, [here EXCEPT !.at = "save", !.source = source, !.fork = None])
    BY <1>7 DEF Generate
  <2> DEFINE w == [here EXCEPT !.at = "save", !.source = source, !.fork = None]
  <2>2. w \in Work /\ w.at = "save" /\ w.evidence = here.evidence
    BY <1>w DEF Work, Capturing, NoneOr
  <2>3. Holds(r, s, w)
    BY <2>1
  <2>4. /\ here.at \in Capturing /\ spawned' \subseteq spawned
        /\ UNCHANGED <<evidence, transcripts, summary, forks, handoffs>>
    BY <1>7 DEF Generate, At, Capturing, disk, world
  <2> HIDE DEF w, here
  <2> QED
    BY <1>g, <2>2, <2>3, <2>4
<1>8. CASE SaveHandoff(r, s)
  <2>0. here.at \in Capturing /\ UNCHANGED <<evidence, transcripts, summary, forks, spawned>>
    BY <1>8 DEF SaveHandoff, At, Capturing, world, claude
  <2>1. CASE Out(r, s) /\ UNCHANGED handoffs
    BY <1>o, <2>0, <2>1
  <2>2. CASE /\ handoffs' = [handoffs EXCEPT ![s] = [evidence |-> here.evidence, source |-> here.source]]
             /\ To(r, s, "verify")
    <3> DEFINE w == [here EXCEPT !.at = "verify"]
    <3>1. w \in Work /\ w.at = "verify" /\ w.evidence = here.evidence
      BY <1>w DEF Work, Capturing
    <3>2. Holds(r, s, w)
      BY <2>2 DEF To
    <3> HIDE DEF w
    <3>3. CapturesTo(r, s, w)
      BY <2>0, <2>2, <3>1, <3>2 DEF CapturesTo
    <3> QED
      BY <3>1, <3>3
  <2> QED
    BY <1>8, <2>1, <2>2 DEF SaveHandoff
<1>9. CASE Verify(r, s)
  <2>0. here.at \in Capturing /\ UNCHANGED <<evidence, transcripts, summary, forks, spawned, handoffs>>
    BY <1>9 DEF Verify, At, Capturing, disk, world, claude
  <2>1. CASE To(r, s, "terminate") /\ handoffs[s] # None
    <3> DEFINE w == [here EXCEPT !.at = "terminate"]
    <3>1. w \in Work /\ w.at = "terminate" /\ w.evidence = here.evidence
      BY <1>w DEF Work, Capturing
    <3>2. Holds(r, s, w)
      BY <2>1 DEF To
    <3> HIDE DEF w
    <3>3. CapturesTo(r, s, w)
      BY <2>0, <2>1, <3>1, <3>2 DEF CapturesTo
    <3> QED
      BY <3>1, <3>3
  <2> QED
    BY <1>9, <1>o, <2>0, <2>1 DEF Verify
<1>10. CASE Terminate(r, s)
  BY <1>10, <1>o DEF Terminate, disk, claude
<1> QED
  BY <1>1, <1>2, <1>3, <1>4, <1>5, <1>6, <1>7, <1>8, <1>9, <1>10 DEF Captures

\* What a step of the closing itself may do: the run becomes v.
ClosesTo(r, v) ==
  /\ Becomes(r, v)
  /\ \A x \in Session : v.work[x].at \in {"out", "queued"} /\ v.work[x].evidence \in {WorkOf(r, x).evidence, 0}
  /\ UNCHANGED <<evidence, handoffs, spawned>>
  /\ v.pc = "brief" => v.listing = handoffs
  /\ \/ UNCHANGED summary
     \/ run[r].pc = "brief" /\ summary' = run[r].listing
  /\ \/ v.pc \notin {"delete", "rewrite"} /\ UNCHANGED <<forks, transcripts>>
     \/ v.pc = "delete" /\ v.entries = forks /\ UNCHANGED <<forks, transcripts>>
     \/ /\ run[r].pc = "delete" /\ UNCHANGED forks
        /\ \E gone \in SUBSET planForkCleanup(run[r].entries) :
             /\ transcripts' = transcripts \ gone
             /\ \/ v.pc = "idle"
                \/ v.pc = "rewrite" /\ v.entries = run[r].entries /\ v.handled = gone
     \/ /\ run[r].pc = "rewrite" /\ v.pc = "idle" /\ UNCHANGED transcripts
        /\ forks' = {e \in run[r].entries : e.id \notin run[r].handled}

LEMMA ClosingStep ==
  ASSUME Discipline, NEW r \in Runner, Discover(r) \/ Finishes(r) \/ Crash(r)
  PROVE  \E v \in Run : ClosesTo(r, v)
<1>t. RunType /\ run[r] \in Run
  BY DEF Discipline, TypeOK, RunType
<1>i. /\ Idle \in Run /\ Idle.pc = "idle"
      /\ \A x \in Session : Idle.work[x].at = "out" /\ Idle.work[x].evidence = 0
  BY IdleType DEF Idle, NoWork
<1>e. ASSUME Ended(r), UNCHANGED <<evidence, handoffs, spawned, forks, transcripts, summary>>
      PROVE  \E v \in Run : ClosesTo(r, v)
  BY <1>e, <1>i DEF Ended, ClosesTo
<1>1. CASE Discover(r)
  <2>1. PICK scope \in {Session} \cup {{s} : s \in Session}, dry, skip \in BOOLEAN :
          Becomes(r, [Idle EXCEPT !.pc = "pool", !.dryRun = dry, !.skipTermination = skip,
                        !.work = [s \in Session |-> [NoWork EXCEPT
                          !.at = IF s \in scope /\ proc[s] # "closed" THEN "queued" ELSE "out"]]])
    BY <1>1 DEF Discover
  <2> DEFINE work == [s \in Session |-> [NoWork EXCEPT
                       !.at = IF s \in scope /\ proc[s] # "closed" THEN "queued" ELSE "out"]]
             v == [Idle EXCEPT !.pc = "pool", !.dryRun = dry, !.skipTermination = skip, !.work = work]
  <2>2. /\ work \in [Session -> Work]
        /\ \A x \in Session : work[x].at \in {"out", "queued"} /\ work[x].evidence = 0
    BY NoWorkType DEF NoWork, Work
  <2> HIDE DEF work
  <2>3. v \in Run /\ v.pc = "pool" /\ v.work = work
    BY <1>i, <2>2 DEF Run
  <2>4. Becomes(r, v) /\ UNCHANGED <<evidence, handoffs, spawned, forks, transcripts, summary>>
    BY <1>1, <2>1 DEF work, Discover, disk, world, claude
  <2> HIDE DEF v
  <2> QED
    BY <2>2, <2>3, <2>4 DEF ClosesTo
<1>2. CASE Crash(r)
  BY <1>2, <1>e DEF Crash, disk, world, claude
<1>3. CASE Finishes(r)
  <2>o. \A x \in Session : run[r].work[x].at = "out"
    <3>1. CASE ListHandoffs(r)
      BY <3>1 DEF ListHandoffs, Drained, NoWork, WorkOf
    <3>2. CASE ~ListHandoffs(r)
      <4>1. run[r].pc # "pool"
        BY <1>3, <3>2 DEF Finishes, SaveBriefing, ReadEntries, DeleteForks, dropHandledEntries
      <4> QED
        BY <4>1, OutOfPool DEF WorkOf
    <3> QED
      BY <3>1, <3>2
  <2>k. ASSUME NEW v \in Run, v.work = run[r].work
        PROVE  \A x \in Session : /\ v.work[x].at \in {"out", "queued"}
                                  /\ v.work[x].evidence \in {WorkOf(r, x).evidence, 0}
    BY <2>o, <2>k DEF WorkOf
  <2>1. CASE ListHandoffs(r)
    <3> DEFINE v == [run[r] EXCEPT !.pc = "brief", !.listing = handoffs]
    <3>1. v \in Run /\ v.pc = "brief" /\ v.work = run[r].work /\ v.listing = handoffs
      BY <1>t DEF Run, Discipline, TypeOK
    <3>2. /\ Ended(r) \/ Becomes(r, v)
          /\ UNCHANGED <<evidence, handoffs, spawned, forks, transcripts, summary>>
      BY <2>1 DEF ListHandoffs, disk, world, claude
    <3> HIDE DEF v
    <3>3. ASSUME Becomes(r, v) PROVE ClosesTo(r, v)
      BY <2>k, <3>1, <3>2, <3>3 DEF ClosesTo
    <3> QED
      BY <1>e, <3>1, <3>2, <3>3
  <2>2. CASE SaveBriefing(r)
    <3> DEFINE v == [run[r] EXCEPT !.pc = "cleanup"]
    <3>1. v \in Run /\ v.pc = "cleanup" /\ v.work = run[r].work
      BY <1>t DEF Run
    <3>2. /\ \/ Ended(r) /\ UNCHANGED summary
             \/ Becomes(r, v) /\ run[r].pc = "brief" /\ summary' = run[r].listing
          /\ UNCHANGED <<evidence, handoffs, spawned, forks, transcripts>>
      BY <2>2 DEF SaveBriefing, world, claude
    <3> HIDE DEF v
    <3>3. ASSUME Becomes(r, v), run[r].pc = "brief" /\ summary' = run[r].listing PROVE ClosesTo(r, v)
      BY <2>k, <3>1, <3>2, <3>3 DEF ClosesTo
    <3> QED
      BY <1>e, <3>1, <3>2, <3>3
  <2>3. CASE ReadEntries(r)
    <3> DEFINE v == [run[r] EXCEPT !.pc = "delete", !.entries = forks]
    <3>1. v \in Run /\ v.pc = "delete" /\ v.work = run[r].work /\ v.entries = forks
      BY <1>t DEF Run, Discipline, TypeOK
    <3>2. Becomes(r, v) /\ UNCHANGED <<evidence, handoffs, spawned, forks, transcripts, summary>>
      BY <2>3 DEF ReadEntries, disk, world, claude
    <3> HIDE DEF v
    <3>3. ClosesTo(r, v)
      BY <2>k, <3>1, <3>2 DEF ClosesTo
    <3> QED
      BY <3>1, <3>3
  <2>4. CASE DeleteForks(r)
    <3>0. run[r].pc = "delete" /\ UNCHANGED <<evidence, handoffs, spawned, forks, summary>>
      BY <2>4 DEF DeleteForks, disk, world
    <3>1. PICK gone \in SUBSET planForkCleanup(run[r].entries) :
            /\ transcripts' = transcripts \ gone
            /\ Ended(r) \/ Becomes(r, [run[r] EXCEPT !.pc = "rewrite", !.handled = gone])
      BY <2>4 DEF DeleteForks
    <3> DEFINE v == [run[r] EXCEPT !.pc = "rewrite", !.handled = gone]
    <3>2. gone \subseteq Int
      BY <1>t DEF Run, Entry, planForkCleanup, IdsOf
    <3>3. /\ v \in Run /\ v.pc = "rewrite" /\ v.work = run[r].work
          /\ v.entries = run[r].entries /\ v.handled = gone
      BY <1>t, <3>2 DEF Run
    <3>4. Ended(r) \/ Becomes(r, v)
      BY <3>1
    <3> HIDE DEF v
    <3>5. ASSUME Becomes(r, v) PROVE ClosesTo(r, v)
      BY <2>k, <3>0, <3>1, <3>3, <3>5 DEF ClosesTo
    <3>6. ASSUME Ended(r) PROVE ClosesTo(r, Idle)
      BY <1>i, <3>0, <3>1, <3>6 DEF Ended, ClosesTo
    <3> QED
      BY <1>i, <3>3, <3>4, <3>5, <3>6
  <2>5. CASE dropHandledEntries(r)
    BY <2>5, <1>e, <1>i DEF dropHandledEntries, Ended, ClosesTo, world, claude
  <2> QED
    BY <1>3, <2>1, <2>2, <2>3, <2>4, <2>5 DEF Finishes
<1> QED
  BY <1>1, <1>2, <1>3

\* What the world outside the closings may do, or nothing at all.
TheWorldTurns ==
  /\ UNCHANGED <<run, handoffs, summary, forks, spawned>>
  /\ transcripts \subseteq transcripts' /\ transcripts' \subseteq transcripts \cup spawned
  /\ \A s \in Session : evidence'[s] \in {evidence[s], evidence[s] + 1}

LEMMA NextStep ==
  ASSUME Discipline, [Next]_vars
  PROVE  \/ \E r \in Runner, s \in Session, w \in Work : CapturesTo(r, s, w)
         \/ \E r \in Runner, v \in Run : ClosesTo(r, v)
         \/ TheWorldTurns
<1>1. ASSUME NEW r \in Runner, NEW s \in Session, Captures(r, s)
      PROVE  \E w \in Work : CapturesTo(r, s, w)
  BY <1>1, CaptureStep
<1>2. ASSUME NEW r \in Runner, Discover(r) \/ Finishes(r) \/ Crash(r)
      PROVE  \E v \in Run : ClosesTo(r, v)
  BY <1>2, ClosingStep
<1>3. CASE \/ \E f \in spawned : ForkWrites(f)
           \/ \E s \in Session : Evolves(s) \/ Ends(s)
           \/ UNCHANGED vars
  <2>1. /\ UNCHANGED <<run, handoffs, summary, forks, spawned>>
        /\ transcripts \subseteq transcripts' /\ transcripts' \subseteq transcripts \cup spawned
    BY <1>3 DEF ForkWrites, Evolves, Ends, vars, disk, claude
  <2>2. evidence \in [Session -> Nat]
    BY DEF Discipline, TypeOK
  <2>3. \A s \in Session : evidence'[s] \in {evidence[s], evidence[s] + 1}
    BY <1>3, <2>2 DEF ForkWrites, Evolves, Ends, vars, world
  <2> QED
    BY <2>1, <2>3 DEF TheWorldTurns
<1> QED
  BY <1>1, <1>2, <1>3 DEF Next

-----------------------------------------------------------------------------
(* The forks of earlier days, whatever closings overlap: two runs may lose   *)
(* each other's new entries, but never one they both have read.             *)

\* An entry of an earlier day, or one a closing of today has made.
Genuine(e) == e \in OldForks \/ (e.id >= 1 /\ e.createdAt = Today)

\* A registry that has every fork of an earlier day with a transcript in T.
Knows(S, T) == /\ \A e \in S : Genuine(e)
               /\ \A e \in OldForks : e.id \in T => e \in S

OldInv ==
  /\ spawned \subseteq Nat \ {0}
  /\ Knows(forks, transcripts)
  /\ \A r \in Runner, s \in Session :
       At(r, s, "write") => Knows(WorkOf(r, s).registry, transcripts)
  /\ \A r \in Runner :
       run[r].pc \in {"delete", "rewrite"} => Knows(run[r].entries, transcripts)
  /\ \A r \in Runner :
       run[r].pc = "rewrite" =>
         \A e \in OldForks : e.id \in transcripts => e.id \notin run[r].handled

\* No transcript of an earlier day appears: the forks of today are other forks.
LEMMA KnowsStays ==
  ASSUME NEW S, NEW T, NEW U, Knows(S, T), U \subseteq T \cup (Nat \ {0})
  PROVE  Knows(S, U)
<1>1. \A e \in OldForks : e.id \notin Nat \ {0}
  BY OldForksAssumption DEF Entry
<1> QED
  BY <1>1 DEF Knows

LEMMA CaptureOld ==
  ASSUME Discipline, OldInv, NEW r \in Runner, NEW s \in Session, NEW w \in Work, CapturesTo(r, s, w)
  PROVE  OldInv'
<1> DEFINE here == WorkOf(r, s)
<1>1. /\ Holds(r, s, w) /\ UNCHANGED transcripts
      /\ \/ UNCHANGED forks
         \/ here.at = "write" /\ forks' = here.registry \cup {[id |-> here.fork, createdAt |-> Today]}
      /\ w.at = "write" => w.registry = forks /\ UNCHANGED forks
      /\ \/ spawned' \subseteq spawned
         \/ here.at = "spawn" /\ spawned' = spawned \cup {here.fork}
  BY Zenon DEF CapturesTo
<1>2. here.at \in {"write", "spawn"} => here.fork \in Nat \ {0}
  BY DEF Discipline, WorkRule
<1>3. /\ \A q \in Runner : Frame(q)
      /\ WorkOf(r, s)' = w
      /\ \A q \in Runner, x \in Session : q # r \/ x # s => WorkOf(q, x)' = WorkOf(q, x)
  BY <1>1, HoldsFacts DEF Discipline, TypeOK, RunType
<1>4. spawned' \subseteq Nat \ {0}
  BY <1>1, <1>2 DEF OldInv
<1>5. Knows(forks, transcripts)'
  <2>1. CASE forks' = forks
    BY <1>1, <2>1 DEF OldInv, Knows
  <2>2. CASE here.at = "write" /\ forks' = here.registry \cup {[id |-> here.fork, createdAt |-> Today]}
    <3>1. Knows(here.registry, transcripts) /\ here.fork \in Nat \ {0}
      BY <1>2, <2>2 DEF OldInv, At
    <3> DEFINE new == [id |-> here.fork, createdAt |-> Today]
    <3>2. new.id = here.fork /\ new.createdAt = Today
      OBVIOUS
    <3>3. forks' = here.registry \cup {new}
      BY <2>2
    <3> HIDE DEF new, here
    <3>4. Genuine(new)
      BY <3>1, <3>2 DEF Genuine
    <3> QED
      BY <1>1, <3>1, <3>3, <3>4 DEF Knows
  <2> QED
    BY <1>1, <2>1, <2>2
<1>6. ASSUME NEW q \in Runner, NEW x \in Session, At(q, x, "write")'
      PROVE  Knows(WorkOf(q, x).registry, transcripts)'
  <2>1. CASE q = r /\ x = s
    BY <1>1, <1>3, <1>6, <2>1 DEF OldInv, At, Knows
  <2>2. CASE q # r \/ x # s
    <3>1. WorkOf(q, x)' = WorkOf(q, x)
      BY <1>3, <2>2
    <3> QED
      BY <1>1, <1>6, <3>1 DEF OldInv, At, Knows
  <2> QED
    BY <2>1, <2>2
<1> HIDE DEF here
<1> QED
  BY <1>1, <1>3, <1>4, <1>5, <1>6 DEF OldInv, Frame, Knows

LEMMA ClosingOld ==
  ASSUME Discipline, OldInv, NEW r \in Runner, NEW v \in Run, ClosesTo(r, v)
  PROVE  OldInv'
<1>1. /\ run'[r] = v /\ \A q \in Runner : q # r => run'[q] = run[q]
      /\ \A x \in Session : v.work[x].at # "write"
      /\ UNCHANGED spawned
  BY BecomesFacts DEF ClosesTo, Discipline, TypeOK, RunType
<1>2. transcripts' \subseteq transcripts
  BY DEF ClosesTo
<1>3. ASSUME NEW S, Knows(S, transcripts) PROVE Knows(S, transcripts)'
  BY <1>2, <1>3 DEF Knows
<1>4. Knows(forks, transcripts)'
  <2>1. CASE UNCHANGED forks
    BY <1>2, <2>1 DEF OldInv, Knows
  <2>2. CASE run[r].pc = "rewrite" /\ forks' = {e \in run[r].entries : e.id \notin run[r].handled}
    BY <1>2, <2>2 DEF OldInv, Knows
  <2> QED
    BY <2>1, <2>2 DEF ClosesTo
<1>5. ASSUME NEW q \in Runner, NEW x \in Session, At(q, x, "write")'
      PROVE  Knows(WorkOf(q, x).registry, transcripts)'
  <2>1. q # r
    BY <1>1, <1>5 DEF At, WorkOf
  <2>2. WorkOf(q, x)' = WorkOf(q, x)
    BY <1>1, <2>1 DEF WorkOf
  <2> QED
    BY <1>2, <1>5, <2>2 DEF OldInv, At, Knows
<1>6. ASSUME NEW q \in Runner, run'[q].pc \in {"delete", "rewrite"}
      PROVE  /\ Knows(run[q].entries, transcripts)'
             /\ run'[q].pc = "rewrite" =>
                  \A e \in OldForks : e.id \in transcripts' => e.id \notin run'[q].handled
  <2>1. CASE q # r
    BY <1>1, <1>2, <1>6, <2>1 DEF OldInv, Knows
  <2>2. CASE q = r /\ v.pc = "delete"
    <3>1. v.entries = forks /\ UNCHANGED transcripts
      BY <2>2 DEF ClosesTo
    <3> QED
      BY <1>1, <2>2, <3>1 DEF OldInv, Knows
  <2>3. CASE q = r /\ v.pc = "rewrite"
    <3>1. /\ run[r].pc = "delete" /\ v.entries = run[r].entries
          /\ transcripts' = transcripts \ v.handled
      BY <2>3 DEF ClosesTo
    <3> QED
      BY <1>1, <2>3, <3>1 DEF OldInv, Knows
  <2> QED
    BY <1>1, <1>6, <2>1, <2>2, <2>3
<1> QED
  BY <1>1, <1>4, <1>5, <1>6 DEF OldInv

LEMMA WorldOld ==
  ASSUME OldInv, TheWorldTurns
  PROVE  OldInv'
<1>1. /\ UNCHANGED <<run, forks, spawned>>
      /\ transcripts' \subseteq transcripts \cup (Nat \ {0})
      /\ \A r \in Runner, s \in Session : WorkOf(r, s)' = WorkOf(r, s)
  BY DEF TheWorldTurns, OldInv, WorkOf
<1>2. ASSUME NEW S, Knows(S, transcripts) PROVE Knows(S, transcripts')
  BY <1>1, <1>2, KnowsStays
<1>3. \A e \in OldForks : e.id \in transcripts' => e.id \in transcripts
  BY <1>1, OldForksAssumption DEF Entry
<1>4. Knows(forks, transcripts)'
  BY <1>1, <1>3 DEF OldInv, Knows
<1>5. ASSUME NEW r \in Runner, NEW s \in Session, At(r, s, "write")'
      PROVE  Knows(WorkOf(r, s).registry, transcripts)'
  BY <1>1, <1>3, <1>5 DEF OldInv, At, Knows
<1>6. ASSUME NEW r \in Runner, run'[r].pc \in {"delete", "rewrite"}
      PROVE  /\ Knows(run[r].entries, transcripts)'
             /\ run'[r].pc = "rewrite" =>
                  \A e \in OldForks : e.id \in transcripts' => e.id \notin run'[r].handled
  BY <1>1, <1>3, <1>6 DEF OldInv, Knows
<1> QED
  BY <1>1, <1>4, <1>5, <1>6 DEF OldInv

LEMMA AlwaysOld == Spec => [](Discipline /\ OldInv)
<1>1. Init => OldInv
  <2> SUFFICES ASSUME Init PROVE OldInv
    OBVIOUS
  <2>1. \A r \in Runner : run[r] = Idle
    BY DEF Init
  <2> QED
    BY <2>1, IdleFacts DEF Init, OldInv, Knows, Genuine, At, WorkOf
<1>2. Discipline /\ OldInv /\ [Next]_vars => OldInv'
  BY NextStep, CaptureOld, ClosingOld, WorldOld
<1> QED
  BY <1>1, <1>2, AlwaysDiscipline, PTL DEF Spec

\* Every fork of an earlier day whose transcript is still there.
OldForksStayKnown == \A e \in OldForks : e.id \in transcripts => e \in forks

\* However many closings overlap, die or fail to write, none makes seeya forget a fork of an
\* earlier day: its entry is in forks.json, its date unchanged, while its transcript exists.
\* What a lost update loses (EndDay_twoForks) is an entry of the day itself.
THEOREM NoOldForkIsForgotten == Spec => []OldForksStayKnown
<1>1. OldInv => OldForksStayKnown
  BY DEF OldInv, Knows, OldForksStayKnown
<1> QED
  BY <1>1, AlwaysOld, PTL

\* The cleanup deletes only transcripts of forks registered for longer than
\* forkCleanupDays, however many closings overlap: what it has read may be out of date,
\* but never in what it takes to be stale.
THEOREM CleanupDeletesStaleForks == Spec => DeletesOnlyStaleForks
<1>1. ASSUME Discipline, OldInv, [Next]_vars, NEW f \in transcripts \ transcripts'
      PROVE  \E e \in forks : e.id = f /\ e.createdAt # None /\ e.createdAt + forkCleanupDays < Today
  <2>1. PICK r \in Runner, v \in Run : ClosesTo(r, v)
    <3>1. ASSUME NEW r \in Runner, NEW s \in Session, NEW w \in Work, CapturesTo(r, s, w)
          PROVE  UNCHANGED transcripts
      BY <3>1 DEF CapturesTo
    <3> QED
      BY <1>1, <3>1, NextStep DEF TheWorldTurns
  <2>2. run[r].pc = "delete" /\ f \in planForkCleanup(run[r].entries)
    BY <1>1, <2>1 DEF ClosesTo
  <2>3. PICK e \in run[r].entries : e.id = f /\ Stale(e)
    BY <2>2 DEF planForkCleanup, IdsOf
  <2>4. Genuine(e)
    BY <1>1, <2>2 DEF OldInv, Knows
  <2>5. e.createdAt # None /\ Today - e.createdAt > forkCleanupDays
    BY <2>3 DEF Stale
  <2>6. e \in OldForks
    BY <2>4, <2>5, DaysAssumption DEF Genuine
  <2>7. e \in forks
    BY <1>1, <2>3, <2>6 DEF OldInv, Knows
  <2>8. e.createdAt \in Nat
    BY <2>5, <2>6, OldForksAssumption DEF Entry, NoneOr
  <2> QED
    BY <2>3, <2>5, <2>7, <2>8, DaysAssumption
<1>2. Discipline /\ OldInv /\ [Next]_vars =>
        [\A f \in transcripts \ transcripts' :
           \E e \in forks :
             e.id = f /\ e.createdAt # None /\ e.createdAt + forkCleanupDays < Today]_vars
  BY <1>1
<1> QED
  BY <1>2, AlwaysOld, PTL DEF Spec, DeletesOnlyStaleForks

-----------------------------------------------------------------------------
(* The folder of the day, whatever closings overlap.                        *)

\* Handoffs and captures are of states the session has been in; who is about to end a
\* session has seen a handoff of it; who has listed the folder has listed what stays there.
FolderInv ==
  /\ \A s \in Session : handoffs[s] # None => handoffs[s].evidence <= evidence[s]
  /\ \A r \in Runner, s \in Session : WorkOf(r, s).evidence <= evidence[s]
  /\ \A r \in Runner, s \in Session : At(r, s, "terminate") => handoffs[s] # None
  /\ \A r \in Runner :
       run[r].pc = "brief" => \A s \in Session : run[r].listing[s] # None => handoffs[s] # None
  /\ summary # None => \A s \in Session : summary[s] # None => handoffs[s] # None

\* What the folder's part of a step comes to.
LEMMA FolderStep ==
  ASSUME FolderInv, \A s \in Session : evidence[s] \in Nat /\ evidence'[s] \in {evidence[s], evidence[s] + 1},
         \A s \in Session : handoffs[s] # None => handoffs[s].evidence \in Nat,
         \A s \in Session : \/ handoffs'[s] = handoffs[s]
                            \/ handoffs'[s] # None /\ handoffs'[s].evidence <= evidence'[s],
         \A r \in Runner, s \in Session : WorkOf(r, s)'.evidence <= evidence'[s],
         \A r \in Runner, s \in Session : At(r, s, "terminate")' => handoffs'[s] # None,
         \A r \in Runner :
           run'[r].pc = "brief" => \/ run'[r].listing = handoffs
                                   \/ run[r].pc = "brief" /\ run'[r].listing = run[r].listing,
         \/ UNCHANGED summary
         \/ \E r \in Runner : run[r].pc = "brief" /\ summary' = run[r].listing
  PROVE  FolderInv'
<1>1. \A s \in Session : handoffs[s] # None => handoffs'[s] # None
  OBVIOUS
<1>2. ASSUME NEW s \in Session, handoffs'[s] # None PROVE handoffs'[s].evidence <= evidence'[s]
  BY <1>2 DEF FolderInv
<1>3. ASSUME NEW r \in Runner, run'[r].pc = "brief", NEW s \in Session, run'[r].listing[s] # None
      PROVE  handoffs'[s] # None
  BY <1>1, <1>3 DEF FolderInv
<1>4. ASSUME summary' # None, NEW s \in Session, summary'[s] # None PROVE handoffs'[s] # None
  BY <1>1, <1>4 DEF FolderInv
<1> QED
  BY <1>2, <1>3, <1>4 DEF FolderInv

LEMMA FolderTypes ==
  ASSUME Discipline
  PROVE  /\ RunType
         /\ \A s \in Session : evidence[s] \in Nat
         /\ \A s \in Session : handoffs[s] # None => handoffs[s].evidence \in Nat
         /\ handoffs \in [Session -> NoneOr(Handoff)]
         /\ \A r \in Runner, s \in Session : WorkOf(r, s) \in Work /\ WorkOf(r, s).evidence \in Nat
BY WorkType DEF Discipline, TypeOK, RunType, NoneOr, Handoff, Work

LEMMA CaptureFolder ==
  ASSUME Discipline, FolderInv, NEW r \in Runner, NEW s \in Session, NEW w \in Work, CapturesTo(r, s, w)
  PROVE  FolderInv'
<1> DEFINE here == WorkOf(r, s)
           new == [evidence |-> here.evidence, source |-> here.source]
<1>1. /\ Holds(r, s, w) /\ UNCHANGED <<evidence, summary>>
      /\ UNCHANGED handoffs \/ handoffs' = [handoffs EXCEPT ![s] = new]
      /\ w.evidence \in {here.evidence, evidence[s], 0}
  BY DEF CapturesTo
<1>2. /\ \A q \in Runner : Frame(q)
      /\ WorkOf(r, s)' = w
      /\ \A q \in Runner, x \in Session : q # r \/ x # s => WorkOf(q, x)' = WorkOf(q, x)
  BY <1>1, FolderTypes, HoldsFacts
<1>3. new \in Handoff /\ new.evidence = here.evidence /\ new # None
  BY FolderTypes, NoneRecordAssumption DEF Work, Handoff
<1>4. here.evidence <= evidence[s] /\ 0 <= evidence[s] /\ evidence[s] <= evidence[s]
  BY FolderTypes DEF FolderInv
<1> HIDE DEF new
<1>5. \A x \in Session : \/ handoffs'[x] = handoffs[x]
                         \/ handoffs'[x] # None /\ handoffs'[x].evidence <= evidence'[x]
  BY <1>1, <1>3, <1>4, FolderTypes
<1>6. ASSUME NEW q \in Runner, NEW x \in Session PROVE WorkOf(q, x)'.evidence <= evidence'[x]
  BY <1>1, <1>2, <1>4 DEF FolderInv
<1>7. ASSUME NEW q \in Runner, NEW x \in Session, At(q, x, "terminate")' PROVE handoffs'[x] # None
  <2>1. CASE q = r /\ x = s
    <3>1. w.at = "terminate"
      BY <1>2, <1>7, <2>1 DEF At
    <3> QED
      BY <2>1, <3>1 DEF CapturesTo
  <2>2. CASE q # r \/ x # s
    <3>1. At(q, x, "terminate")
      BY <1>2, <1>7, <2>2 DEF At
    <3> QED
      BY <1>5, <3>1 DEF FolderInv
  <2> QED
    BY <2>1, <2>2
<1> QED
  BY <1>1, <1>2, <1>5, <1>6, <1>7, FolderTypes, FolderStep DEF Frame

LEMMA ClosingFolder ==
  ASSUME Discipline, FolderInv, NEW r \in Runner, NEW v \in Run, ClosesTo(r, v)
  PROVE  FolderInv'
<1>1. /\ run'[r] = v /\ \A q \in Runner : q # r => run'[q] = run[q]
      /\ UNCHANGED <<evidence, handoffs>>
  BY FolderTypes, BecomesFacts DEF ClosesTo
<1>2. ASSUME NEW q \in Runner, NEW x \in Session
      PROVE  /\ WorkOf(q, x)'.evidence <= evidence'[x]
             /\ At(q, x, "terminate")' => handoffs'[x] # None
  <2>1. CASE q = r
    <3>1. /\ v.work[x].evidence \in {WorkOf(r, x).evidence, 0}
          /\ v.work[x].at # "terminate"
      BY DEF ClosesTo
    <3> QED
      BY <1>1, <2>1, <3>1, FolderTypes DEF FolderInv, WorkOf, At
  <2>2. CASE q # r
    BY <1>1, <2>2 DEF FolderInv, WorkOf, At
  <2> QED
    BY <2>1, <2>2
<1>3. \A q \in Runner :
        run'[q].pc = "brief" => \/ run'[q].listing = handoffs
                                \/ run[q].pc = "brief" /\ run'[q].listing = run[q].listing
  BY <1>1 DEF ClosesTo
<1>4. \/ UNCHANGED summary
      \/ \E q \in Runner : run[q].pc = "brief" /\ summary' = run[q].listing
  BY DEF ClosesTo
<1> QED
  BY <1>1, <1>2, <1>3, <1>4, FolderTypes, FolderStep

LEMMA AlwaysFolder == Spec => [](Discipline /\ FolderInv)
<1>1. Init => FolderInv
  <2> SUFFICES ASSUME Init PROVE FolderInv
    OBVIOUS
  <2>1. \A r \in Runner : run[r] = Idle
    BY DEF Init
  <2>2. \A x \in Session : Idle.work[x].evidence = 0
    BY DEF Idle, NoWork
  <2> QED
    BY <2>1, <2>2, IdleFacts DEF Init, FolderInv, At, WorkOf, NoHandoffs
<1>2. ASSUME Discipline, FolderInv, TheWorldTurns PROVE FolderInv'
  <2>1. /\ UNCHANGED <<run, handoffs, summary>>
        /\ \A r \in Runner, s \in Session : WorkOf(r, s)' = WorkOf(r, s)
        /\ \A s \in Session : evidence'[s] \in {evidence[s], evidence[s] + 1}
    BY <1>2 DEF TheWorldTurns, WorkOf
  <2>2. \A r \in Runner, s \in Session : WorkOf(r, s)'.evidence <= evidence'[s]
    BY <1>2, <2>1, FolderTypes DEF FolderInv
  <2>3. \A r \in Runner, s \in Session : At(r, s, "terminate")' => handoffs'[s] # None
    BY <1>2, <2>1 DEF FolderInv, At
  <2> QED
    BY <1>2, <2>1, <2>2, <2>3, FolderTypes, FolderStep DEF FolderInv
<1>3. Discipline /\ FolderInv /\ [Next]_vars => FolderInv'
  BY <1>2, NextStep, CaptureFolder, ClosingFolder
<1> QED
  BY <1>1, <1>3, AlwaysDiscipline, PTL DEF Spec

\* No handoff tells of a state its session has not yet been in, and the briefing tells of
\* no session without a handoff.
FolderTellsOfWhatWas ==
  /\ \A s \in Session : handoffs[s] # None => handoffs[s].evidence <= evidence[s]
  /\ summary # None => \A s \in Session : summary[s] # None => handoffs[s] # None

\* However many closings overlap: nothing in the folder of the day is invented.
THEOREM FolderIsTrue == Spec => []FolderTellsOfWhatWas
<1>1. FolderInv => FolderTellsOfWhatWas
  BY DEF FolderInv, FolderTellsOfWhatWas
<1> QED
  BY <1>1, AlwaysFolder, PTL

\* A session is signalled only by a run that may end it and with a handoff of it on disk.
EndsOnlyWithAHandoff ==
  [][\A r \in Runner, s \in Session :
       run[r] # run'[r] /\ At(r, s, "terminate") /\ proc'[s] # proc[s] =>
         /\ s \in CanTerminate
         /\ ~run[r].dryRun /\ ~run[r].skipTermination
         /\ handoffs[s] # None]_vars

\* D-002 as far as it goes when closings overlap: no run ends a session of which nothing was
\* captured, though the handoff may be another run's, of an earlier state.
THEOREM TerminationNeedsAHandoff == Spec => EndsOnlyWithAHandoff
<1>1. ASSUME Discipline, FolderInv, NEW r \in Runner, NEW s \in Session, At(r, s, "terminate")
      PROVE  /\ s \in CanTerminate
             /\ ~run[r].dryRun /\ ~run[r].skipTermination
             /\ handoffs[s] # None
  BY <1>1 DEF Discipline, WorkRule, FolderInv, At
<1>2. Discipline /\ FolderInv /\ [Next]_vars =>
        [\A r \in Runner, s \in Session :
           run[r] # run'[r] /\ At(r, s, "terminate") /\ proc'[s] # proc[s] =>
             /\ s \in CanTerminate
             /\ ~run[r].dryRun /\ ~run[r].skipTermination
             /\ handoffs[s] # None]_vars
  BY <1>1
<1> QED
  BY <1>2, AlwaysFolder, PTL DEF Spec, EndsOnlyWithAHandoff

-----------------------------------------------------------------------------
(* The pool of a closing.                                                    *)

\* No more captures under way at once than captureConcurrency.
PoolIsBounded == \A r \in Runner : IsFiniteSet(Busy(r)) /\ Cardinality(Busy(r)) <= Limit

LEMMA CapturePool ==
  ASSUME Discipline, PoolIsBounded, NEW r \in Runner, NEW s \in Session, NEW w \in Work, CapturesTo(r, s, w)
  PROVE  PoolIsBounded'
<1>1. /\ WorkOf(r, s)' = w
      /\ \A q \in Runner, x \in Session : q # r \/ x # s => WorkOf(q, x)' = WorkOf(q, x)
  BY FolderTypes, HoldsFacts DEF CapturesTo
<1>2. ASSUME NEW q \in Runner, q # r PROVE Busy(q)' = Busy(q)
  BY <1>1, <1>2 DEF Busy
<1>3. IsFiniteSet(Busy(r)) /\ Cardinality(Busy(r)) <= Limit /\ Cardinality(Busy(r)) \in Nat
  BY FS_CardinalityType DEF PoolIsBounded
<1>4. CASE w.at \in Capturing /\ s \notin Busy(r)
  <2>1. Busy(r)' = Busy(r) \cup {s}
    BY <1>1, <1>4 DEF Busy
  <2>2. Cardinality(Busy(r)) < Limit
    BY <1>4 DEF CapturesTo, Busy
  <2>3. IsFiniteSet(Busy(r)') /\ Cardinality(Busy(r)') = Cardinality(Busy(r)) + 1
    BY <1>3, <1>4, <2>1, FS_AddElement
  <2>4. Cardinality(Busy(r)') <= Limit
    BY <1>3, <2>2, <2>3, LimitAssumption
  <2> QED
    BY <1>2, <2>3, <2>4 DEF PoolIsBounded
<1>5. CASE ~(w.at \in Capturing /\ s \notin Busy(r))
  <2>1. Busy(r)' \subseteq Busy(r)
    BY <1>1, <1>5 DEF Busy
  <2>2. /\ IsFiniteSet(Busy(r)') /\ Cardinality(Busy(r)') <= Cardinality(Busy(r))
        /\ Cardinality(Busy(r)') \in Nat
    BY <1>3, <2>1, FS_Subset, FS_CardinalityType
  <2>3. Cardinality(Busy(r)') <= Limit
    BY <1>3, <2>2, LimitAssumption
  <2> QED
    BY <1>2, <2>2, <2>3 DEF PoolIsBounded
<1> QED
  BY <1>4, <1>5

\* A closing never captures more sessions at once than it is configured to, however many
\* sessions there are, fail or run out of time: a worker takes the next one only when the
\* one before it is done with.
THEOREM PoolNeverOverflows == Spec => []PoolIsBounded
<1>e. IsFiniteSet({}) /\ Cardinality({}) = 0
  BY FS_EmptySet
<1>0. 0 <= Limit
  BY LimitAssumption
<1>1. Init => PoolIsBounded
  <2> SUFFICES ASSUME Init PROVE PoolIsBounded
    OBVIOUS
  <2>1. ASSUME NEW r \in Runner PROVE Busy(r) = {}
    <3>1. run[r] = Idle
      BY DEF Init
    <3> QED
      BY <3>1, IdleFacts DEF Busy, WorkOf, Capturing
  <2> QED
    BY <1>e, <1>0, <2>1 DEF PoolIsBounded
<1>2. ASSUME Discipline, PoolIsBounded, NEW r \in Runner, NEW v \in Run, ClosesTo(r, v)
      PROVE  PoolIsBounded'
  <2>1. /\ run'[r] = v /\ \A q \in Runner : q # r => run'[q] = run[q]
        /\ \A x \in Session : v.work[x].at \notin Capturing
    BY <1>2, FolderTypes, BecomesFacts DEF ClosesTo, Capturing
  <2>2. Busy(r)' = {}
    BY <2>1 DEF Busy, WorkOf
  <2>3. \A q \in Runner : q # r => Busy(q)' = Busy(q)
    BY <2>1 DEF Busy, WorkOf
  <2> QED
    BY <1>e, <1>0, <1>2, <2>2, <2>3 DEF PoolIsBounded
<1>3. ASSUME PoolIsBounded, TheWorldTurns PROVE PoolIsBounded'
  BY <1>3 DEF TheWorldTurns, PoolIsBounded, Busy, WorkOf
<1>4. Discipline /\ PoolIsBounded /\ [Next]_vars => PoolIsBounded'
  BY <1>2, <1>3, NextStep, CapturePool
<1> QED
  BY <1>1, <1>4, AlwaysDiscipline, PTL DEF Spec

-----------------------------------------------------------------------------
(* Closings that do not overlap. *)

OneRunner == \A q, r \in Runner : q = r

\* Nothing on disk is ahead of the session it tells of, and, from the comparison on, a
\* capture stands for at least what is there; from its write on it is what is there.
Truth(r, s) ==
  LET w == WorkOf(r, s) IN
  /\ w.at \in Capturing \ {"gather"} => w.evidence <= evidence[s]
  /\ w.at \in Capturing \ {"gather", "verify", "terminate"} /\ handoffs[s] # None =>
       handoffs[s].evidence <= w.evidence
  /\ w.at \in {"register", "write", "spawn", "generate", "save"} /\ handoffs[s] # None =>
       (handoffs[s].evidence = w.evidence => handoffs[s].source # "model")
  /\ w.at \in {"verify", "terminate"} =>
       handoffs[s] # None /\ handoffs[s].evidence = w.evidence

HandoffInv ==
  /\ \A s \in Session : handoffs[s] # None => handoffs[s].evidence <= evidence[s]
  /\ \A r \in Runner, s \in Session : Truth(r, s)

\* A step of one capture: its own truth is all there is to keep.
LEMMA CaptureTruth ==
  ASSUME OneRunner, Discipline, HandoffInv, NEW r \in Runner, NEW s \in Session,
         NEW w \in Work, Holds(r, s, w), UNCHANGED evidence,
         \A x \in Session : x # s => handoffs'[x] = handoffs[x],
         handoffs'[s] # None => handoffs'[s].evidence <= evidence[s],
         WorkOf(r, s)' = w => Truth(r, s)'
  PROVE  HandoffInv'
<1>1. /\ WorkOf(r, s)' = w
      /\ \A q \in Runner, x \in Session : q # r \/ x # s => WorkOf(q, x)' = WorkOf(q, x)
  BY HoldsFacts DEF Discipline, TypeOK, RunType
<1>2. ASSUME NEW q \in Runner, NEW x \in Session PROVE Truth(q, x)'
  <2>1. q = r
    BY DEF OneRunner
  <2>2. CASE x = s
    BY <1>1, <2>1, <2>2
  <2>3. CASE x # s
    BY <1>1, <2>3 DEF HandoffInv, Truth
  <2> QED
    BY <2>2, <2>3
<1> QED
  BY <1>2 DEF HandoffInv

LEMMA CaptureHandoffs ==
  ASSUME OneRunner, Discipline, HandoffInv, NEW r \in Runner, NEW s \in Session, Captures(r, s)
  PROVE  HandoffInv'
<1>t. RunType
  BY DEF Discipline, TypeOK, RunType
<1>w. WorkOf(r, s) \in Work
  BY <1>t, WorkType
<1>h. Truth(r, s) /\ (handoffs[s] # None => handoffs[s].evidence <= evidence[s])
  BY DEF HandoffInv
<1>y. /\ evidence[s] \in Nat
      /\ handoffs[s] # None => handoffs[s].evidence \in Nat /\ handoffs[s].source \in Source
      /\ handoffs \in [Session -> NoneOr(Handoff)]
  BY DEF Discipline, TypeOK, NoneOr, Handoff
<1>o. ASSUME Out(r, s), UNCHANGED evidence,
             \A x \in Session : x # s => handoffs'[x] = handoffs[x],
             handoffs'[s] # None => handoffs'[s].evidence <= evidence[s]
      PROVE  HandoffInv'
  <2>1. WorkOf(r, s)' = NoWork => Truth(r, s)'
    BY DEF Truth, NoWork, Capturing
  <2> QED
    BY <1>o, <2>1, NoWorkType, CaptureTruth DEF Out
<1> DEFINE here == WorkOf(r, s)
\* The work goes on, without a write, to where the same is asked of it as before.
<1>g. ASSUME NEW w \in Work, Holds(r, s, w), UNCHANGED <<evidence, handoffs>>,
             w.evidence = here.evidence,
             \/ w.at \notin Capturing \/ w.at = "gather"
             \/ /\ here.at \in {"register", "write", "spawn", "generate"}
                /\ w.at \in {"write", "spawn", "generate", "save"}
             \/ here.at = "verify" /\ w.at = "terminate"
      PROVE  HandoffInv'
  <2>1. WorkOf(r, s)' = w => Truth(r, s)'
    BY <1>g, <1>h DEF Truth, Capturing
  <2> QED
    BY <1>g, <1>h, <2>1, CaptureTruth
<1>1. CASE Take(r, s)
  <2>1. UNCHANGED <<evidence, handoffs>>
    BY <1>1 DEF Take, disk, world
  <2>2. CASE To(r, s, "gather")
    <3> DEFINE w == [here EXCEPT !.at = "gather"]
    <3>1. w \in Work /\ w.at = "gather" /\ w.evidence = here.evidence
      BY <1>w DEF Work, Capturing
    <3>2. Holds(r, s, w)
      BY <2>2 DEF To
    <3> HIDE DEF w, here
    <3> QED
      BY <1>g, <2>1, <3>1, <3>2
  <2> QED
    BY <1>1, <1>o, <1>h, <2>1, <2>2 DEF Take
<1>2. CASE Gather(r, s)
  <2> DEFINE w == [here EXCEPT !.at = "compare", !.evidence = evidence[s]]
  <2>1. w \in Work /\ w.at = "compare" /\ w.evidence = evidence[s]
    BY <1>w, <1>y DEF Work, Capturing
  <2>2. Holds(r, s, w) /\ UNCHANGED <<evidence, handoffs>>
    BY <1>2 DEF Gather, disk, world
  <2> HIDE DEF w
  <2>3. WorkOf(r, s)' = w => Truth(r, s)'
    BY <1>h, <1>y, <2>1, <2>2 DEF Truth
  <2> QED
    BY <1>h, <2>1, <2>2, <2>3, CaptureTruth
<1>3. CASE Compare(r, s)
  <2>0. here.at = "compare" /\ UNCHANGED <<evidence, handoffs>>
    BY <1>3 DEF Compare, At, disk, world
  <2>1. CASE duplicateToday(r, s)
    BY <1>3, <1>o, <1>h, <2>0, <2>1 DEF Compare
  <2>2. CASE ~duplicateToday(r, s)
    <3> DEFINE w == [here EXCEPT !.at = resolveGeneration(r, s)]
    <3>1. resolveGeneration(r, s) \in {"generate", "save", "register"}
      BY DEF resolveGeneration
    <3>2. w \in Work /\ w.at = resolveGeneration(r, s) /\ w.evidence = here.evidence
      BY <1>w, <3>1 DEF Work, Capturing
    <3>3. Holds(r, s, w)
      BY <1>3, <2>2 DEF Compare, To
    <3> HIDE DEF w
    <3>4. WorkOf(r, s)' = w => Truth(r, s)'
      BY <1>h, <2>0, <2>2, <3>1, <3>2 DEF Truth, Capturing, duplicateToday
    <3> QED
      BY <1>h, <2>0, <3>2, <3>3, <3>4, CaptureTruth
  <2> QED
    BY <2>1, <2>2
<1>4. CASE ReadForks(r, s)
  <2> DEFINE w == [here EXCEPT !.at = "write", !.fork = lastFork + 1, !.registry = forks]
  <2>n. lastFork + 1 \in NoneOr(Int) /\ forks \in SUBSET Entry
    BY DEF Discipline, TypeOK, NoneOr
  <2>1. w \in Work /\ w.at = "write" /\ w.evidence = here.evidence
    BY <1>w, <2>n DEF Work, Capturing
  <2>2. Holds(r, s, w) /\ here.at = "register" /\ UNCHANGED <<evidence, handoffs>>
    BY <1>4 DEF ReadForks, At, disk, world
  <2> HIDE DEF w, here
  <2> QED
    BY <1>g, <2>1, <2>2
<1>5. CASE WriteForks(r, s)
  <2>0. here.at = "write" /\ UNCHANGED <<evidence, handoffs>>
    BY <1>5 DEF WriteForks, At, world
  <2>1. CASE Holds(r, s, [here EXCEPT !.at = "spawn", !.registry = {}])
    <3> DEFINE w == [here EXCEPT !.at = "spawn", !.registry = {}]
    <3>1. w \in Work /\ w.at = "spawn" /\ w.evidence = here.evidence
      BY <1>w DEF Work, Capturing
    <3>2. Holds(r, s, w)
      BY <2>1
    <3> HIDE DEF w, here
    <3> QED
      BY <1>g, <2>0, <3>1, <3>2
  <2>2. CASE Holds(r, s, [here EXCEPT !.at = "save", !.registry = {}, !.fork = None])
    <3> DEFINE w == [here EXCEPT !.at = "save", !.registry = {}, !.fork = None]
    <3>1. w \in Work /\ w.at = "save" /\ w.evidence = here.evidence
      BY <1>w DEF Work, Capturing, NoneOr
    <3>2. Holds(r, s, w)
      BY <2>2
    <3> HIDE DEF w, here
    <3> QED
      BY <1>g, <2>0, <3>1, <3>2
  <2> QED
    BY <1>5, <2>1, <2>2 DEF WriteForks
<1>6. CASE Spawn(r, s)
  <2> DEFINE w == [here EXCEPT !.at = "generate"]
  <2>1. w \in Work /\ w.at = "generate" /\ w.evidence = here.evidence
    BY <1>w DEF Work, Capturing
  <2>2. Holds(r, s, w) /\ here.at = "spawn" /\ UNCHANGED <<evidence, handoffs>>
    BY <1>6 DEF Spawn, At, To, disk, world
  <2> HIDE DEF w, here
  <2> QED
    BY <1>g, <2>1, <2>2
<1>7. CASE Generate(r, s)
  <2>0. here.at = "generate" /\ UNCHANGED <<evidence, handoffs>>
    BY <1>7 DEF Generate, At, disk, world
  <2>1. PICK source \in Source :
          Holds(r, s, [here EXCEPT !.at = "save", !.source = source, !.fork = None])
    BY <1>7 DEF Generate
  <2> DEFINE w == [here EXCEPT !.at = "save", !.source = source, !.fork = None]
  <2>2. w \in Work /\ w.at = "save" /\ w.evidence = here.evidence
    BY <1>w DEF Work, Capturing, NoneOr
  <2>3. Holds(r, s, w)
    BY <2>1
  <2> HIDE DEF w, here
  <2> QED
    BY <1>g, <2>0, <2>2, <2>3
<1>8. CASE SaveHandoff(r, s)
  <2>0. here.at = "save" /\ UNCHANGED evidence
    BY <1>8 DEF SaveHandoff, At, world
  <2>1. CASE Out(r, s) /\ UNCHANGED handoffs
    BY <1>o, <1>h, <2>0, <2>1
  <2>2. CASE /\ handoffs' = [handoffs EXCEPT ![s] = [evidence |-> here.evidence, source |-> here.source]]
             /\ To(r, s, "verify")
    <3> DEFINE w == [here EXCEPT !.at = "verify"]
    <3>1. w \in Work /\ w.at = "verify" /\ w.evidence = here.evidence
      BY <1>w DEF Work, Capturing
    <3>2. Holds(r, s, w)
      BY <2>2 DEF To
    <3>3. /\ handoffs'[s] = [evidence |-> here.evidence, source |-> here.source]
          /\ \A x \in Session : x # s => handoffs'[x] = handoffs[x]
      BY <1>y, <2>2
    <3>4. handoffs'[s].evidence = here.evidence /\ handoffs'[s] # None
      <4>1. [evidence |-> here.evidence, source |-> here.source] \in Handoff
        BY <1>w DEF Work, Handoff
      <4> QED
        BY <3>3, <4>1, NoneRecordAssumption
    <3>5. here.evidence <= evidence[s]
      BY <1>h, <2>0 DEF Truth, Capturing
    <3> HIDE DEF w
    <3>6. WorkOf(r, s)' = w => Truth(r, s)'
      BY <2>0, <3>1, <3>4, <3>5 DEF Truth
    <3> QED
      BY <2>0, <3>1, <3>2, <3>3, <3>4, <3>5, <3>6, CaptureTruth
  <2> QED
    BY <1>8, <2>1, <2>2 DEF SaveHandoff
<1>9. CASE Verify(r, s)
  <2>0. here.at = "verify" /\ UNCHANGED <<evidence, handoffs>>
    BY <1>9 DEF Verify, At, disk, world
  <2>1. CASE To(r, s, "terminate")
    <3> DEFINE w == [here EXCEPT !.at = "terminate"]
    <3>1. w \in Work /\ w.at = "terminate" /\ w.evidence = here.evidence
      BY <1>w DEF Work, Capturing
    <3>2. Holds(r, s, w)
      BY <2>1 DEF To
    <3> HIDE DEF w, here
    <3> QED
      BY <1>g, <2>0, <3>1, <3>2
  <2> QED
    BY <1>9, <1>o, <1>h, <2>0, <2>1 DEF Verify
<1>10. CASE Terminate(r, s)
  BY <1>10, <1>o, <1>h DEF Terminate, disk
<1> QED
  BY <1>1, <1>2, <1>3, <1>4, <1>5, <1>6, <1>7, <1>8, <1>9, <1>10 DEF Captures

\* A step of the run itself has no capture under way before or after it.
LEMMA RunHandoffs ==
  ASSUME OneRunner, Discipline, HandoffInv, NEW r \in Runner, Discover(r) \/ Finishes(r) \/ Crash(r)
  PROVE  HandoffInv'
<1>t. RunType /\ run[r] \in Run
  BY DEF Discipline, TypeOK, RunType
<1>u. UNCHANGED <<handoffs, evidence>>
  BY DEF Discover, Finishes, Crash, ListHandoffs, SaveBriefing, ReadEntries, DeleteForks,
         dropHandledEntries, disk, world
<1>k. ASSUME NEW v \in Run, Becomes(r, v), \A x \in Session : v.work[x].at \notin Capturing
      PROVE  HandoffInv'
  <2>1. run'[r] = v
    BY <1>t, <1>k, BecomesFacts
  <2>2. ASSUME NEW q \in Runner, NEW x \in Session PROVE Truth(q, x)'
    <3>1. q = r
      BY DEF OneRunner
    <3>2. WorkOf(q, x)'.at \notin Capturing
      BY <1>k, <2>1, <3>1 DEF WorkOf
    <3> QED
      BY <3>2 DEF Truth, Capturing
  <2> QED
    BY <1>u, <2>2 DEF HandoffInv
<1>e. ASSUME Ended(r) PROVE HandoffInv'
  BY <1>e, <1>k, IdleType, IdleFacts DEF Ended, Capturing
<1>o. ASSUME NEW v \in Run, Becomes(r, v), v.work = run[r].work,
             \A x \in Session : WorkOf(r, x).at = "out"
      PROVE  HandoffInv'
  BY <1>o, <1>k DEF WorkOf, Capturing
<1>1. CASE Discover(r)
  BY <1>1, <1>t, <1>k, DiscoverFacts DEF Capturing
<1>2. CASE ListHandoffs(r)
  <2>1. \A x \in Session : WorkOf(r, x).at = "out"
    BY <1>2 DEF ListHandoffs, Drained, NoWork
  <2> DEFINE v == [run[r] EXCEPT !.pc = "brief", !.listing = handoffs]
  <2>2. v \in Run /\ v.work = run[r].work
    BY <1>t DEF Run, Discipline, TypeOK
  <2>3. Ended(r) \/ Becomes(r, v)
    BY <1>2 DEF ListHandoffs
  <2> HIDE DEF v
  <2> QED
    BY <1>e, <1>o, <2>1, <2>2, <2>3
<1>3. CASE SaveBriefing(r) \/ ReadEntries(r) \/ DeleteForks(r) \/ dropHandledEntries(r)
  <2>1. \A x \in Session : WorkOf(r, x).at = "out"
    BY <1>3, OutOfPool DEF SaveBriefing, ReadEntries, DeleteForks, dropHandledEntries
  <2>2. CASE SaveBriefing(r)
    <3> DEFINE v == [run[r] EXCEPT !.pc = "cleanup"]
    <3>1. v \in Run /\ v.work = run[r].work
      BY <1>t DEF Run
    <3>2. Ended(r) \/ Becomes(r, v)
      BY <2>2 DEF SaveBriefing
    <3> HIDE DEF v
    <3> QED
      BY <1>e, <1>o, <2>1, <3>1, <3>2
  <2>3. CASE ReadEntries(r)
    <3> DEFINE v == [run[r] EXCEPT !.pc = "delete", !.entries = forks]
    <3>1. v \in Run /\ v.work = run[r].work
      BY <1>t DEF Run, Discipline, TypeOK
    <3>2. Becomes(r, v)
      BY <2>3 DEF ReadEntries
    <3> HIDE DEF v
    <3> QED
      BY <1>o, <2>1, <3>1, <3>2
  <2>4. CASE DeleteForks(r)
    <3>1. PICK gone \in SUBSET planForkCleanup(run[r].entries) :
            Ended(r) \/ Becomes(r, [run[r] EXCEPT !.pc = "rewrite", !.handled = gone])
      BY <2>4 DEF DeleteForks
    <3> DEFINE v == [run[r] EXCEPT !.pc = "rewrite", !.handled = gone]
    <3>2. gone \subseteq Int
      BY <1>t DEF Run, Entry, planForkCleanup, IdsOf
    <3>3. v \in Run /\ v.work = run[r].work
      BY <1>t, <3>2 DEF Run
    <3>4. Ended(r) \/ Becomes(r, v)
      BY <3>1
    <3> HIDE DEF v
    <3> QED
      BY <1>e, <1>o, <2>1, <3>3, <3>4
  <2> QED
    BY <1>e, <1>3, <2>2, <2>3, <2>4 DEF dropHandledEntries
<1> QED
  BY <1>e, <1>1, <1>2, <1>3 DEF Finishes, Crash

\* The evidence of a session only grows; nothing else of the environment matters here.
LEMMA WorldHandoffs ==
  ASSUME Discipline, HandoffInv,
         \/ \E f \in spawned : ForkWrites(f)
         \/ \E s \in Session : Evolves(s) \/ Ends(s)
         \/ UNCHANGED vars
  PROVE  HandoffInv'
<1>1. UNCHANGED <<run, handoffs>>
  BY DEF ForkWrites, Evolves, Ends, vars, disk
<1>2. /\ evidence \in [Session -> Nat]
      /\ \A s \in Session : handoffs[s] # None => handoffs[s].evidence \in Nat
      /\ \A r \in Runner, s \in Session : WorkOf(r, s).evidence \in Nat
  BY WorkType DEF Discipline, TypeOK, RunType, NoneOr, Handoff, Work
<1>3. \A s \in Session : evidence'[s] \in Nat /\ evidence[s] <= evidence'[s]
  BY <1>2 DEF ForkWrites, Evolves, Ends, vars, world
<1>4. \A r \in Runner, s \in Session : WorkOf(r, s)' = WorkOf(r, s)
  BY <1>1 DEF WorkOf
<1>5. ASSUME NEW r \in Runner, NEW s \in Session PROVE Truth(r, s)'
  BY <1>1, <1>2, <1>3, <1>4 DEF HandoffInv, Truth
<1>6. ASSUME NEW s \in Session, handoffs'[s] # None PROVE handoffs'[s].evidence <= evidence'[s]
  BY <1>1, <1>2, <1>3, <1>6 DEF HandoffInv
<1> QED
  BY <1>5, <1>6 DEF HandoffInv

LEMMA InitHandoffs == Init => HandoffInv
<1> SUFFICES ASSUME Init PROVE HandoffInv
  OBVIOUS
<1>1. \A r \in Runner, s \in Session : WorkOf(r, s) = NoWork
  BY DEF Init, Idle, WorkOf
<1>2. \A s \in Session : handoffs[s] = None
  BY DEF Init, NoHandoffs
<1> QED
  BY <1>1, <1>2 DEF HandoffInv, Truth, NoWork, Capturing

LEMMA NextHandoffs == OneRunner => (Discipline /\ HandoffInv /\ [Next]_vars => HandoffInv')
<1> SUFFICES ASSUME OneRunner, Discipline, HandoffInv, [Next]_vars PROVE HandoffInv'
  OBVIOUS
<1>1. ASSUME NEW r \in Runner, NEW s \in Session, Captures(r, s) PROVE HandoffInv'
  BY <1>1, CaptureHandoffs
<1>2. ASSUME NEW r \in Runner, Discover(r) \/ Finishes(r) \/ Crash(r) PROVE HandoffInv'
  BY <1>2, RunHandoffs
<1>3. CASE \/ \E f \in spawned : ForkWrites(f)
           \/ \E s \in Session : Evolves(s) \/ Ends(s)
           \/ UNCHANGED vars
  BY <1>3, WorldHandoffs
<1> QED
  BY <1>1, <1>2, <1>3 DEF Next

LEMMA AlwaysHandoffs ==
  ASSUME OneRunner
  PROVE  Spec => [](Discipline /\ HandoffInv)
<1>1. HandoffInv /\ Discipline /\ [Next]_vars => HandoffInv'
  BY NextHandoffs
<1> QED
  BY <1>1, InitHandoffs, AlwaysDiscipline, PTL DEF Spec

\* Closings that do not overlap end a session only when its project lets them, and only
\* with the handoff of what they have seen of it on disk.
THEOREM TerminationFollowsCapture ==
  ASSUME OneRunner
  PROVE  Spec => TerminatesOnlyTheCaptured
<1>1. ASSUME Discipline, HandoffInv, Next, NEW r \in Runner, NEW s \in Session,
             run[r] # run'[r], At(r, s, "terminate"), proc'[s] # proc[s]
      PROVE  /\ s \in CanTerminate
             /\ ~run[r].dryRun /\ ~run[r].skipTermination
             /\ handoffs[s] # None
             /\ handoffs[s].evidence = WorkOf(r, s).evidence
  BY <1>1 DEF Discipline, WorkRule, HandoffInv, Truth, At
<1>2. Discipline /\ HandoffInv /\ [Next]_vars =>
        [\A r \in Runner, s \in Session :
           run[r] # run'[r] /\ At(r, s, "terminate") /\ proc'[s] # proc[s] =>
             /\ s \in CanTerminate
             /\ ~run[r].dryRun /\ ~run[r].skipTermination
             /\ handoffs[s] # None
             /\ handoffs[s].evidence = WorkOf(r, s).evidence]_vars
  BY <1>1
<1> QED
  BY <1>2, AlwaysHandoffs, PTL DEF Spec, TerminatesOnlyTheCaptured

\* Closings that do not overlap implement the folder of the day: handoffs stay, never go
\* back to older evidence, and what the model wrote of a state is not written over.
THEOREM Implementation ==
  ASSUME OneRunner
  PROVE  Spec => ImplementsDayHandoffs
<1>1. Init => DayFolder!Init
  BY DEF Init, DayFolder!Init, NoHandoffs
<1>2. ASSUME Discipline, HandoffInv, [Next]_vars, handoffs' # handoffs PROVE DayFolder!Next
  <2>1. PICK r \in Runner, s \in Session : SaveHandoff(r, s)
    <3>1. CASE \E r \in Runner : Discover(r) \/ Finishes(r) \/ Crash(r)
      BY <1>2, <3>1 DEF Discover, Crash, Finishes, ListHandoffs, SaveBriefing, ReadEntries,
                        DeleteForks, dropHandledEntries, disk
    <3>2. CASE \E r \in Runner, s \in Session : Captures(r, s)
      BY <1>2, <3>2 DEF Captures, Take, Gather, Compare, ReadForks, WriteForks, Spawn, Generate,
                        Verify, Terminate, disk
    <3>3. CASE \/ \E f \in spawned : ForkWrites(f)
               \/ \E s \in Session : Evolves(s) \/ Ends(s)
               \/ UNCHANGED vars
      BY <1>2, <3>3 DEF ForkWrites, Evolves, Ends, vars, disk
    <3> QED
      BY <1>2, <3>1, <3>2, <3>3 DEF Next
  <2> DEFINE w == WorkOf(r, s)
             new == [evidence |-> w.evidence, source |-> w.source]
  <2>2. w \in Work
    BY <1>2, WorkType DEF Discipline, TypeOK, RunType
  <2>3. At(r, s, "save") /\ handoffs' = [handoffs EXCEPT ![s] = new]
    BY <1>2, <2>1 DEF SaveHandoff
  <2>4. handoffs \in [Session -> NoneOr(Handoff)]
    BY <1>2 DEF Discipline, TypeOK
  <2>5. new \in Handoff
    BY <2>2 DEF Work, Handoff
  <2>6. /\ handoffs'[s] = new
        /\ \A other \in Session \ {s} : handoffs'[other] = handoffs[other]
    BY <2>3, <2>4
  <2>7. ASSUME handoffs[s] # None PROVE DayFolder!Supersedes(new, handoffs[s])
    <3>1. /\ handoffs[s].evidence <= w.evidence
          /\ handoffs[s].evidence = w.evidence => handoffs[s].source # "model"
      BY <1>2, <2>3, <2>7 DEF HandoffInv, Truth, At, Capturing
    <3>2. handoffs[s].evidence \in Nat /\ w.evidence \in Nat
      BY <2>2, <2>4, <2>7 DEF NoneOr, Handoff, Work
    <3> QED
      BY <3>1, <3>2 DEF DayFolder!Supersedes
  <2>8. DayFolder!Handoff = Handoff
    BY DEF DayFolder!Handoff, DayFolder!Source, Handoff, Source
  <2>9. DayFolder!Capture(s)
    BY <2>5, <2>6, <2>7, <2>8 DEF DayFolder!Capture
  <2> QED
    BY <2>9 DEF DayFolder!Next
<1>3. Discipline /\ HandoffInv /\ [Next]_vars => [DayFolder!Next]_handoffs
  BY <1>2
<1> QED
  BY <1>1, <1>3, AlwaysHandoffs, PTL DEF Spec, ImplementsDayHandoffs, DayFolder!Spec

-----------------------------------------------------------------------------
(* What a run that is past its pool has read is still so when it acts on it. *)

ClosingRule(r) ==
  /\ run[r].pc = "brief" => run[r].listing = handoffs
  /\ run[r].pc = "cleanup" => summary = handoffs
  /\ run[r].pc \in {"delete", "rewrite"} => run[r].entries = forks

ClosingInv == \A r \in Runner : ClosingRule(r)

\* A run whose capture takes a step is in its pool, before and after.
LEMMA CaptureInPool ==
  ASSUME Discipline, NEW r \in Runner, NEW s \in Session, Captures(r, s)
  PROVE  run[r].pc = "pool" /\ run'[r].pc = "pool"
<1>t. RunType /\ WorkOf(r, s) \in Work
  BY WorkType DEF Discipline, TypeOK, RunType
<1>1. WorkOf(r, s).at # "out"
  BY DEF Captures, Take, Gather, Compare, ReadForks, WriteForks, Spawn, Generate,
         SaveHandoff, Verify, Terminate, At
<1>2. run[r].pc = "pool"
  BY <1>1 DEF Discipline, WorkRule
<1>3. PICK w : run' = [run EXCEPT ![r].work[s] = w]
  BY DEF Captures, Take, Gather, Compare, ReadForks, WriteForks, Spawn, Generate,
         SaveHandoff, Verify, Terminate, To, Out, Holds
<1>4. run[r] \in Run /\ run'[r] = [run[r] EXCEPT !.work = [run[r].work EXCEPT ![s] = w]]
  BY <1>t, <1>3 DEF RunType
<1>5. run'[r].pc = run[r].pc
  BY <1>4 DEF Run
<1> QED
  BY <1>2, <1>5

LEMMA RunClosing ==
  ASSUME OneRunner, Discipline, ClosingInv, NEW r \in Runner,
         Discover(r) \/ Finishes(r) \/ Crash(r)
  PROVE  ClosingInv'
<1>t. RunType /\ run[r] \in Run
  BY DEF Discipline, TypeOK, RunType
<1>c. ClosingRule(r)
  BY DEF ClosingInv
<1>s. ASSUME ClosingRule(r)' PROVE ClosingInv'
  BY <1>s DEF ClosingInv, OneRunner
<1>e. ASSUME Ended(r) PROVE ClosingInv'
  <2>1. run'[r].pc = "idle"
    BY <1>t, <1>e, IdleType, IdleFacts, BecomesFacts DEF Ended
  <2> QED
    BY <1>s, <2>1 DEF ClosingRule
<1>1. CASE Discover(r)
  <2>1. run'[r].pc = "pool"
    BY <1>1, <1>t, DiscoverFacts, BecomesFacts
  <2> QED
    BY <1>s, <2>1 DEF ClosingRule
<1>2. CASE ListHandoffs(r)
  <2>1. CASE Becomes(r, [run[r] EXCEPT !.pc = "brief", !.listing = handoffs])
    <3>1. run'[r] = [run[r] EXCEPT !.pc = "brief", !.listing = handoffs]
      BY <1>t, <2>1 DEF Becomes, RunType
    <3>2. run'[r].pc = "brief" /\ run'[r].listing = handoffs
      BY <1>t, <3>1 DEF Run
    <3>3. UNCHANGED handoffs
      BY <1>2 DEF ListHandoffs, disk
    <3> QED
      BY <1>s, <3>2, <3>3 DEF ClosingRule
  <2> QED
    BY <1>e, <1>2, <2>1 DEF ListHandoffs
<1>3. CASE SaveBriefing(r)
  <2>1. CASE summary' = run[r].listing /\ Becomes(r, [run[r] EXCEPT !.pc = "cleanup"])
    <3>1. run'[r] = [run[r] EXCEPT !.pc = "cleanup"]
      BY <1>t, <2>1 DEF Becomes, RunType
    <3>2. run'[r].pc = "cleanup"
      BY <1>t, <3>1 DEF Run
    <3>3. summary' = handoffs /\ UNCHANGED handoffs
      BY <1>c, <1>3, <2>1 DEF SaveBriefing, ClosingRule
    <3> QED
      BY <1>s, <3>2, <3>3 DEF ClosingRule
  <2> QED
    BY <1>e, <1>3, <2>1 DEF SaveBriefing
<1>4. CASE ReadEntries(r)
  <2>1. run'[r] = [run[r] EXCEPT !.pc = "delete", !.entries = forks]
    BY <1>t, <1>4 DEF ReadEntries, Becomes, RunType
  <2>2. run'[r].pc = "delete" /\ run'[r].entries = forks /\ UNCHANGED forks
    BY <1>t, <1>4, <2>1 DEF Run, ReadEntries, disk
  <2> QED
    BY <1>s, <2>2 DEF ClosingRule
<1>5. CASE DeleteForks(r)
  <2>1. PICK gone : Ended(r) \/ Becomes(r, [run[r] EXCEPT !.pc = "rewrite", !.handled = gone])
    BY <1>5 DEF DeleteForks
  <2>2. CASE Becomes(r, [run[r] EXCEPT !.pc = "rewrite", !.handled = gone])
    <3>1. run'[r] = [run[r] EXCEPT !.pc = "rewrite", !.handled = gone]
      BY <1>t, <2>2 DEF Becomes, RunType
    <3>2. run'[r].pc = "rewrite" /\ run'[r].entries = run[r].entries
      BY <1>t, <3>1 DEF Run
    <3>3. run[r].pc = "delete" /\ UNCHANGED forks
      BY <1>5 DEF DeleteForks, disk
    <3> QED
      BY <1>s, <1>c, <3>2, <3>3 DEF ClosingRule
  <2> QED
    BY <1>e, <2>1, <2>2
<1> QED
  BY <1>e, <1>1, <1>2, <1>3, <1>4, <1>5 DEF Finishes, dropHandledEntries, Crash

LEMMA NextClosing == OneRunner => (ClosingInv /\ Discipline /\ [Next]_vars => ClosingInv')
<1> SUFFICES ASSUME OneRunner, Discipline, ClosingInv, [Next]_vars PROVE ClosingInv'
  OBVIOUS
<1>1. ASSUME NEW r \in Runner, NEW s \in Session, Captures(r, s) PROVE ClosingInv'
  BY <1>1, CaptureInPool DEF ClosingInv, ClosingRule, OneRunner
<1>2. ASSUME NEW r \in Runner, Discover(r) \/ Finishes(r) \/ Crash(r) PROVE ClosingInv'
  BY <1>2, RunClosing
<1>3. CASE \/ \E f \in spawned : ForkWrites(f)
           \/ \E s \in Session : Evolves(s) \/ Ends(s)
           \/ UNCHANGED vars
  <2>1. UNCHANGED <<run, handoffs, summary, forks>>
    BY <1>3 DEF ForkWrites, Evolves, Ends, vars, disk
  <2> QED
    BY <2>1 DEF ClosingInv, ClosingRule
<1> QED
  BY <1>1, <1>2, <1>3 DEF Next

LEMMA AlwaysClosing ==
  ASSUME OneRunner
  PROVE  Spec => [](Discipline /\ ClosingInv)
<1>1. Init => ClosingInv
  BY IdleFacts DEF Init, ClosingInv, ClosingRule
<1> QED
  BY <1>1, NextClosing, AlwaysDiscipline, PTL DEF Spec

\* A closing that nothing overlaps goes on to its cleanup with a briefing of every handoff
\* of the day, the captures of its whole pool included.
THEOREM BriefingTellsAll ==
  ASSUME OneRunner
  PROVE  Spec => []BriefingComplete
<1>1. ClosingInv => BriefingComplete
  BY DEF ClosingInv, ClosingRule, BriefingComplete
<1> QED
  BY <1>1, AlwaysClosing, PTL

-----------------------------------------------------------------------------
(* The registry of forks, when at most one session is captured through a fork. *)

OneDeep == \A s, t \in Deep : s = t

RegistryRule(r, s) ==
  /\ At(r, s, "write") => WorkOf(r, s).registry = forks
  /\ At(r, s, "spawn") => WorkOf(r, s).fork \in IdsOf(forks)

\* A new fork is registered with today's date, so that the cleanup of the day spares it
\* whether or not it has a transcript yet.
ForkInv ==
  /\ ForkKnown
  /\ spawned \subseteq Nat \ {0}
  /\ \A e \in forks : e.id >= 1 => e.createdAt = Today
  /\ \A r \in Runner, s \in Session : RegistryRule(r, s)
  /\ \A r \in Runner : run[r].pc = "rewrite" => run[r].handled \cap (transcripts \cup spawned) = {}

\* A capture is in the pool, where the cleanup has nothing handled.
LEMMA CaptureFork ==
  ASSUME OneRunner, Discipline, ForkInv, NEW r \in Runner, NEW s \in Session, Captures(r, s),
         ForkKnown', spawned' \subseteq Nat \ {0},
         \A e \in forks' : e.id >= 1 => e.createdAt = Today,
         \A x \in Session : RegistryRule(r, x)'
  PROVE  ForkInv'
BY CaptureInPool DEF ForkInv, OneRunner

LEMMA CaptureForks ==
  ASSUME OneRunner, OneDeep, Discipline, ForkInv, NEW r \in Runner, NEW s \in Session, Captures(r, s)
  PROVE  ForkInv'
<1>t. RunType
  BY DEF Discipline, TypeOK, RunType
<1>w. WorkOf(r, s) \in Work /\ NoWork \in Work
  BY <1>t, WorkType, NoWorkType
<1> DEFINE here == WorkOf(r, s)
\* The registry stays as it is, and the capture does not come to write or to spawn.
<1>g. ASSUME NEW w \in Work, Holds(r, s, w), UNCHANGED <<forks, transcripts>>, spawned' \subseteq spawned,
             w.at \notin {"write", "spawn"}
      PROVE  ForkInv'
  <2>1. /\ WorkOf(r, s)' = w
        /\ \A x \in Session : x # s => WorkOf(r, x)' = WorkOf(r, x)
    BY <1>t, <1>g, HoldsFacts
  <2>2. ASSUME NEW x \in Session PROVE RegistryRule(r, x)'
    <3>1. CASE x = s
      BY <1>g, <2>1, <3>1 DEF RegistryRule, At
    <3>2. CASE x # s
      BY <1>g, <2>1, <3>2 DEF ForkInv, RegistryRule, At, IdsOf
    <3> QED
      BY <3>1, <3>2
  <2>3. ForkKnown'
    BY <1>g DEF ForkInv, ForkKnown, IdsOf
  <2> QED
    BY <1>g, <2>2, <2>3, CaptureFork DEF ForkInv
<1>o. ASSUME Out(r, s), UNCHANGED <<forks, transcripts, spawned>> PROVE ForkInv'
  BY <1>o, <1>w, <1>g DEF Out, NoWork
<1>1. CASE Take(r, s) \/ Verify(r, s)
  <2>1. PICK at \in {"gather", "terminate"} : To(r, s, at) \/ Out(r, s)
    BY <1>1 DEF Take, Verify
  <2> DEFINE w == [here EXCEPT !.at = at]
  <2>2. w \in Work /\ w.at = at
    BY <1>w DEF Work, Capturing
  <2>3. Holds(r, s, w) \/ Out(r, s)
    BY <2>1 DEF To
  <2>4. UNCHANGED <<forks, transcripts, spawned>>
    BY <1>1 DEF Take, Verify, disk, claude
  <2> HIDE DEF w, here
  <2> QED
    BY <1>g, <1>o, <2>2, <2>3, <2>4
<1>2. CASE Gather(r, s)
  <2> DEFINE w == [here EXCEPT !.at = "compare", !.evidence = evidence[s]]
  <2>1. w \in Work /\ w.at = "compare"
    BY <1>w DEF Work, Capturing, Discipline, TypeOK
  <2>2. Holds(r, s, w) /\ UNCHANGED <<forks, transcripts, spawned>>
    BY <1>2 DEF Gather, disk, claude
  <2> HIDE DEF w
  <2> QED
    BY <1>g, <2>1, <2>2
<1>3. CASE Compare(r, s)
  <2> DEFINE w == [here EXCEPT !.at = resolveGeneration(r, s)]
  <2>1. resolveGeneration(r, s) \in {"generate", "save", "register"}
    BY DEF resolveGeneration
  <2>2. w \in Work /\ w.at = resolveGeneration(r, s)
    BY <1>w, <2>1 DEF Work, Capturing
  <2>3. Holds(r, s, w) \/ Out(r, s)
    BY <1>3 DEF Compare, To
  <2>4. UNCHANGED <<forks, transcripts, spawned>>
    BY <1>3 DEF Compare, disk, claude
  <2> HIDE DEF w
  <2> QED
    BY <1>g, <1>o, <2>1, <2>2, <2>3, <2>4
<1>4. CASE ReadForks(r, s)
  <2> DEFINE w == [here EXCEPT !.at = "write", !.fork = lastFork + 1, !.registry = forks]
  <2>n. lastFork + 1 \in NoneOr(Int) /\ forks \in SUBSET Entry
    BY DEF Discipline, TypeOK, NoneOr
  <2>1. w \in Work /\ w.at = "write" /\ w.registry = forks
    BY <1>w, <2>n DEF Work, Capturing
  <2>2. Holds(r, s, w) /\ UNCHANGED <<forks, transcripts, spawned>>
    BY <1>4 DEF ReadForks, disk, claude
  <2> HIDE DEF w
  <2>3. /\ WorkOf(r, s)' = w
        /\ \A x \in Session : x # s => WorkOf(r, x)' = WorkOf(r, x)
    BY <1>t, <2>1, <2>2, HoldsFacts
  <2>4. ASSUME NEW x \in Session PROVE RegistryRule(r, x)'
    <3>1. CASE x = s
      BY <2>1, <2>2, <2>3, <3>1 DEF RegistryRule, At
    <3>2. CASE x # s
      BY <2>2, <2>3, <3>2 DEF ForkInv, RegistryRule, At, IdsOf
    <3> QED
      BY <3>1, <3>2
  <2> QED
    BY <2>2, <2>4, CaptureFork DEF ForkInv, ForkKnown, IdsOf
<1>5. CASE WriteForks(r, s)
  <2>0. /\ here.at = "write" /\ here.registry = forks /\ s \in Deep
        /\ UNCHANGED <<transcripts, spawned>>
    BY <1>5 DEF WriteForks, At, claude, ForkInv, RegistryRule, Discipline, WorkRule
  <2>1. CASE /\ forks' = here.registry \cup {[id |-> here.fork, createdAt |-> Today]}
             /\ Holds(r, s, [here EXCEPT !.at = "spawn", !.registry = {}])
    <3> DEFINE w == [here EXCEPT !.at = "spawn", !.registry = {}]
               new == [id |-> here.fork, createdAt |-> Today]
    <3>1. w \in Work /\ w.at = "spawn" /\ w.fork = here.fork
      BY <1>w DEF Work, Capturing
    <3>2. Holds(r, s, w) /\ forks' = forks \cup {new}
      BY <2>0, <2>1
    <3>3. new.id = here.fork /\ new.createdAt = Today
      OBVIOUS
    <3> HIDE DEF w, new
    <3>4. /\ WorkOf(r, s)' = w
          /\ \A x \in Session : x # s => WorkOf(r, x)' = WorkOf(r, x)
      BY <1>t, <3>1, <3>2, HoldsFacts
    <3>5. IdsOf(forks) \subseteq IdsOf(forks)' /\ here.fork \in IdsOf(forks)'
      BY <3>2, <3>3 DEF IdsOf
    <3>6. ASSUME NEW x \in Session PROVE RegistryRule(r, x)'
      <4>1. CASE x = s
        BY <3>1, <3>4, <3>5, <4>1 DEF RegistryRule, At
      <4>2. CASE x # s
        <5>1. ~At(r, x, "write")
          BY <2>0, <4>2 DEF Discipline, WorkRule, OneDeep, At
        <5> QED
          BY <3>4, <3>5, <4>2, <5>1 DEF ForkInv, RegistryRule, At
      <4> QED
        BY <4>1, <4>2
    <3>7. ForkKnown'
      BY <2>0, <3>5 DEF ForkInv, ForkKnown
    <3>8. \A e \in forks' : e.id >= 1 => e.createdAt = Today
      BY <3>2, <3>3 DEF ForkInv
    <3> QED
      BY <2>0, <3>6, <3>7, <3>8, CaptureFork DEF ForkInv
  <2>2. CASE /\ Holds(r, s, [here EXCEPT !.at = "save", !.registry = {}, !.fork = None])
             /\ UNCHANGED forks
    <3> DEFINE w == [here EXCEPT !.at = "save", !.registry = {}, !.fork = None]
    <3>1. w \in Work /\ w.at = "save"
      BY <1>w DEF Work, Capturing, NoneOr
    <3>2. Holds(r, s, w)
      BY <2>2
    <3> HIDE DEF w, here
    <3> QED
      BY <1>g, <2>0, <2>2, <3>1, <3>2
  <2> QED
    BY <1>5, <2>1, <2>2 DEF WriteForks
<1>6. CASE Spawn(r, s)
  <2> DEFINE w == [here EXCEPT !.at = "generate"]
  <2>1. w \in Work /\ w.at = "generate"
    BY <1>w DEF Work, Capturing
  <2>2. /\ Holds(r, s, w) /\ UNCHANGED <<forks, transcripts>>
        /\ spawned' = spawned \cup {here.fork}
    BY <1>6 DEF Spawn, To, disk
  <2>3. here.fork \in IdsOf(forks) /\ here.fork \in Nat \ {0}
    BY <1>6 DEF Spawn, At, ForkInv, RegistryRule, Discipline, WorkRule
  <2> HIDE DEF w, here
  <2>4. /\ WorkOf(r, s)' = w
        /\ \A x \in Session : x # s => WorkOf(r, x)' = WorkOf(r, x)
    BY <1>t, <2>1, <2>2, HoldsFacts
  <2>5. ASSUME NEW x \in Session PROVE RegistryRule(r, x)'
    <3>1. CASE x = s
      BY <2>1, <2>4, <3>1 DEF RegistryRule, At
    <3>2. CASE x # s
      BY <2>2, <2>4, <3>2 DEF ForkInv, RegistryRule, At, IdsOf
    <3> QED
      BY <3>1, <3>2
  <2>6. ForkKnown'
    BY <2>2, <2>3 DEF ForkInv, ForkKnown, IdsOf
  <2> QED
    BY <2>2, <2>3, <2>5, <2>6, CaptureFork DEF ForkInv
<1>7. CASE Generate(r, s)
  <2>1. PICK source \in Source :
          Holds(r, s, [here EXCEPT !.at = "save", !.source = source, !.fork = None])
    BY <1>7 DEF Generate
  <2> DEFINE w == [here EXCEPT !.at = "save", !.source = source, !.fork = None]
  <2>2. w \in Work /\ w.at = "save"
    BY <1>w DEF Work, Capturing, NoneOr
  <2>3. Holds(r, s, w)
    BY <2>1
  <2>4. UNCHANGED <<forks, transcripts>> /\ spawned' \subseteq spawned
    BY <1>7 DEF Generate, disk
  <2> HIDE DEF w, here
  <2> QED
    BY <1>g, <2>2, <2>3, <2>4
<1>8. CASE SaveHandoff(r, s)
  <2> DEFINE w == [here EXCEPT !.at = "verify"]
  <2>1. w \in Work /\ w.at = "verify"
    BY <1>w DEF Work, Capturing
  <2>2. Holds(r, s, w) \/ Out(r, s)
    BY <1>8 DEF SaveHandoff, To
  <2>3. UNCHANGED <<forks, transcripts, spawned>>
    BY <1>8 DEF SaveHandoff, claude
  <2> HIDE DEF w, here
  <2> QED
    BY <1>g, <1>o, <2>1, <2>2, <2>3
<1>9. CASE Terminate(r, s)
  BY <1>9, <1>o DEF Terminate, disk, claude
<1> QED
  BY <1>1, <1>2, <1>3, <1>4, <1>5, <1>6, <1>7, <1>8, <1>9 DEF Captures

\* The cleanup deletes none of the day's forks, and forgets only those it is done with.
LEMMA RunForks ==
  ASSUME OneRunner, Discipline, ClosingInv, ForkInv, NEW r \in Runner,
         Discover(r) \/ Finishes(r) \/ Crash(r)
  PROVE  ForkInv'
<1>t. RunType /\ run[r] \in Run
  BY DEF Discipline, TypeOK, RunType
<1>u. UNCHANGED spawned
  BY DEF Discover, Finishes, Crash, ListHandoffs, SaveBriefing, ReadEntries, DeleteForks,
         dropHandledEntries, claude
<1>k. ASSUME \A x \in Session : WorkOf(r, x)'.at \in {"out", "queued"}, ForkKnown',
             \A e \in forks' : e.id >= 1 => e.createdAt = Today,
             run'[r].pc = "rewrite" => run'[r].handled \cap (transcripts \cup spawned)' = {}
      PROVE  ForkInv'
  <2>1. ASSUME NEW q \in Runner, NEW x \in Session PROVE RegistryRule(q, x)'
    BY <1>k DEF RegistryRule, At, OneRunner
  <2>2. \A q \in Runner : q = r
    BY DEF OneRunner
  <2> QED
    BY <1>k, <1>u, <2>1, <2>2 DEF ForkInv
\* The run goes on, or ends, and leaves registry and transcripts alone.
<1>g. ASSUME NEW v \in Run, Becomes(r, v), v.pc # "rewrite",
             \A x \in Session : v.work[x].at \in {"out", "queued"},
             UNCHANGED <<forks, transcripts>>
      PROVE  ForkInv'
  <2>1. run'[r] = v
    BY <1>g, <1>t, BecomesFacts
  <2>2. ForkKnown'
    BY <1>g, <1>u DEF ForkInv, ForkKnown, IdsOf
  <2> QED
    BY <1>g, <1>k, <2>1, <2>2 DEF WorkOf, ForkInv
<1>e. ASSUME Ended(r), UNCHANGED <<forks, transcripts>> PROVE ForkInv'
  BY <1>e, <1>g, IdleType, IdleFacts DEF Ended
<1>1. CASE Discover(r) \/ Crash(r)
  BY <1>1, <1>t, <1>e, <1>g, DiscoverFacts DEF Discover, Crash, disk, claude
<1>2. CASE ListHandoffs(r)
  <2> DEFINE v == [run[r] EXCEPT !.pc = "brief", !.listing = handoffs]
  <2>1. v \in Run /\ v.pc = "brief" /\ v.work = run[r].work
    BY <1>t DEF Run, Discipline, TypeOK
  <2>2. \A x \in Session : run[r].work[x].at = "out"
    BY <1>2 DEF ListHandoffs, Drained, NoWork, WorkOf
  <2>3. (Ended(r) \/ Becomes(r, v)) /\ UNCHANGED <<forks, transcripts>>
    BY <1>2 DEF ListHandoffs, disk, claude
  <2> HIDE DEF v
  <2> QED
    BY <1>e, <1>g, <2>1, <2>2, <2>3
<1>o. CASE run[r].pc \in {"brief", "cleanup", "delete", "rewrite"}
  <2>o. \A x \in Session : run[r].work[x].at = "out"
    BY <1>o, OutOfPool DEF WorkOf
  <2>1. CASE SaveBriefing(r)
    <3> DEFINE v == [run[r] EXCEPT !.pc = "cleanup"]
    <3>1. v \in Run /\ v.pc = "cleanup" /\ v.work = run[r].work
      BY <1>t DEF Run
    <3>2. (Ended(r) \/ Becomes(r, v)) /\ UNCHANGED <<forks, transcripts>>
      BY <2>1 DEF SaveBriefing, claude
    <3> HIDE DEF v
    <3> QED
      BY <1>e, <1>g, <2>o, <3>1, <3>2
  <2>2. CASE ReadEntries(r)
    <3> DEFINE v == [run[r] EXCEPT !.pc = "delete", !.entries = forks]
    <3>1. v \in Run /\ v.pc = "delete" /\ v.work = run[r].work
      BY <1>t DEF Run, Discipline, TypeOK
    <3>2. Becomes(r, v) /\ UNCHANGED <<forks, transcripts>>
      BY <2>2 DEF ReadEntries, disk, claude
    <3> HIDE DEF v
    <3> QED
      BY <1>g, <2>o, <3>1, <3>2
  <2>3. CASE DeleteForks(r)
    <3>1. PICK kept \in SUBSET (planForkCleanup(run[r].entries) \cap transcripts) :
            LET gone == planForkCleanup(run[r].entries) \ kept
            IN  /\ transcripts' = transcripts \ gone
                /\ IF gone = {} THEN Ended(r)
                     ELSE Becomes(r, [run[r] EXCEPT !.pc = "rewrite", !.handled = gone])
      BY <2>3 DEF DeleteForks
    <3> DEFINE gone == planForkCleanup(run[r].entries) \ kept
               v == [run[r] EXCEPT !.pc = "rewrite", !.handled = gone]
    <3>2. gone \cap spawned = {}
      <4>1. ASSUME NEW f \in gone PROVE \E e \in forks : e.id = f /\ Stale(e)
        BY <2>3, <4>1 DEF DeleteForks, ClosingInv, ClosingRule, planForkCleanup, IdsOf
      <4>2. ASSUME NEW f \in spawned, NEW e \in forks, e.id = f PROVE ~Stale(e)
        <5>1. e.createdAt = Today
          BY <4>2 DEF ForkInv
        <5> QED
          BY <5>1, DaysAssumption DEF Stale
      <4> HIDE DEF gone
      <4> QED
        BY <4>1, <4>2
    <3>3. gone \subseteq Int /\ UNCHANGED forks
      BY <1>t, <2>3 DEF Run, Entry, planForkCleanup, IdsOf, DeleteForks, disk
    <3>4. transcripts' = transcripts \ gone /\ (Ended(r) \/ Becomes(r, v))
      BY <3>1
    <3>5. gone = {} => Ended(r)
      BY <3>1
    <3>6. gone # {} => Becomes(r, v)
      BY <3>1
    <3> HIDE DEF gone
    <3>7. CASE gone = {}
      BY <1>e, <3>3, <3>4, <3>5, <3>7
    <3>8. CASE gone # {}
      <4>1. v \in Run /\ v.handled = gone /\ v.work = run[r].work
        BY <1>t, <3>3 DEF Run
      <4>2. Becomes(r, v)
        BY <3>6, <3>8
      <4> HIDE DEF v
      <4>3. run'[r] = v
        BY <1>t, <4>1, <4>2, BecomesFacts
      <4>4. ForkKnown'
        BY <1>u, <3>3, <3>4 DEF ForkInv, ForkKnown, IdsOf
      <4> QED
        BY <1>k, <1>u, <2>o, <3>2, <3>3, <3>4, <4>1, <4>3, <4>4 DEF WorkOf, ForkInv
    <3> QED
      BY <3>7, <3>8
  <2>4. CASE dropHandledEntries(r)
    <3>1. /\ run[r].pc = "rewrite" /\ Ended(r) /\ UNCHANGED <<transcripts, spawned>>
          /\ forks' = {e \in run[r].entries : e.id \notin run[r].handled} \/ forks' = forks
      BY <2>4 DEF dropHandledEntries, claude
    <3>2. run[r].entries = forks /\ run[r].handled \cap (transcripts \cup spawned) = {}
      BY <3>1 DEF ClosingInv, ClosingRule, ForkInv
    <3>3. ForkKnown'
      BY <3>1, <3>2 DEF ForkInv, ForkKnown, IdsOf
    <3>4. \A e \in forks' : e.id >= 1 => e.createdAt = Today
      BY <3>1, <3>2 DEF ForkInv
    <3>5. run'[r] = Idle
      BY <1>t, <3>1, IdleType, BecomesFacts DEF Ended
    <3> QED
      BY <1>k, <3>3, <3>4, <3>5, IdleFacts DEF WorkOf
  <2>5. CASE Discover(r) \/ ListHandoffs(r) \/ Crash(r)
    BY <1>1, <1>2, <2>5
  <2> QED
    BY <2>1, <2>2, <2>3, <2>4, <2>5 DEF Finishes
<1> QED
  BY <1>1, <1>2, <1>o DEF Finishes, SaveBriefing, ReadEntries, DeleteForks, dropHandledEntries

LEMMA NextForks ==
  OneRunner /\ OneDeep => (ForkInv /\ ClosingInv /\ Discipline /\ [Next]_vars => ForkInv')
<1> SUFFICES ASSUME OneRunner, OneDeep, Discipline, ClosingInv, ForkInv, [Next]_vars PROVE ForkInv'
  OBVIOUS
<1>1. ASSUME NEW r \in Runner, NEW s \in Session, Captures(r, s) PROVE ForkInv'
  BY <1>1, CaptureForks
<1>2. ASSUME NEW r \in Runner, Discover(r) \/ Finishes(r) \/ Crash(r) PROVE ForkInv'
  BY <1>2, RunForks
<1>3. CASE \/ \E f \in spawned : ForkWrites(f)
           \/ \E s \in Session : Evolves(s) \/ Ends(s)
           \/ UNCHANGED vars
  <2>1. UNCHANGED <<run, forks, spawned>> /\ transcripts' \subseteq transcripts \cup spawned
    BY <1>3 DEF ForkWrites, Evolves, Ends, vars, disk, claude
  <2> QED
    BY <2>1 DEF ForkInv, ForkKnown, RegistryRule, At, WorkOf, IdsOf
<1> QED
  BY <1>1, <1>2, <1>3 DEF Next

\* With no closings that overlap and at most one session captured through a fork, no fork
\* of seeya is ever unknown to it, whatever dies, fails to be written or to be deleted.
THEOREM ForksAreKnown ==
  ASSUME OneRunner, OneDeep
  PROVE  Spec => []ForkKnown
<1>1. Init => ForkInv
  <2> SUFFICES ASSUME Init PROVE ForkInv
    OBVIOUS
  <2>1. \A r \in Runner : run[r] = Idle
    BY DEF Init
  <2>2. Idle.pc = "idle" /\ \A x \in Session : Idle.work[x].at = "out"
    BY IdleFacts
  <2>3. \A e \in forks : e.id < 1 /\ e.id \in Int
    BY OldForksAssumption DEF Init, Entry
  <2> QED
    BY <2>1, <2>2, <2>3 DEF Init, ForkInv, ForkKnown, RegistryRule, At, WorkOf
<1>2. ForkInv => ForkKnown
  BY DEF ForkInv
<1> QED
  BY <1>1, <1>2, NextForks, AlwaysClosing, PTL DEF Spec
=============================================================================
