---------------------------- MODULE AdoptionProofs ----------------------------
(***************************************************************************)
(* Proofs about Adoption, for any sessions, projects, operations and        *)
(* failures.  First the types, in any interleaving; then the implementation *)
(* of SessionAdoptions, when no session is adopted twice at the same time   *)
(* (~AtOnce) and one operation is at work at a time (~Overlap).             *)
(***************************************************************************)
EXTENDS Adoption, TLAPS

-----------------------------------------------------------------------------
(* What an operation remembers, by what it is and where it is. *)

Before   == {"ready", "askLaunch", "acquire", "writeLock", "readForks", "writeForks", "launch"}
Ends     == {"release", "clear", "over"}
AdoptAt  == Before \cup Ends \cup {"left", "running", "look", "askCommit", "commit", "discard",
                                   "readForksAgain", "dropFork", "readRecords", "writeRecords"}
RevertAt == Ends \cup {"acquire", "writeLock", "plan", "askRevert", "undo", "readRecords", "writeRecords", "copy", "askCopy"}
RemoveAt == Ends \cup {"acquire", "writeLock", "askRemove", "drop", "readRecords", "writeRecords"}

Remembers(o, x) ==
  \/ x = Ready(o)
  \/ /\ o \in Adoption /\ x.kind = "adopt" /\ x.copy = o /\ x.at \in AdoptAt \ {"ready"}
     /\ x.session \in Session /\ x.project \in Project
     /\ x.at = "left" => x.failed
  \/ /\ o \in Undoing /\ x.kind = "revert" /\ x.copy \in Adoption /\ x.at \in RevertAt
     /\ x.session \in Session /\ x.project \in Project
  \/ /\ o \in Undoing /\ x.kind = "remove" /\ x.at \in RemoveAt /\ x.project \in Project

Discipline ==
  /\ TypeOK
  /\ \A o \in Op : Remembers(o, op[o])

Becomes(o, x) == op' = [op EXCEPT ![o] = x]

\* Where an operation can be is disjoint by what it is.
Places == {"ready", "over", "left"} \cup AtWork \cup Waiting

LEMMA ReadyType == \A o \in Op : Ready(o) \in Operation /\ Remembers(o, Ready(o))
BY DEF Ready, Operation, Op, NoneOr, Remembers

LEMMA Typed ==
  ASSUME Discipline, NEW o \in Op
  PROVE  /\ op[o] \in Operation /\ Remembers(o, op[o]) /\ op \in [Op -> Operation]
         /\ lock \in [Project -> NoneOr(Op)] /\ adoptions \subseteq Record
         /\ forks \subseteq Adoption /\ copies \subseteq Adoption
BY DEF Discipline, TypeOK

\* What is known of an operation that has begun.
LEMMA Begun ==
  ASSUME Discipline, NEW o \in Op, op[o].at # "ready"
  PROVE  /\ op[o].project \in Project
         /\ o \in Adoption <=> op[o].kind = "adopt"
         /\ o \in Adoption => /\ op[o].copy = o /\ op[o].at \in AdoptAt /\ op[o].session \in Session
                              /\ op[o].at = "left" => op[o].failed
         /\ op[o].kind = "revert" => /\ op[o].at \in RevertAt
                                     /\ op[o].copy \in Adoption /\ op[o].session \in Session
         /\ op[o].kind = "remove" => op[o].at \in RemoveAt
<1>1. Remembers(o, op[o]) /\ op[o] # Ready(o)
  BY Typed DEF Ready
<1>2. o \in Adoption <=> o \notin Undoing
  BY OperationAssumption DEF Op
<1>3. CASE o \in Adoption
  <2>1. op[o].kind = "adopt" /\ op[o].copy = o /\ op[o].at \in AdoptAt
    BY <1>1, <1>2, <1>3 DEF Remembers
  <2> QED
    BY <1>1, <1>2, <1>3, <2>1 DEF Remembers
<1>4. CASE o \in Undoing
  <2>1. op[o].kind # "adopt"
    BY <1>1, <1>2, <1>4 DEF Remembers
  <2> QED
    BY <1>1, <1>2, <1>4, <2>1 DEF Remembers
<1> QED
  BY <1>2, <1>3, <1>4

-----------------------------------------------------------------------------
(* A step of one operation *)

\* What the operations share, and its types.
shared == <<lock, adoptions, forks, copies, grown, commits, dirty, failures>>

SharedOK ==
  /\ lock \in [Project -> NoneOr(Op)] /\ adoptions \subseteq Record /\ forks \subseteq Adoption
  /\ copies \subseteq Adoption /\ grown \subseteq Adoption /\ commits \in [Adoption -> Commits]
  /\ dirty \subseteq Project /\ failures \in 0 .. MaxFailures

LEMMA SharedTyped == Discipline => SharedOK
BY DEF Discipline, TypeOK, SharedOK

LEMMA SharedKept == Discipline /\ UNCHANGED shared => SharedOK'
BY SharedTyped DEF SharedOK, shared

Others(o) == \A q \in Op : q # o => op'[q] = op[q]

\* It remembers what it is for.
Same(o) ==
  /\ op'[o].kind = op[o].kind /\ op'[o].session = op[o].session
  /\ op'[o].project = op[o].project /\ op'[o].copy = op[o].copy

\* It only goes somewhere else, and may forget what it has read.
Moved(o, at) ==
  /\ op'[o].at = at /\ Same(o)
  /\ op'[o].listed \in {op[o].listed, {}} /\ op'[o].records \in {op[o].records, {}}
  /\ op'[o].prior = op[o].prior /\ op'[o].keeps = op[o].keeps /\ op'[o].failed = op[o].failed

LEMMA StepDiscipline ==
  ASSUME Discipline, NEW o \in Op, NEW x \in Operation, Becomes(o, x), Remembers(o, x), SharedOK'
  PROVE  Discipline' /\ Others(o) /\ op'[o] = x
<1>1. op' \in [Op -> Operation] /\ op'[o] = x /\ \A q \in Op : q # o => op'[q] = op[q]
  BY Typed DEF Becomes
<1> QED
  BY <1>1 DEF Discipline, TypeOK, SharedOK, Others

\* A place that an operation may come to.
May(o, at) ==
  /\ at \in Places
  /\ op[o].kind = "adopt" => at \in AdoptAt \ {"ready", "left"}
  /\ op[o].kind = "revert" => at \in RevertAt
  /\ op[o].kind = "remove" => at \in RemoveAt

\* One that has begun, and keeps what it is for, remembers enough.
LEMMA GoesOn ==
  ASSUME Discipline, NEW o \in Op, op[o].at # "ready",
         NEW x \in Operation, May(o, x.at) \/ (o \in Adoption /\ x.at = "left" /\ x.failed),
         x.kind = op[o].kind, x.session = op[o].session, x.project = op[o].project, x.copy = op[o].copy,
         Becomes(o, x), SharedOK'
  PROVE  Discipline' /\ Others(o) /\ op'[o] = x /\ Same(o)
<1>1. Remembers(o, x)
  <2>1. CASE o \in Adoption
    BY <2>1, Begun DEF Remembers, May, AdoptAt
  <2>2. CASE o \in Undoing
    <3>1. op[o].kind \in {"revert", "remove"}
      BY <2>2, Begun, OperationAssumption, Typed DEF Operation
    <3> QED
      BY <2>2, <3>1, Begun, OperationAssumption DEF Remembers, May
  <2> QED
    BY <2>1, <2>2 DEF Op
<1> QED
  BY <1>1, StepDiscipline DEF Same

LEMMA GoesStep ==
  ASSUME Discipline, NEW o \in Op, op[o].at # "ready", NEW at, May(o, at), Goes(o, at), SharedOK'
  PROVE  Discipline' /\ Others(o) /\ Moved(o, at)
<1> DEFINE x == [op[o] EXCEPT !.at = at]
<1>1. x \in Operation
  BY Typed DEF Operation, May, Places
<1>2. /\ x.at = at /\ x.kind = op[o].kind /\ x.session = op[o].session
      /\ x.project = op[o].project /\ x.copy = op[o].copy
      /\ x.listed = op[o].listed /\ x.records = op[o].records
      /\ x.prior = op[o].prior /\ x.keeps = op[o].keeps /\ x.failed = op[o].failed
  BY Typed DEF Operation
<1>3. Becomes(o, x)
  BY DEF Goes, Becomes
<1>4. Discipline' /\ Others(o) /\ op'[o] = x /\ Same(o)
  <2> HIDE DEF x
  <2> QED
    BY <1>1, <1>2, <1>3, GoesOn
<1> QED
  BY <1>2, <1>4 DEF Moved

LEMMA WroteStep ==
  ASSUME Discipline, NEW o \in Op, op[o].at # "ready", NEW at, May(o, at), Wrote(o, at), SharedOK'
  PROVE  Discipline' /\ Others(o) /\ Moved(o, at)
<1> DEFINE x == [op[o] EXCEPT !.at = at, !.listed = {}, !.records = {}]
<1>1. x \in Operation
  BY Typed DEF Operation, May, Places
<1>2. /\ x.at = at /\ x.kind = op[o].kind /\ x.session = op[o].session
      /\ x.project = op[o].project /\ x.copy = op[o].copy
      /\ x.listed = {} /\ x.records = {}
      /\ x.prior = op[o].prior /\ x.keeps = op[o].keeps /\ x.failed = op[o].failed
  BY Typed DEF Operation
<1>3. Becomes(o, x)
  BY DEF Wrote, Becomes
<1>4. Discipline' /\ Others(o) /\ op'[o] = x /\ Same(o)
  <2> HIDE DEF x
  <2> QED
    BY <1>1, <1>2, <1>3, GoesOn
<1> QED
  BY <1>2, <1>4 DEF Moved

\* The place tells what is on its way there.
LEMMA Kinds ==
  ASSUME Discipline, NEW o \in Op
  PROVE  /\ op[o].at \in {"askLaunch", "readForks", "writeForks", "launch", "running", "look", "askCommit",
                          "commit", "discard", "readForksAgain", "dropFork"}
              => o \in Adoption /\ op[o].kind = "adopt"
         /\ op[o].at \in {"plan", "askRevert", "undo", "copy", "askCopy"}
              => o \in Undoing /\ op[o].kind = "revert"
         /\ op[o].at \in {"askRemove", "drop"} => o \in Undoing /\ op[o].kind = "remove"
<1> SUFFICES ASSUME op[o].at # "ready"
             PROVE  /\ op[o].kind = "adopt" => op[o].at \in AdoptAt
                    /\ op[o].kind = "revert" => op[o].at \in RevertAt
                    /\ op[o].kind = "remove" => op[o].at \in RemoveAt
                    /\ op[o].kind \in {"adopt", "revert", "remove"}
                    /\ o \in Adoption <=> op[o].kind = "adopt"
                    /\ o \in Adoption \/ o \in Undoing
  BY DEF AdoptAt, Before, Ends, RevertAt, RemoveAt
<1> QED
  BY Begun, Typed DEF Operation, Op

\* After a look at what the copy has left.
Decided(o, next, prior) ==
  /\ op'[o].at = next /\ Same(o)
  /\ op'[o].listed = op[o].listed /\ op'[o].records = op[o].records
  /\ op'[o].prior = prior /\ op'[o].keeps = (next = "readForksAgain") /\ op'[o].failed = op[o].failed

LEMMA OutcomeStep ==
  ASSUME Discipline, NEW o \in Op, op[o].at # "ready", NEW next, May(o, next), NEW prior \in BOOLEAN,
         Outcome(o, next, prior), SharedOK'
  PROVE  Discipline' /\ Others(o) /\ Decided(o, next, prior)
<1> DEFINE k == next = "readForksAgain"
           x == [op[o] EXCEPT !.at = next, !.prior = prior, !.keeps = k]
<1>1. x \in Operation
  <2>1. k \in BOOLEAN
    OBVIOUS
  <2> HIDE DEF k
  <2> QED
    BY <2>1, Typed DEF Operation, May, Places
<1>2. /\ x.at = next /\ x.kind = op[o].kind /\ x.session = op[o].session
      /\ x.project = op[o].project /\ x.copy = op[o].copy
      /\ x.listed = op[o].listed /\ x.records = op[o].records
      /\ x.prior = prior /\ x.keeps = k /\ x.failed = op[o].failed
  <2> HIDE DEF k
  <2> QED
    BY Typed DEF Operation
<1>3. Becomes(o, x)
  BY DEF Outcome, Becomes
<1>4. Discipline' /\ Others(o) /\ op'[o] = x /\ Same(o)
  <2> HIDE DEF x
  <2> QED
    BY <1>1, <1>2, <1>3, GoesOn
<1> QED
  BY <1>2, <1>4 DEF Decided

\* After a read of forks.json or adoptions.json.
Noted(o, at, listed, records) ==
  /\ op'[o].at = at /\ Same(o)
  /\ op'[o].listed = listed /\ op'[o].records = records
  /\ op'[o].prior = op[o].prior /\ op'[o].keeps = op[o].keeps /\ op'[o].failed = op[o].failed

LEMMA ListStep ==
  ASSUME Discipline, NEW o \in Op, op[o].at # "ready", NEW at, May(o, at), SharedOK',
         op' = [op EXCEPT ![o].at = at, ![o].listed = forks]
  PROVE  Discipline' /\ Others(o) /\ Noted(o, at, forks, op[o].records)
<1> DEFINE x == [op[o] EXCEPT !.at = at, !.listed = forks]
<1>1. x \in Operation
  BY Typed DEF Operation, May, Places
<1>2. /\ x.at = at /\ x.kind = op[o].kind /\ x.session = op[o].session
      /\ x.project = op[o].project /\ x.copy = op[o].copy
      /\ x.listed = forks /\ x.records = op[o].records
      /\ x.prior = op[o].prior /\ x.keeps = op[o].keeps /\ x.failed = op[o].failed
  BY Typed DEF Operation
<1>3. Becomes(o, x)
  BY DEF Becomes
<1>4. Discipline' /\ Others(o) /\ op'[o] = x /\ Same(o)
  <2> HIDE DEF x
  <2> QED
    BY <1>1, <1>2, <1>3, GoesOn
<1> QED
  BY <1>2, <1>4 DEF Noted

LEMMA ReadRecordsStep ==
  ASSUME Discipline, NEW o \in Op, ReadRecords(o)
  PROVE  Discipline' /\ Others(o) /\ Noted(o, "writeRecords", op[o].listed, adoptions)
<1> DEFINE x == [op[o] EXCEPT !.at = "writeRecords", !.records = adoptions]
<1>1. x \in Operation
  BY Typed DEF Operation, AtWork
<1>2. /\ x.at = "writeRecords" /\ x.kind = op[o].kind /\ x.session = op[o].session
      /\ x.project = op[o].project /\ x.copy = op[o].copy
      /\ x.listed = op[o].listed /\ x.records = adoptions
      /\ x.prior = op[o].prior /\ x.keeps = op[o].keeps /\ x.failed = op[o].failed
  BY Typed DEF Operation
<1>3. Becomes(o, x) /\ op[o].at # "ready" /\ SharedOK'
  BY SharedKept DEF Becomes, ReadRecords, Is, shared
<1>4. May(o, "writeRecords")
  BY DEF May, Places, AtWork, AdoptAt, RevertAt, RemoveAt
<1>5. Discipline' /\ Others(o) /\ op'[o] = x /\ Same(o)
  <2> HIDE DEF x
  <2> QED
    BY <1>1, <1>2, <1>3, <1>4, GoesOn
<1> QED
  BY <1>2, <1>5 DEF Noted

\* After a death or an exception.
Failed(o, at) ==
  /\ op'[o].at = at /\ Same(o)
  /\ op'[o].listed = op[o].listed /\ op'[o].records = op[o].records
  /\ op'[o].prior = op[o].prior /\ op'[o].keeps = op[o].keeps /\ op'[o].failed = TRUE

LEMMA FailStep ==
  ASSUME Discipline, NEW o \in Op, op[o].at # "ready", NEW at,
         May(o, at) \/ (o \in Adoption /\ at = "left"),
         op' = [op EXCEPT ![o].at = at, ![o].failed = TRUE], SharedOK'
  PROVE  Discipline' /\ Others(o) /\ Failed(o, at)
<1> DEFINE x == [op[o] EXCEPT !.at = at, !.failed = TRUE]
<1>1. x \in Operation
  BY Typed DEF Operation, May, Places
<1>2. /\ x.at = at /\ x.kind = op[o].kind /\ x.session = op[o].session
      /\ x.project = op[o].project /\ x.copy = op[o].copy
      /\ x.listed = op[o].listed /\ x.records = op[o].records
      /\ x.prior = op[o].prior /\ x.keeps = op[o].keeps /\ x.failed = TRUE
  BY Typed DEF Operation
<1>3. Becomes(o, x)
  BY DEF Becomes
<1>4. Discipline' /\ Others(o) /\ op'[o] = x /\ Same(o)
  <2> HIDE DEF x
  <2> QED
    BY <1>1, <1>2, <1>3, GoesOn
<1> QED
  BY <1>2, <1>4 DEF Failed

-----------------------------------------------------------------------------
(* Every step of an operation, and the types *)

\* What an operation starts with.
LEMMA StartStep ==
  ASSUME Discipline, NEW o \in Op, Is(o, "ready"), NEW x \in Operation, Becomes(o, x), UNCHANGED shared,
         Remembers(o, x)
  PROVE  Discipline' /\ Others(o) /\ op'[o] = x
BY SharedKept, StepDiscipline

\* The first step of an adoption, for one session and project.
Started(a, s, p) ==
  /\ op'[a].at = IF \E r \in adoptions : r.session = s THEN "over" ELSE "askLaunch"
  /\ op'[a].session = s /\ op'[a].project = p
  /\ op'[a].kind = "adopt" /\ op'[a].copy = a
  /\ op'[a].prior = FALSE /\ op'[a].keeps = FALSE /\ op'[a].failed = FALSE
  /\ op'[a].records = {}

LEMMA adoptSessionStep ==
  ASSUME Discipline, NEW a \in Op, adoptSession(a)
  PROVE  /\ a \in Adoption /\ Is(a, "ready") /\ Quiet /\ UNCHANGED shared
         /\ Discipline' /\ Others(a)
         /\ \E s \in Session, p \in Project :
              /\ AtOnce \/ \A b \in Adoption : op[b].session = s => Gone(b)
              /\ Started(a, s, p)
<1>1. a \in Adoption /\ Is(a, "ready") /\ Quiet /\ UNCHANGED shared
  BY DEF adoptSession, shared
<1> PICK s \in Session, p \in Project :
       /\ AtOnce \/ \A b \in Adoption : op[b].session = s => Gone(b)
       /\ op' = [op EXCEPT ![a].at = IF \E r \in adoptions : r.session = s THEN "over" ELSE "askLaunch",
                           ![a].session = s, ![a].project = p]
  BY DEF adoptSession
<1> DEFINE at == IF \E r \in adoptions : r.session = s THEN "over" ELSE "askLaunch"
           x == [Ready(a) EXCEPT !.at = at, !.session = s, !.project = p]
<1>2. op[a] = Ready(a)
  <2>1. op[a].at = "ready" /\ Remembers(a, op[a])
    BY <1>1, Typed DEF Is
  <2> QED
    BY <2>1 DEF Remembers, RevertAt, RemoveAt, Ends
<1>3. at \in {"over", "askLaunch"}
  OBVIOUS
<1>4. /\ x \in Operation /\ x.at = at /\ x.session = s /\ x.project = p
      /\ x.kind = "adopt" /\ x.copy = a /\ x.keeps = FALSE /\ x.failed = FALSE
      /\ x.prior = FALSE /\ x.records = {}
  <2> HIDE DEF at
  <2> QED
    BY <1>1, <1>3, ReadyType DEF Ready, Operation, Waiting, NoneOr
<1>5. Becomes(a, x)
  BY <1>2 DEF Becomes
<1>6. Remembers(a, x)
  <2> HIDE DEF x, at
  <2> QED
    BY <1>1, <1>3, <1>4 DEF Remembers, AdoptAt, Before, Ends
<1>7. Discipline' /\ Others(a) /\ op'[a] = x
  <2> HIDE DEF x
  <2> QED
    BY <1>1, <1>4, <1>5, <1>6, StartStep
<1>8. Started(a, s, p)
  BY <1>4, <1>7 DEF Started
<1> QED
  BY <1>1, <1>7, <1>8

LEMMA revertAdoptionStep ==
  ASSUME Discipline, NEW u \in Op, revertAdoption(u)
  PROVE  /\ u \in Undoing /\ Is(u, "ready") /\ Quiet /\ UNCHANGED shared
         /\ Discipline' /\ Others(u)
         /\ op'[u].at = "acquire" /\ op'[u].kind = "revert" /\ op'[u].records = op[u].records
         /\ \E r \in adoptions : /\ op'[u].session = r.session
                                 /\ op'[u].project = r.project /\ op'[u].copy = r.copy
<1>1. u \in Undoing /\ Is(u, "ready") /\ Quiet /\ UNCHANGED shared
  BY DEF revertAdoption, shared
<1> PICK r \in adoptions :
       op' = [op EXCEPT ![u].at = "acquire", ![u].kind = "revert", ![u].session = r.session,
                        ![u].project = r.project, ![u].copy = r.copy]
  BY DEF revertAdoption
<1> DEFINE x == [op[u] EXCEPT !.at = "acquire", !.kind = "revert", !.session = r.session,
                              !.project = r.project, !.copy = r.copy]
<1>2. r.session \in Session /\ r.project \in Project /\ r.copy \in Adoption
  BY Typed DEF Record
<1>3. /\ x \in Operation /\ x.at = "acquire" /\ x.kind = "revert" /\ x.records = op[u].records
      /\ x.session = r.session /\ x.project = r.project /\ x.copy = r.copy
  BY <1>2, Typed DEF Operation, AtWork, NoneOr
<1>4. Becomes(u, x)
  BY DEF Becomes
<1>5. Remembers(u, x)
  <2> HIDE DEF x
  <2> QED
    BY <1>1, <1>2, <1>3 DEF Remembers, RevertAt
<1>6. Discipline' /\ Others(u) /\ op'[u] = x
  <2> HIDE DEF x
  <2> QED
    BY <1>1, <1>3, <1>4, <1>5, StartStep
<1> QED
  BY <1>1, <1>3, <1>6

LEMMA removeProjectStep ==
  ASSUME Discipline, NEW u \in Op, removeProject(u)
  PROVE  /\ u \in Undoing /\ Is(u, "ready") /\ Quiet /\ UNCHANGED shared
         /\ Discipline' /\ Others(u)
         /\ op'[u].at = "acquire" /\ op'[u].kind = "remove" /\ op'[u].records = op[u].records
<1>1. u \in Undoing /\ Is(u, "ready") /\ Quiet /\ UNCHANGED shared
  BY DEF removeProject, shared
<1> PICK p \in Project :
       op' = [op EXCEPT ![u].at = "acquire", ![u].kind = "remove", ![u].project = p]
  BY DEF removeProject
<1> DEFINE x == [op[u] EXCEPT !.at = "acquire", !.kind = "remove", !.project = p]
<1>2. /\ x \in Operation /\ x.at = "acquire" /\ x.kind = "remove" /\ x.project = p
      /\ x.records = op[u].records
  BY Typed DEF Operation, AtWork, NoneOr
<1>3. Becomes(u, x)
  BY DEF Becomes
<1>4. Remembers(u, x)
  <2> HIDE DEF x
  <2> QED
    BY <1>1, <1>2 DEF Remembers, RemoveAt
<1>5. Discipline' /\ Others(u) /\ op'[u] = x
  <2> HIDE DEF x
  <2> QED
    BY <1>1, <1>2, <1>3, <1>4, StartStep
<1> QED
  BY <1>1, <1>2, <1>5

\* The places an adoption, a revert and a removal may come to.
LEMMA Mays ==
  ASSUME Discipline, NEW o \in Op, op[o].at # "ready"
  PROVE  /\ \A at \in Ends \cup {"acquire", "writeLock", "readRecords", "writeRecords"} : May(o, at)
         /\ op[o].kind = "adopt" => \A at \in AdoptAt \ {"ready", "left"} : May(o, at)
         /\ op[o].kind = "revert" => \A at \in RevertAt : May(o, at)
         /\ op[o].kind = "remove" => \A at \in RemoveAt : May(o, at)
BY DEF May, Places, AtWork, Waiting, AdoptAt, RevertAt, RemoveAt, Before, Ends

\* Steps that change nothing that is shared.
LEMMA QuietStep ==
  ASSUME Discipline, NEW o \in Op,
         AnswerLaunch(o) \/ HarnessCloses(o) \/ planRevert(o) \/ AnswerUndoing(o)
  PROVE  /\ UNCHANGED shared
         /\ Discipline' /\ Others(o)
         /\ \/ AnswerLaunch(o) /\ (Moved(o, "acquire") \/ Moved(o, "over"))
            \/ HarnessCloses(o) /\ Moved(o, "look")
            \/ planRevert(o) /\ (Moved(o, "askRevert") \/ Moved(o, "release"))
            \/ AnswerUndoing(o) /\ Is(o, "askRevert") /\ (Moved(o, "undo") \/ Moved(o, "release"))
            \/ AnswerUndoing(o) /\ Is(o, "askRemove") /\ (Moved(o, "drop") \/ Moved(o, "release"))
<1>1. UNCHANGED shared /\ op[o].at # "ready" /\ SharedOK'
  BY SharedKept DEF AnswerLaunch, HarnessCloses, planRevert, AnswerUndoing, shared, Is
<1>2. CASE AnswerLaunch(o)
  <2>1. op[o].kind = "adopt" /\ (Goes(o, "acquire") \/ Goes(o, "over"))
    BY <1>2, Kinds DEF AnswerLaunch, Is
  <2>2. May(o, "acquire") /\ May(o, "over")
    BY <1>1, Mays DEF Ends
  <2> QED
    BY <1>1, <1>2, <2>1, <2>2, GoesStep
<1>3. CASE HarnessCloses(o)
  <2>1. op[o].kind = "adopt" /\ Goes(o, "look")
    BY <1>3, Kinds DEF HarnessCloses, Is
  <2>2. May(o, "look")
    BY <1>1, <2>1, Mays DEF AdoptAt
  <2> QED
    BY <1>1, <1>3, <2>1, <2>2, GoesStep
<1>4. CASE planRevert(o)
  <2>1. op[o].kind = "revert" /\ (Goes(o, "askRevert") \/ Goes(o, "release"))
    BY <1>4, Kinds DEF planRevert, Is
  <2>2. May(o, "askRevert") /\ May(o, "release")
    BY <1>1, <2>1, Mays DEF RevertAt, Ends
  <2> QED
    BY <1>1, <1>4, <2>1, <2>2, GoesStep
<1>5. CASE AnswerUndoing(o) /\ Is(o, "askRevert")
  <2>1. op[o].kind = "revert" /\ (Goes(o, "undo") \/ Goes(o, "release"))
    BY <1>5, Kinds DEF AnswerUndoing, Is
  <2>2. May(o, "undo") /\ May(o, "release")
    BY <1>1, <2>1, Mays DEF RevertAt, Ends
  <2> QED
    BY <1>1, <1>5, <2>1, <2>2, GoesStep
<1>6. CASE AnswerUndoing(o) /\ Is(o, "askRemove")
  <2>1. op[o].kind = "remove" /\ (Goes(o, "drop") \/ Goes(o, "release"))
    BY <1>6, Kinds DEF AnswerUndoing, Is
  <2>2. May(o, "drop") /\ May(o, "release")
    BY <1>1, <2>1, Mays DEF RemoveAt, Ends
  <2> QED
    BY <1>1, <1>6, <2>1, <2>2, GoesStep
<1> QED
  BY <1>2, <1>3, <1>4, <1>5, <1>6 DEF AnswerUndoing

\* The look at what the copy has left, and the answer about it.
LEMMA DecisionStep ==
  ASSUME Discipline, NEW o \in Op, finishAdoption(o) \/ AnswerCommit(o)
  PROVE  /\ UNCHANGED shared /\ o \in Adoption
         /\ Discipline' /\ Others(o)
         /\ \/ /\ finishAdoption(o)
               /\ \E next \in {"askCommit", "readForksAgain", "discard"} :
                    /\ Decided(o, next, commits[o] # "none")
                    /\ next = "discard" => commits[o] = "none"
                    /\ next = "readForksAgain" => commits[o] # "none"
            \/ /\ AnswerCommit(o)
               /\ \/ Moved(o, "commit")
                  \/ op[o].prior /\ Decided(o, "readForksAgain", TRUE)
                  \/ ~op[o].prior /\ (Moved(o, "discard") \/ Moved(o, "release"))
<1>1. UNCHANGED shared /\ op[o].at # "ready" /\ SharedOK'
  BY SharedKept DEF finishAdoption, AnswerCommit, shared, Is
<1>2. o \in Adoption /\ op[o].kind = "adopt"
  BY Kinds DEF finishAdoption, AnswerCommit, Is
<1>3. \A at \in {"commit", "discard", "release", "askCommit", "readForksAgain"} : May(o, at)
  BY <1>1, <1>2, Mays DEF AdoptAt, Ends
<1>4. CASE finishAdoption(o)
  <2> DEFINE prior == commits[o] # "none"
             next == IF op[o].project \in dirty THEN "askCommit"
                     ELSE IF prior THEN "readForksAgain" ELSE "discard"
  <2>1. /\ Outcome(o, next, prior) /\ prior \in BOOLEAN
        /\ next \in {"askCommit", "readForksAgain", "discard"}
        /\ next = "discard" => commits[o] = "none"
        /\ next = "readForksAgain" => commits[o] # "none"
    BY <1>4 DEF finishAdoption
  <2>2. Discipline' /\ Others(o) /\ Decided(o, next, prior)
    <3> HIDE DEF next, prior
    <3> QED
      BY <1>1, <1>3, <2>1, OutcomeStep
  <2> QED
    BY <1>1, <1>2, <1>4, <2>1, <2>2
<1>5. CASE AnswerCommit(o)
  <2>1. \/ Goes(o, "commit")
        \/ op[o].prior /\ Outcome(o, "readForksAgain", TRUE)
        \/ ~op[o].prior /\ (Goes(o, "discard") \/ Goes(o, "release"))
    BY <1>5 DEF AnswerCommit
  <2> QED
    BY <1>1, <1>2, <1>3, <1>5, <2>1, GoesStep, OutcomeStep
<1> QED
  BY <1>4, <1>5

\* The lock is written by one that found it free, and deleted by one that found its own.
LEMMA LockStep ==
  ASSUME Discipline, NEW o \in Op, acquireProjectLock(o) \/ releaseProjectLock(o)
  PROVE  /\ UNCHANGED <<adoptions, forks, copies, commits>>
         /\ Discipline' /\ Others(o)
         /\ \/ /\ Is(o, "acquire") /\ UNCHANGED lock
               /\ (IsFree(op[o].project) /\ Moved(o, "writeLock")) \/ Moved(o, "over")
            \/ /\ Is(o, "writeLock") /\ lock' = [lock EXCEPT ![op[o].project] = o]
               /\ \/ op[o].kind = "adopt" /\ Moved(o, "readForks")
                  \/ op[o].kind = "revert" /\ Moved(o, "plan")
                  \/ op[o].kind = "remove" /\ Moved(o, "askRemove")
            \/ /\ Is(o, "release") /\ UNCHANGED lock
               /\ (lock[op[o].project] = o /\ Moved(o, "clear")) \/ Moved(o, "over")
            \/ Is(o, "clear") /\ lock' = [lock EXCEPT ![op[o].project] = None] /\ Moved(o, "over")
<1>1. UNCHANGED <<adoptions, forks, copies, grown, commits, dirty, failures>> /\ op[o].at # "ready"
  BY DEF acquireProjectLock, releaseProjectLock, Is
<1>2. op[o].project \in Project /\ op[o].kind \in {"adopt", "revert", "remove"}
  BY <1>1, Begun, Typed DEF Operation
<1>3. lock' \in [Project -> NoneOr(Op)] => SharedOK'
  BY <1>1, SharedTyped DEF SharedOK
<1>4. CASE acquireProjectLock(o) /\ Is(o, "acquire")
  <2> DEFINE next == IF IsFree(op[o].project) THEN "writeLock" ELSE "over"
  <2>1. Goes(o, next) /\ UNCHANGED lock
    BY <1>4 DEF acquireProjectLock, Is
  <2>2. May(o, next) /\ SharedOK'
    BY <1>1, <1>3, <2>1, Typed, Mays DEF Ends
  <2>3. Discipline' /\ Others(o) /\ Moved(o, next)
    <3> HIDE DEF next
    <3> QED
      BY <1>1, <2>1, <2>2, GoesStep
  <2> QED
    BY <1>1, <1>4, <2>1, <2>3
<1>5. CASE acquireProjectLock(o) /\ Is(o, "writeLock")
  <2>1. /\ lock' = [lock EXCEPT ![op[o].project] = o]
        /\ Goes(o, CASE op[o].kind = "adopt"  -> "readForks"
                     [] op[o].kind = "revert" -> "plan"
                     [] op[o].kind = "remove" -> "askRemove")
    BY <1>5 DEF acquireProjectLock, Is
  <2>2. SharedOK'
    BY <1>2, <1>3, <2>1, Typed DEF NoneOr
  <2>3. CASE op[o].kind = "adopt"
    <3>1. Goes(o, "readForks") /\ May(o, "readForks")
      BY <1>1, <2>1, <2>3, Mays DEF AdoptAt, Before
    <3> QED
      BY <1>1, <1>5, <2>1, <2>2, <2>3, <3>1, GoesStep
  <2>4. CASE op[o].kind = "revert"
    <3>1. Goes(o, "plan") /\ May(o, "plan")
      BY <1>1, <2>1, <2>4, Mays DEF RevertAt
    <3> QED
      BY <1>1, <1>5, <2>1, <2>2, <2>4, <3>1, GoesStep
  <2>5. CASE op[o].kind = "remove"
    <3>1. Goes(o, "askRemove") /\ May(o, "askRemove")
      BY <1>1, <2>1, <2>5, Mays DEF RemoveAt
    <3> QED
      BY <1>1, <1>5, <2>1, <2>2, <2>5, <3>1, GoesStep
  <2> QED
    BY <1>2, <2>3, <2>4, <2>5
<1>6. CASE releaseProjectLock(o) /\ Is(o, "release")
  <2> DEFINE next == IF lock[op[o].project] = o THEN "clear" ELSE "over"
  <2>1. Goes(o, next) /\ UNCHANGED lock
    BY <1>6 DEF releaseProjectLock, Is
  <2>2. May(o, next) /\ SharedOK'
    BY <1>1, <1>3, <2>1, Typed, Mays DEF Ends
  <2>3. Discipline' /\ Others(o) /\ Moved(o, next)
    <3> HIDE DEF next
    <3> QED
      BY <1>1, <2>1, <2>2, GoesStep
  <2> QED
    BY <1>1, <1>6, <2>1, <2>3
<1>7. CASE releaseProjectLock(o) /\ Is(o, "clear")
  <2>1. lock' = [lock EXCEPT ![op[o].project] = None] /\ Goes(o, "over")
    BY <1>7 DEF releaseProjectLock, Is
  <2>2. SharedOK' /\ May(o, "over")
    BY <1>1, <1>2, <1>3, <2>1, Typed, Mays DEF Ends, NoneOr
  <2> QED
    BY <1>1, <1>7, <2>1, <2>2, GoesStep
<1> QED
  BY <1>4, <1>5, <1>6, <1>7 DEF acquireProjectLock, releaseProjectLock

\* Putting the copy on the list, and taking it off.
LEMMA ListSteps ==
  ASSUME Discipline, NEW o \in Op, registerFork(o) \/ unregisterFork(o)
  PROVE  /\ UNCHANGED <<lock, adoptions, copies, commits>> /\ o \in Adoption
         /\ Discipline' /\ Others(o)
         /\ \/ Is(o, "readForks") /\ Noted(o, "writeForks", forks, op[o].records) /\ UNCHANGED forks
            \/ Is(o, "writeForks") /\ Moved(o, "launch") /\ forks' = op[o].listed \cup {o}
            \/ Is(o, "readForksAgain") /\ Noted(o, "dropFork", forks, op[o].records) /\ UNCHANGED forks
            \/ /\ Is(o, "dropFork")
               /\ forks' = IF o \in op[o].listed THEN op[o].listed \ {o} ELSE forks
               /\ Moved(o, IF op[o].keeps THEN "readRecords" ELSE "release")
<1>1. /\ UNCHANGED <<lock, adoptions, copies, grown, commits, dirty, failures>> /\ op[o].at # "ready"
      /\ o \in Adoption /\ op[o].kind = "adopt" /\ op[o].listed \subseteq Adoption
  BY Kinds, Typed DEF registerFork, unregisterFork, Is, Operation
<1>2. forks' \subseteq Adoption => SharedOK'
  BY <1>1, SharedTyped DEF SharedOK
<1>3. \A at \in {"writeForks", "launch", "dropFork", "readRecords", "release"} : May(o, at)
  BY <1>1, Mays DEF AdoptAt, Ends, Before
<1>4. CASE Is(o, "readForks")
  <2>1. op' = [op EXCEPT ![o].at = "writeForks", ![o].listed = forks] /\ UNCHANGED forks
    BY <1>4 DEF registerFork, unregisterFork, Is
  <2>2. SharedOK'
    BY <1>2, <2>1, Typed
  <2> QED
    BY <1>1, <1>3, <1>4, <2>1, <2>2, ListStep
<1>5. CASE Is(o, "writeForks")
  <2>1. Wrote(o, "launch") /\ forks' = op[o].listed \cup {o}
    BY <1>5 DEF registerFork, unregisterFork, Is
  <2>2. SharedOK'
    BY <1>1, <1>2, <2>1
  <2> QED
    BY <1>1, <1>3, <1>5, <2>1, <2>2, WroteStep
<1>6. CASE Is(o, "readForksAgain")
  <2>1. op' = [op EXCEPT ![o].at = "dropFork", ![o].listed = forks] /\ UNCHANGED forks
    BY <1>6 DEF registerFork, unregisterFork, Is
  <2>2. SharedOK'
    BY <1>2, <2>1, Typed
  <2> QED
    BY <1>1, <1>3, <1>6, <2>1, <2>2, ListStep
<1>7. CASE Is(o, "dropFork")
  <2> DEFINE next == IF op[o].keeps THEN "readRecords" ELSE "release"
  <2>1. Wrote(o, next) /\ forks' = IF o \in op[o].listed THEN op[o].listed \ {o} ELSE forks
    BY <1>7 DEF registerFork, unregisterFork, Is
  <2>2. SharedOK'
    BY <1>1, <1>2, <2>1, Typed
  <2>3. May(o, next)
    BY <1>3
  <2>4. Discipline' /\ Others(o) /\ Moved(o, next)
    <3> HIDE DEF next
    <3> QED
      BY <1>1, <2>1, <2>2, <2>3, WroteStep
  <2> QED
    BY <1>1, <1>7, <2>1, <2>4
<1> QED
  BY <1>4, <1>5, <1>6, <1>7 DEF registerFork, unregisterFork

\* The start of the copy, and its end.
LEMMA CopySteps ==
  ASSUME Discipline, NEW o \in Op,
         launchAdoptionFork(o) \/ discardFork(o) \/ resolveAdoptedCopy(o) \/ AnswerCopy(o)
  PROVE  /\ UNCHANGED <<lock, adoptions, forks, commits>>
         /\ Discipline' /\ Others(o)
         /\ \/ Is(o, "launch") /\ Moved(o, "readForksAgain") /\ UNCHANGED copies
            \/ Is(o, "launch") /\ Moved(o, "running") /\ copies' \in {copies, copies \cup {o}}
            \/ Is(o, "discard") /\ Moved(o, "readForksAgain") /\ copies' \in {copies, copies \ {o}}
            \/ /\ Is(o, "copy") /\ Moved(o, "release")
               /\ copies' \in {copies, copies \ {op[o].copy}}
            \/ Is(o, "copy") /\ Moved(o, "askCopy") /\ UNCHANGED copies
            \/ /\ Is(o, "askCopy") /\ Quiet /\ Moved(o, "release")
               /\ copies' \in {copies, copies \ {op[o].copy}}
<1>1. UNCHANGED <<lock, adoptions, forks, grown, commits, dirty, failures>> /\ op[o].at # "ready"
  BY DEF launchAdoptionFork, discardFork, resolveAdoptedCopy, AnswerCopy, Is
<1>2. copies' \subseteq Adoption => SharedOK'
  BY <1>1, SharedTyped DEF SharedOK
<1>3. CASE launchAdoptionFork(o) \/ discardFork(o)
  <2>1. op[o].kind = "adopt" /\ o \in Adoption
    BY <1>3, Kinds DEF launchAdoptionFork, discardFork, Is
  <2>2. May(o, "readForksAgain") /\ May(o, "running")
    BY <1>1, <2>1, Mays DEF AdoptAt, Ends, Before
  <2>3. SharedOK'
    BY <1>2, <1>3, <2>1, Typed DEF launchAdoptionFork, discardFork
  <2> QED
    BY <1>1, <1>3, <2>1, <2>2, <2>3, GoesStep DEF launchAdoptionFork, discardFork
<1>4. CASE resolveAdoptedCopy(o) \/ AnswerCopy(o)
  <2>1. op[o].kind = "revert"
    BY <1>4, Kinds DEF resolveAdoptedCopy, AnswerCopy, Is
  <2>2. May(o, "release") /\ May(o, "askCopy")
    BY <1>1, <2>1, Mays DEF RevertAt, Ends
  <2>3. SharedOK'
    BY <1>2, <1>4, Typed DEF resolveAdoptedCopy, AnswerCopy
  <2> QED
    BY <1>1, <1>4, <2>2, <2>3, GoesStep DEF resolveAdoptedCopy, AnswerCopy
<1> QED
  BY <1>3, <1>4

\* What commits go under when new ones are made.
Under(b) == commits'[b] = commits[b] \/ (commits[b] = "last" /\ commits'[b] = "under")

LEMMA CommitStep ==
  ASSUME Discipline, NEW a \in Adoption, NEW p \in Project, Commit(a, p)
  PROVE  /\ commits' \in [Adoption -> Commits] /\ dirty' \subseteq Project
         /\ commits'[a] = "last" /\ \A b \in Adoption : b # a => Under(b)
<1>1. commits \in [Adoption -> Commits] /\ dirty \subseteq Project
  BY SharedTyped DEF SharedOK
<1> PICK over \in SUBSET {b \in Adoption \ {a} : commits[b] = "last" /\ op[b].project = p} :
       commits' = [b \in Adoption |-> IF b = a THEN "last" ELSE IF b \in over THEN "under" ELSE commits[b]]
  BY DEF Commit
<1> QED
  BY <1>1 DEF Commit, Commits, Under

LEMMA commitAdoptionStep ==
  ASSUME Discipline, NEW o \in Op, commitAdoption(o)
  PROVE  /\ UNCHANGED <<lock, adoptions, forks, copies>> /\ o \in Adoption /\ Is(o, "commit")
         /\ Discipline' /\ Others(o)
         /\ \/ /\ commits'[o] = "last" /\ \A b \in Adoption : b # o => Under(b)
               /\ Decided(o, "readForksAgain", op[o].prior)
            \/ /\ commits' = [commits EXCEPT ![o] = IF @ = "none" THEN "empty" ELSE @]
               /\ Decided(o, "readForksAgain", op[o].prior)
            \/ UNCHANGED commits /\ op[o].prior /\ Decided(o, "readForksAgain", TRUE)
            \/ UNCHANGED commits /\ ~op[o].prior /\ Moved(o, "release")
<1>1. /\ UNCHANGED <<lock, adoptions, forks, copies, grown, failures>> /\ Is(o, "commit")
      /\ op[o].at # "ready" /\ op[o].kind = "adopt" /\ o \in Adoption /\ op[o].prior \in BOOLEAN
  BY Kinds, Typed DEF commitAdoption, Is, Operation
<1>2. May(o, "readForksAgain") /\ May(o, "release") /\ op[o].project \in Project
  BY <1>1, Mays, Begun DEF AdoptAt, Ends
<1>3. CASE Commit(o, op[o].project) /\ Outcome(o, "readForksAgain", op[o].prior)
  <2>1. SharedOK'
    BY <1>1, <1>2, <1>3, CommitStep, SharedTyped DEF SharedOK
  <2> QED
    BY <1>1, <1>2, <1>3, <2>1, CommitStep, OutcomeStep
<1>4. CASE /\ IF op[o].prior THEN Outcome(o, "readForksAgain", TRUE) ELSE Goes(o, "release")
           /\ UNCHANGED <<commits, dirty>>
  <2>1. SharedOK'
    BY <1>1, <1>4, SharedTyped DEF SharedOK
  <2> QED
    BY <1>1, <1>2, <1>4, <2>1, OutcomeStep, GoesStep
<1>5. CASE /\ commits' = [commits EXCEPT ![o] = IF @ = "none" THEN "empty" ELSE @] /\ UNCHANGED dirty
           /\ Outcome(o, "readForksAgain", op[o].prior)
  <2>1. SharedOK'
    BY <1>1, <1>5, SharedTyped DEF SharedOK, Commits
  <2> QED
    BY <1>1, <1>2, <1>5, <2>1, OutcomeStep
<1> QED
  BY <1>3, <1>4, <1>5 DEF commitAdoption

\* The writes of adoptions.json.
Kept(o) == {r \in op[o].records : r.project # op[o].project}

LEMMA RecordSteps ==
  ASSUME Discipline, NEW o \in Op, SaveAdoption(o) \/ removeAdoptionRecord(o) \/ dropProjectAdoptions(o)
  PROVE  /\ UNCHANGED <<lock, forks, copies, commits>> /\ Is(o, "writeRecords")
         /\ Discipline' /\ Others(o)
         /\ \/ /\ op[o].kind = "adopt" /\ o \in Adoption /\ Moved(o, "release")
               /\ adoptions' = op[o].records \cup {Mine(o)}
            \/ op[o].kind = "revert" /\ Moved(o, "copy") /\ adoptions' = op[o].records \ {Mine(o)}
            \/ /\ op[o].kind = "remove" /\ Moved(o, "release")
               /\ adoptions' = IF Kept(o) = op[o].records THEN adoptions ELSE Kept(o)
<1>1. /\ UNCHANGED <<lock, forks, copies, grown, commits, dirty, failures>> /\ Is(o, "writeRecords")
      /\ op[o].at # "ready" /\ op[o].records \subseteq Record
  BY Typed DEF SaveAdoption, removeAdoptionRecord, dropProjectAdoptions, Is, Operation
<1>2. adoptions' \subseteq Record => SharedOK'
  BY <1>1, SharedTyped DEF SharedOK
<1>3. CASE SaveAdoption(o)
  <2>1. op[o].kind = "adopt" /\ Wrote(o, "release") /\ adoptions' = op[o].records \cup {Mine(o)}
    BY <1>3 DEF SaveAdoption
  <2>2. o \in Adoption /\ Mine(o) \in Record
    BY <1>1, <2>1, Begun DEF Mine, Record
  <2>3. May(o, "release") /\ SharedOK'
    BY <1>1, <1>2, <2>1, <2>2, Mays DEF Ends
  <2> QED
    BY <1>1, <2>1, <2>2, <2>3, WroteStep
<1>4. CASE removeAdoptionRecord(o)
  <2>1. op[o].kind = "revert" /\ Wrote(o, "copy") /\ adoptions' = op[o].records \ {Mine(o)}
    BY <1>4 DEF removeAdoptionRecord
  <2>2. May(o, "copy") /\ SharedOK'
    BY <1>1, <1>2, <2>1, Mays DEF RevertAt
  <2> QED
    BY <1>1, <2>1, <2>2, WroteStep
<1>5. CASE dropProjectAdoptions(o)
  <2>1. /\ op[o].kind = "remove" /\ Wrote(o, "release")
        /\ adoptions' = IF Kept(o) = op[o].records THEN adoptions ELSE Kept(o)
    BY <1>5 DEF dropProjectAdoptions, Kept
  <2>2. May(o, "release") /\ SharedOK'
    BY <1>1, <1>2, <2>1, Mays, Typed DEF Ends, Kept
  <2> QED
    BY <1>1, <2>1, <2>2, WroteStep
<1> QED
  BY <1>3, <1>4, <1>5

\* The commits that undo.
LEMMA UndoSteps ==
  ASSUME Discipline, NEW o \in Op, revertCommits(o) \/ finishRemoval(o)
  PROVE  /\ UNCHANGED <<adoptions, forks, copies>>
         /\ Discipline' /\ Others(o)
         /\ \/ /\ Is(o, "undo") /\ UNCHANGED lock /\ Moved(o, "readRecords")
               /\ commits' = [commits EXCEPT ![op[o].copy] = "undone"]
            \/ Is(o, "undo") /\ UNCHANGED <<lock, commits>> /\ Moved(o, "release")
            \/ /\ Is(o, "drop") /\ lock' = [lock EXCEPT ![op[o].project] = None] /\ Moved(o, "readRecords")
               /\ commits' = [a \in Adoption |-> IF op[a].project = op[o].project /\ commits[a] # "none"
                                                 THEN "removed" ELSE commits[a]]
<1>1. UNCHANGED <<adoptions, forks, copies, grown, failures>> /\ op[o].at # "ready"
  BY DEF revertCommits, finishRemoval, Is
<1>2. op[o].project \in Project /\ May(o, "readRecords") /\ May(o, "release")
  BY <1>1, Begun, Mays DEF Ends
<1>3. CASE revertCommits(o)
  <2>1. Is(o, "undo") /\ UNCHANGED <<lock, dirty>> /\ op[o].copy \in Adoption
    BY <1>1, <1>3, Kinds, Begun DEF revertCommits, Is
  <2>2. CASE Goes(o, "readRecords") /\ commits' = [commits EXCEPT ![op[o].copy] = "undone"]
    <3>1. SharedOK'
      BY <1>1, <2>1, <2>2, SharedTyped DEF SharedOK, Commits
    <3> QED
      BY <1>1, <1>2, <2>1, <2>2, <3>1, GoesStep
  <2>3. CASE Goes(o, "release") /\ UNCHANGED commits
    <3>1. SharedOK'
      BY <1>1, <2>1, <2>3, SharedTyped DEF SharedOK
    <3> QED
      BY <1>1, <1>2, <2>1, <2>3, <3>1, GoesStep
  <2> QED
    BY <1>3, <2>2, <2>3 DEF revertCommits
<1>4. CASE finishRemoval(o)
  <2>1. /\ Is(o, "drop") /\ lock' = [lock EXCEPT ![op[o].project] = None] /\ Goes(o, "readRecords")
        /\ commits' = [a \in Adoption |-> IF op[a].project = op[o].project /\ commits[a] # "none"
                                          THEN "removed" ELSE commits[a]]
        /\ dirty' = dirty \ {op[o].project}
    BY <1>4 DEF finishRemoval
  <2>2. SharedOK'
    BY <1>1, <1>2, <2>1, SharedTyped DEF SharedOK, Commits, NoneOr
  <2> QED
    BY <1>1, <1>2, <2>1, <2>2, GoesStep
<1> QED
  BY <1>3, <1>4

\* Deaths and exceptions.
LEMMA FailSteps ==
  ASSUME Discipline, NEW o \in Op, Throw(o) \/ Die(o)
  PROVE  /\ UNCHANGED <<adoptions, forks, copies, commits>>
         /\ op[o].at \in AtWork \cup Waiting
         /\ Is(o, "drop") \/ UNCHANGED lock
         /\ Is(o, "drop") => lock' = [lock EXCEPT ![op[o].project] = None]
         /\ Discipline' /\ Others(o)
         /\ \/ op[o].at # "running" /\ (Failed(o, "over") \/ (Throw(o) /\ Failed(o, "release")))
            \/ op[o].at = "running" /\ Failed(o, "left")
<1>1. /\ UNCHANGED <<adoptions, forks, copies, grown, commits>> /\ op[o].at # "ready"
      /\ op[o].at \in AtWork \cup Waiting
      /\ LeavesHalf(o) /\ failures' \in 0 .. MaxFailures
  <2>1. failures < MaxFailures /\ failures' = failures + 1 => failures' \in 0 .. MaxFailures
    BY SharedTyped, BoundAssumption DEF SharedOK
  <2> QED
    BY <2>1 DEF Throw, Die, AtWork, Waiting, Fails
<1>2. op[o].project \in Project
  BY <1>1, Begun
<1>3. /\ Is(o, "drop") \/ UNCHANGED lock
      /\ Is(o, "drop") => lock' = [lock EXCEPT ![op[o].project] = None]
  BY <1>1 DEF LeavesHalf
<1>4. SharedOK'
  BY <1>1, <1>2, SharedTyped DEF SharedOK, LeavesHalf, NoneOr
<1>5. CASE Throw(o)
  <2>1. PICK at \in {"over", "release"} : op' = [op EXCEPT ![o].at = at, ![o].failed = TRUE]
    BY <1>5 DEF Throw
  <2>2. May(o, at) /\ op[o].at # "running"
    BY <1>1, <1>5, Mays DEF Ends, Throw, AtWork
  <2> QED
    BY <1>1, <1>3, <1>4, <1>5, <2>1, <2>2, FailStep
<1>6. CASE Die(o) /\ op[o].at = "running"
  <2>1. op' = [op EXCEPT ![o].at = "left", ![o].failed = TRUE]
    BY <1>6 DEF Die
  <2>2. o \in Adoption
    BY <1>6, Kinds
  <2> QED
    BY <1>1, <1>3, <1>4, <1>6, <2>1, <2>2, FailStep
<1>7. CASE Die(o) /\ op[o].at # "running"
  <2>1. op' = [op EXCEPT ![o].at = "over", ![o].failed = TRUE]
    BY <1>7 DEF Die
  <2>2. May(o, "over")
    BY <1>1, Mays DEF Ends
  <2> QED
    BY <1>1, <1>3, <1>4, <1>7, <2>1, <2>2, FailStep
<1> QED
  BY <1>5, <1>6, <1>7

\* The steps of the rest of the world.
LEMMA WorldSteps ==
  ASSUME Discipline,
         \/ \E a \in Adoption : Works(a) \/ Continues(a)
         \/ \E p \in Project : OthersCommit(p) \/ UndoneByHand(p)
         \/ Cleanup
  PROVE  /\ UNCHANGED <<op, lock, adoptions>> /\ Quiet /\ Discipline'
         /\ \/ /\ UNCHANGED <<forks, copies>>
               /\ \E a \in Adoption :
                    /\ op[a].at \in {"running", "left"} \/ \E r \in adoptions : r.copy = a
                    /\ commits'[a] = "last" /\ \A b \in Adoption : b # a => Under(b)
            \/ UNCHANGED <<forks, copies>> /\ \A b \in Adoption : Under(b)
            \/ /\ UNCHANGED commits
               /\ \E a \in forks : Gone(a) /\ forks' = forks \ {a} /\ copies' = copies \ {a}
<1>1. UNCHANGED <<op, lock, adoptions, failures>> /\ Quiet
  BY DEF Works, Continues, OthersCommit, UndoneByHand, Cleanup
<1>2. SharedOK' => Discipline'
  BY <1>1 DEF Discipline, TypeOK, SharedOK, Remembers, Ready
<1>3. ASSUME NEW a \in Adoption, Works(a)
      PROVE  /\ UNCHANGED <<forks, copies>> /\ op[a].at \in {"running", "left"}
             /\ SharedOK'
             /\ \/ commits'[a] = "last" /\ \A b \in Adoption : b # a => Under(b)
                \/ \A b \in Adoption : Under(b)
  <2>1. a \in Op /\ op[a].at \in {"running", "left"} /\ UNCHANGED <<forks, copies, grown>>
    BY <1>3 DEF Works, Op
  <2>2. op[a].project \in Project
    BY <2>1, Begun
  <2>3. CASE Commit(a, op[a].project)
    BY <1>1, <2>1, <2>2, <2>3, CommitStep, SharedTyped DEF SharedOK
  <2>4. CASE dirty' = dirty \cup {op[a].project} /\ UNCHANGED commits
    BY <1>1, <2>1, <2>2, <2>4, SharedTyped DEF SharedOK, Under
  <2> QED
    BY <1>3, <2>1, <2>3, <2>4 DEF Works
<1>4. ASSUME NEW a \in Adoption, Continues(a)
      PROVE  /\ UNCHANGED <<forks, copies>> /\ \E r \in adoptions : r.copy = a
             /\ SharedOK'
             /\ \/ commits'[a] = "last" /\ \A b \in Adoption : b # a => Under(b)
                \/ \A b \in Adoption : Under(b)
  <2>1. PICK r \in adoptions : r.copy = a /\ (Commit(a, r.project) \/ UNCHANGED <<commits, dirty>>)
    BY <1>4 DEF Continues
  <2>2. r.project \in Project /\ UNCHANGED <<forks, copies>> /\ grown' = grown \cup {a}
    BY <1>4, SharedTyped DEF SharedOK, Record, Continues
  <2>3. CASE Commit(a, r.project)
    BY <1>1, <2>1, <2>2, <2>3, CommitStep, SharedTyped DEF SharedOK
  <2>4. CASE UNCHANGED <<commits, dirty>>
    BY <1>1, <2>1, <2>2, <2>4, SharedTyped DEF SharedOK, Under
  <2> QED
    BY <2>1, <2>3, <2>4
<1>5. ASSUME NEW p \in Project, OthersCommit(p)
      PROVE  UNCHANGED <<forks, copies>> /\ SharedOK' /\ \A b \in Adoption : Under(b)
  <2> PICK over \in SUBSET {a \in Adoption : commits[a] = "last" /\ op[a].project = p} :
         commits' = [a \in Adoption |-> IF a \in over THEN "under" ELSE commits[a]]
    BY <1>5 DEF OthersCommit
  <2>1. UNCHANGED <<forks, copies, grown>> /\ dirty' = dirty \ {p}
    BY <1>5 DEF OthersCommit
  <2> QED
    BY <1>1, <2>1, SharedTyped DEF SharedOK, Commits, Under
<1>6. ASSUME Cleanup
      PROVE  /\ SharedOK' /\ UNCHANGED commits
             /\ \E a \in forks : Gone(a) /\ forks' = forks \ {a} /\ copies' = copies \ {a}
  BY <1>1, <1>6, SharedTyped DEF SharedOK, Cleanup
<1>7. ASSUME NEW p \in Project, UndoneByHand(p)
      PROVE  UNCHANGED <<forks, copies>> /\ SharedOK' /\ \A b \in Adoption : Under(b)
  BY <1>1, <1>7, SharedTyped DEF SharedOK, UndoneByHand, Under
<1> QED
  BY <1>1, <1>2, <1>3, <1>4, <1>5, <1>6, <1>7

\* Every step keeps the types, and is of one operation or of none.
LEMMA DisciplineKept ==
  ASSUME Discipline, [Next]_vars
  PROVE  Discipline'
<1>1. ASSUME NEW o \in Op, Advance(o) PROVE Discipline'
  BY <1>1, adoptSessionStep, revertAdoptionStep, removeProjectStep, QuietStep, DecisionStep, LockStep,
     ListSteps, CopySteps, commitAdoptionStep, ReadRecordsStep, RecordSteps, UndoSteps, FailSteps
  DEF Advance
<1>2. CASE UNCHANGED vars
  BY <1>2 DEF vars, Discipline, TypeOK, Remembers, Ready
<1> QED
  BY <1>1, <1>2, WorldSteps DEF Next

LEMMA AlwaysDiscipline == Spec => []Discipline
<1>1. Init => Discipline
  BY ReadyType, BoundAssumption DEF Init, Discipline, TypeOK, Commits, NoneOr
<1> QED
  BY <1>1, DisciplineKept, PTL DEF Spec

\* The variables keep their types, in any interleaving of operations.
THEOREM TypeCorrect == Spec => []TypeOK
BY AlwaysDiscipline, PTL DEF Discipline

-----------------------------------------------------------------------------
(* What a record tells of, in any interleaving of operations *)

\* The adoption of a record has begun, for its session and in its project, and its copy
\* has made commits, or came to its own commit with nothing left to commit.
Genuine(r) ==
  /\ op[r.copy].at # "ready" /\ commits[r.copy] # "none"
  /\ op[r.copy].session = r.session /\ op[r.copy].project = r.project

\* A record, and a record that a revert undoes, tell the truth, even while adoptions,
\* reverts and removals write adoptions.json over each other.
RecordsAreEarned ==
  /\ \A r \in adoptions : Genuine(r)
  /\ \A u \in Undoing : op[u].kind = "revert" => Genuine(Mine(u))

\* An adoption on its way to a record.
Owing(a) == op[a].keeps \/ op[a].prior \/ op[a].at \in {"readRecords", "writeRecords"}

Earned ==
  /\ Discipline /\ RecordsAreEarned
  /\ \A o \in Op : \A r \in op[o].records : Genuine(r)
  /\ \A a \in Adoption : Owing(a) => commits[a] # "none"

NoneComesBack == \A a \in Adoption : commits[a] # "none" => commits'[a] # "none"

\* What a step of one operation does to what was earned.
Adds(o) ==
  /\ Discipline' /\ Others(o) /\ NoneComesBack
  /\ op'[o].at # "ready"
  /\ op'[o].records \subseteq op[o].records \cup adoptions
  /\ \A r \in adoptions' :
       \/ r \in adoptions \cup op[o].records
       \/ o \in Adoption /\ Is(o, "writeRecords") /\ r = Mine(o)
  /\ o \in Adoption => (Owing(o)' => Owing(o) \/ commits'[o] # "none")
  /\ op[o].at = "ready" => (op'[o].kind = "revert" => Mine(o)' \in adoptions)
  /\ op[o].at # "ready" => Same(o)

LEMMA BeginsAdds ==
  ASSUME Discipline, NEW o \in Op, adoptSession(o) \/ revertAdoption(o) \/ removeProject(o)
  PROVE  Adds(o)
<1>1. o \in Adoption => o \notin Undoing
  BY OperationAssumption
<1>2. CASE adoptSession(o)
  <2>1. PICK s \in Session, p \in Project : Started(o, s, p)
    BY <1>2, adoptSessionStep
  <2>2. ~Owing(o)'
    BY <2>1 DEF Started, Owing
  <2> QED
    BY <1>2, <2>1, <2>2, adoptSessionStep DEF Adds, Started, NoneComesBack, shared, Is
<1>3. CASE revertAdoption(o)
  <2>1. Mine(o)' \in adoptions
    <3>1. PICK r \in adoptions : /\ op'[o].session = r.session
                                 /\ op'[o].project = r.project /\ op'[o].copy = r.copy
      BY <1>3, revertAdoptionStep
    <3>2. r = [session |-> r.session, copy |-> r.copy, project |-> r.project]
      BY Typed DEF Record
    <3> QED
      BY <3>1, <3>2 DEF Mine
  <2> QED
    BY <1>1, <1>3, <2>1, revertAdoptionStep DEF Adds, NoneComesBack, shared, Is
<1>4. CASE removeProject(o)
  BY <1>1, <1>4, removeProjectStep DEF Adds, NoneComesBack, shared, Is
<1> QED
  BY <1>2, <1>3, <1>4

\* A step of an operation at work that leaves records and commits as they are.
LEMMA MovesAdds ==
  ASSUME Discipline, NEW o \in Op, op[o].at # "ready", Discipline', Others(o), Same(o), NoneComesBack,
         UNCHANGED adoptions, op'[o].at # "ready", op'[o].records \subseteq op[o].records \cup adoptions,
         o \in Adoption => (Owing(o)' => Owing(o) \/ commits'[o] # "none")
  PROVE  Adds(o)
BY DEF Adds

\* The places an adoption comes to that are not on its way to a record.
LEMMA GoesAdds ==
  ASSUME Discipline, NEW o \in Op, op[o].at # "ready", Discipline', Others(o), NoneComesBack,
         UNCHANGED adoptions, NEW at, at # "ready",
         Moved(o, at) \/ Failed(o, at) \/ (\E listed : Noted(o, at, listed, op[o].records)),
         o \in Adoption => (at \in {"readRecords", "writeRecords"} => Owing(o))
  PROVE  Adds(o)
<1>1. /\ op'[o].at = at /\ Same(o) /\ op'[o].records \in {op[o].records, {}}
      /\ op'[o].prior = op[o].prior /\ op'[o].keeps = op[o].keeps
  BY DEF Moved, Failed, Noted
<1>2. o \in Adoption => (Owing(o)' => Owing(o))
  BY <1>1 DEF Owing
<1> QED
  BY <1>1, <1>2, MovesAdds

LEMMA DecidesAdds ==
  ASSUME Discipline, NEW o \in Op, finishAdoption(o) \/ AnswerCommit(o) \/ commitAdoption(o)
  PROVE  Adds(o)
<1>1. op[o].at # "ready"
  BY DEF finishAdoption, AnswerCommit, commitAdoption, Is
<1>2. CASE finishAdoption(o)
  <2>1. PICK next \in {"askCommit", "readForksAgain", "discard"} :
          /\ Decided(o, next, commits[o] # "none")
          /\ next = "readForksAgain" => commits[o] # "none"
    BY <1>2, DecisionStep DEF finishAdoption, AnswerCommit, Is
  <2>2. Discipline' /\ Others(o) /\ NoneComesBack /\ UNCHANGED <<adoptions, commits>>
    BY <1>2, DecisionStep DEF NoneComesBack, shared
  <2>3. Owing(o)' => commits'[o] # "none"
    BY <2>1, <2>2 DEF Decided, Owing
  <2> QED
    BY <1>1, <2>1, <2>2, <2>3, MovesAdds DEF Decided
<1>3. CASE AnswerCommit(o)
  <2>1. Discipline' /\ Others(o) /\ NoneComesBack /\ UNCHANGED <<adoptions, commits>>
    BY <1>3, DecisionStep DEF NoneComesBack, shared
  <2>2. \/ Moved(o, "commit") \/ Moved(o, "discard") \/ Moved(o, "release")
        \/ op[o].prior /\ Decided(o, "readForksAgain", TRUE)
    BY <1>3, DecisionStep DEF finishAdoption, AnswerCommit, Is
  <2>3. CASE op[o].prior /\ Decided(o, "readForksAgain", TRUE)
    BY <1>1, <2>1, <2>3, MovesAdds DEF Decided, Owing
  <2>4. ASSUME NEW at \in {"commit", "discard", "release"}, Moved(o, at) PROVE Adds(o)
    BY <1>1, <2>1, <2>4, GoesAdds
  <2> QED
    BY <2>2, <2>3, <2>4
<1>4. CASE commitAdoption(o)
  <2>1. Discipline' /\ Others(o) /\ UNCHANGED adoptions
    BY <1>4, commitAdoptionStep
  <2>2. CASE /\ commits'[o] = "last" /\ \A b \in Adoption : b # o => Under(b)
             /\ Decided(o, "readForksAgain", op[o].prior)
    <3>1. NoneComesBack
      BY <2>2 DEF NoneComesBack, Under
    <3> QED
      BY <1>1, <2>1, <2>2, <3>1, MovesAdds DEF Decided
  <2>3. CASE UNCHANGED commits /\ op[o].prior /\ Decided(o, "readForksAgain", TRUE)
    <3>1. NoneComesBack
      BY <2>3 DEF NoneComesBack
    <3> QED
      BY <1>1, <2>1, <2>3, <3>1, MovesAdds DEF Decided, Owing
  <2>5. CASE /\ commits' = [commits EXCEPT ![o] = IF @ = "none" THEN "empty" ELSE @]
             /\ Decided(o, "readForksAgain", op[o].prior)
    <3>1. commits \in [Adoption -> Commits] /\ o \in Adoption
      BY <1>4, commitAdoptionStep, SharedTyped DEF SharedOK
    <3>2. NoneComesBack /\ commits'[o] # "none"
      BY <2>5, <3>1 DEF NoneComesBack
    <3> QED
      BY <1>1, <2>1, <2>5, <3>2, MovesAdds DEF Decided
  <2>4. CASE UNCHANGED commits /\ Moved(o, "release")
    <3>1. NoneComesBack
      BY <2>4 DEF NoneComesBack
    <3> QED
      BY <1>1, <2>1, <2>4, <3>1, GoesAdds
  <2> QED
    BY <1>4, <2>2, <2>3, <2>4, <2>5, commitAdoptionStep
<1> QED
  BY <1>2, <1>3, <1>4

LEMMA FilesAdds ==
  ASSUME Discipline, NEW o \in Op,
         \/ registerFork(o) \/ unregisterFork(o)
         \/ launchAdoptionFork(o) \/ discardFork(o) \/ resolveAdoptedCopy(o) \/ AnswerCopy(o)
  PROVE  Adds(o)
<1>1. op[o].at # "ready"
  BY DEF registerFork, unregisterFork, launchAdoptionFork, discardFork, resolveAdoptedCopy, AnswerCopy, Is
<1>2. Discipline' /\ Others(o) /\ UNCHANGED adoptions /\ NoneComesBack
  BY ListSteps, CopySteps DEF NoneComesBack
<1>3. CASE registerFork(o) \/ unregisterFork(o)
  <2>1. \/ Noted(o, "writeForks", forks, op[o].records) \/ Moved(o, "launch")
        \/ Noted(o, "dropFork", forks, op[o].records)
        \/ Moved(o, IF op[o].keeps THEN "readRecords" ELSE "release")
    BY <1>3, ListSteps
  <2>2. CASE Moved(o, IF op[o].keeps THEN "readRecords" ELSE "release")
    <3>1. op[o].keeps => Owing(o)
      BY DEF Owing
    <3> QED
      BY <1>1, <1>2, <2>2, <3>1, GoesAdds
  <2>3. CASE Noted(o, "writeForks", forks, op[o].records) \/ Noted(o, "dropFork", forks, op[o].records)
    BY <1>1, <1>2, <2>3, GoesAdds
  <2> QED
    BY <1>1, <1>2, <2>1, <2>2, <2>3, GoesAdds
<1>4. CASE launchAdoptionFork(o) \/ discardFork(o) \/ resolveAdoptedCopy(o) \/ AnswerCopy(o)
  <2>1. \/ Moved(o, "readForksAgain") \/ Moved(o, "running") \/ Moved(o, "release") \/ Moved(o, "askCopy")
    BY <1>4, CopySteps
  <2> QED
    BY <1>1, <1>2, <2>1, GoesAdds
<1> QED
  BY <1>3, <1>4

LEMMA PlainAdds ==
  ASSUME Discipline, NEW o \in Op,
         \/ AnswerLaunch(o) \/ HarnessCloses(o) \/ planRevert(o) \/ AnswerUndoing(o)
         \/ acquireProjectLock(o) \/ releaseProjectLock(o) \/ Throw(o) \/ Die(o)
  PROVE  Adds(o)
<1>1. op[o].at # "ready"
  BY DEF AnswerLaunch, HarnessCloses, planRevert, AnswerUndoing, acquireProjectLock, releaseProjectLock,
         Throw, Die, Is, AtWork, Waiting
<1>2. Discipline' /\ Others(o) /\ UNCHANGED adoptions /\ NoneComesBack
  BY QuietStep, LockStep, FailSteps DEF NoneComesBack, shared
<1>3. PICK at \in {"acquire", "over", "look", "askRevert", "release", "undo", "drop", "readForks", "plan",
                   "askRemove", "left", "writeLock", "clear"} :
        Moved(o, at) \/ Failed(o, at)
  BY QuietStep, LockStep, FailSteps
<1> QED
  BY <1>1, <1>2, <1>3, GoesAdds

LEMMA UndoesAdds ==
  ASSUME Discipline, NEW o \in Op, revertCommits(o) \/ finishRemoval(o)
  PROVE  Adds(o)
<1>1. op[o].at # "ready" /\ o \notin Adoption
  BY Kinds, OperationAssumption DEF revertCommits, finishRemoval, Is
<1>2. Discipline' /\ Others(o) /\ UNCHANGED adoptions
  BY UndoSteps
<1>3. NoneComesBack
  <2>1. commits \in [Adoption -> Commits]
    BY SharedTyped DEF SharedOK
  <2> QED
    BY <2>1, UndoSteps DEF NoneComesBack
<1>4. Moved(o, "readRecords") \/ Moved(o, "release")
  BY UndoSteps
<1> QED
  BY <1>1, <1>2, <1>3, <1>4, GoesAdds

LEMMA RecordsAdds ==
  ASSUME Discipline, NEW o \in Op,
         ReadRecords(o) \/ SaveAdoption(o) \/ removeAdoptionRecord(o) \/ dropProjectAdoptions(o)
  PROVE  Adds(o)
<1>1. op[o].at # "ready"
  BY DEF ReadRecords, SaveAdoption, removeAdoptionRecord, dropProjectAdoptions, Is
<1>2. CASE ReadRecords(o)
  <2>1. UNCHANGED <<adoptions, commits>> /\ Is(o, "readRecords")
    BY <1>2 DEF ReadRecords
  <2>2. Discipline' /\ Others(o) /\ Noted(o, "writeRecords", op[o].listed, adoptions)
    BY <1>2, ReadRecordsStep
  <2> QED
    BY <1>1, <2>1, <2>2, MovesAdds DEF Noted, Owing, Is, NoneComesBack
<1>3. CASE SaveAdoption(o) \/ removeAdoptionRecord(o) \/ dropProjectAdoptions(o)
  <2>1. UNCHANGED commits /\ Is(o, "writeRecords") /\ Discipline' /\ Others(o)
    BY <1>3, RecordSteps
  <2>2. Moved(o, "release") \/ Moved(o, "copy")
    BY <1>3, RecordSteps
  <2>3. \A r \in adoptions' :
          r \in adoptions \cup op[o].records \/ (o \in Adoption /\ r = Mine(o))
    BY <1>3, RecordSteps DEF Kept
  <2>4. Owing(o)' => Owing(o)
    BY <2>2 DEF Moved, Owing
  <2> QED
    BY <1>1, <2>1, <2>2, <2>3, <2>4 DEF Adds, Moved, NoneComesBack
<1> QED
  BY <1>2, <1>3

LEMMA EveryStepAdds == ASSUME Discipline, NEW o \in Op, Advance(o) PROVE Adds(o)
BY BeginsAdds, DecidesAdds, FilesAdds, PlainAdds, UndoesAdds, RecordsAdds DEF Advance

\* A record stays genuine: its adoption has begun, and commits do not become none.
LEMMA StaysGenuine ==
  ASSUME Earned, NEW o \in Op, Adds(o), NEW r \in Record, Genuine(r)
  PROVE  Genuine(r)'
<1>1. r.copy \in Adoption /\ r.copy \in Op
  BY DEF Record, Op
<1>2. CASE r.copy = o
  BY <1>1, <1>2 DEF Genuine, Adds, NoneComesBack, Same
<1>3. CASE r.copy # o
  BY <1>1, <1>3 DEF Genuine, Adds, NoneComesBack, Others
<1> QED
  BY <1>2, <1>3

LEMMA RevertsHaveBegun ==
  ASSUME Discipline, NEW u \in Undoing, op[u].kind = "revert"
  PROVE  Mine(u) \in Record
<1>1. u \in Op /\ u \notin Adoption
  BY OperationAssumption DEF Op
<1>2. op[u] # Ready(u)
  BY DEF Ready
<1>3. Remembers(u, op[u])
  BY <1>1, Typed
<1>4. op[u].copy \in Adoption /\ op[u].session \in Session /\ op[u].project \in Project
  BY <1>1, <1>2, <1>3 DEF Remembers
<1> QED
  BY <1>4 DEF Mine, Record

LEMMA EarnedStep ==
  ASSUME Earned, NEW o \in Op, Advance(o)
  PROVE  Earned'
<1>1. Discipline /\ Adds(o)
  BY EveryStepAdds DEF Earned
<1>2. /\ Discipline' /\ Others(o) /\ NoneComesBack /\ op'[o].at # "ready"
      /\ op[o].records \subseteq Record /\ adoptions \subseteq Record
  BY <1>1, Typed DEF Adds, Operation
<1>3. \A r \in adoptions \cup op[o].records : Genuine(r)'
  BY <1>1, <1>2, StaysGenuine DEF Earned, RecordsAreEarned
<1>4. \A r \in adoptions' : Genuine(r)'
  <2> SUFFICES ASSUME o \in Adoption, Is(o, "writeRecords"), NEW r, r = Mine(o) PROVE Genuine(r)'
    BY <1>1, <1>3 DEF Adds
  <2>1. commits[o] # "none" /\ op[o].at # "ready"
    BY DEF Earned, Owing, Is
  <2>2. op[o].copy = o
    BY <1>1, <2>1, Begun
  <2>3. /\ op'[o].at # "ready" /\ commits'[o] # "none"
        /\ op'[o].session = op[o].session /\ op'[o].project = op[o].project /\ op'[o].copy = o
    BY <1>1, <1>2, <2>1, <2>2 DEF Adds, Same, NoneComesBack
  <2>4. r.copy = o /\ r.session = op[o].session /\ r.project = op[o].project
    BY <2>2 DEF Mine
  <2> QED
    BY <2>3, <2>4 DEF Genuine
<1>5. ASSUME NEW u \in Undoing, op'[u].kind = "revert" PROVE Genuine(Mine(u))'
  <2>1. u \in Op
    BY DEF Op
  <2>2. CASE u = o /\ op[o].at = "ready"
    <3>1. Mine(o)' \in adoptions
      BY <1>1, <1>5, <2>2 DEF Adds
    <3>2. PICK r \in adoptions : r = Mine(o)'
      BY <3>1
    <3> QED
      BY <1>3, <2>2, <3>2 DEF Genuine
  <2>3. CASE u # o \/ op[o].at # "ready"
    <3>1. /\ op'[u].kind = op[u].kind /\ op'[u].session = op[u].session
          /\ op'[u].project = op[u].project /\ op'[u].copy = op[u].copy
      BY <1>1, <1>2, <2>1, <2>3 DEF Adds, Same, Others
    <3>2. Genuine(Mine(u)) /\ op[u].kind = "revert"
      BY <1>5, <3>1 DEF Earned, RecordsAreEarned
    <3>4. Mine(u) \in Record
      BY <1>1, <3>2, RevertsHaveBegun
    <3>5. Mine(u)' = Mine(u)
      BY <3>1 DEF Mine
    <3>6. PICK r \in Record : r = Mine(u) /\ Genuine(r)
      BY <3>2, <3>4
    <3> QED
      BY <3>5, <3>6, <1>1, StaysGenuine DEF Genuine
  <2> QED
    BY <2>2, <2>3
<1>6. ASSUME NEW q \in Op, NEW r \in op'[q].records PROVE Genuine(r)'
  <2>1. CASE q = o
    BY <1>1, <1>3, <1>6, <2>1 DEF Adds
  <2>2. CASE q # o
    <3>1. r \in op[q].records /\ r \in Record
      BY <1>1, <1>2, <1>6, <2>2, Typed DEF Others, Operation
    <3> QED
      BY <1>1, <3>1, StaysGenuine DEF Earned
  <2> QED
    BY <2>1, <2>2
<1>7. ASSUME NEW a \in Adoption, Owing(a)' PROVE commits'[a] # "none"
  <2>1. a \in Op
    BY DEF Op
  <2>2. Owing(a) \/ commits'[a] # "none"
    <3>1. CASE a = o
      BY <1>1, <1>7, <3>1 DEF Adds
    <3>2. CASE a # o
      BY <1>2, <1>7, <2>1, <3>2 DEF Others, Owing
    <3> QED
      BY <3>1, <3>2
  <2> QED
    BY <1>2, <2>2 DEF Earned, NoneComesBack
<1> QED
  BY <1>2, <1>4, <1>5, <1>6, <1>7 DEF Earned, RecordsAreEarned

\* The rest of the world takes no operation back, and no commits.
LEMMA EarnedElsewhere ==
  ASSUME Earned,
         \/ \E a \in Adoption : Works(a) \/ Continues(a)
         \/ \E p \in Project : OthersCommit(p) \/ UndoneByHand(p)
         \/ Cleanup
  PROVE  Earned'
<1>1. UNCHANGED <<op, adoptions>> /\ Discipline'
  BY WorldSteps DEF Earned
<1>2. NoneComesBack
  BY WorldSteps DEF Earned, NoneComesBack, Under
<1>3. ASSUME NEW r \in Record, Genuine(r) PROVE Genuine(r)'
  BY <1>1, <1>2, <1>3 DEF Genuine, NoneComesBack, Record
<1>4. adoptions \subseteq Record /\ \A o \in Op : op[o].records \subseteq Record
  BY Typed DEF Earned, Discipline, TypeOK, Operation
<1>5. ASSUME NEW u \in Undoing, op[u].kind = "revert" PROVE Genuine(Mine(u))'
  <2>3. Mine(u) \in Record
    BY <1>5, RevertsHaveBegun DEF Earned
  <2>4. PICK r \in Record : r = Mine(u) /\ Genuine(r)
    BY <1>5, <2>3 DEF Earned, RecordsAreEarned
  <2>5. Mine(u)' = Mine(u)
    BY <1>1 DEF Mine
  <2> QED
    BY <1>3, <2>4, <2>5 DEF Genuine
<1>6. \A a \in Adoption : Owing(a)' => commits'[a] # "none"
  BY <1>1, <1>2 DEF Earned, Owing, NoneComesBack
<1> QED
  BY <1>1, <1>3, <1>4, <1>5, <1>6 DEF Earned, RecordsAreEarned

LEMMA AlwaysEarned == Spec => []Earned
<1>1. Init => RecordsAreEarned /\ (\A o \in Op : op[o].records = {}) /\ \A a \in Adoption : ~Owing(a)
  BY DEF Init, Ready, RecordsAreEarned, Owing, Op
<1>2. Init /\ Discipline => Earned
  BY <1>1 DEF Earned
<1>3. Earned /\ [Next]_vars => Earned'
  <2> SUFFICES ASSUME Earned, [Next]_vars PROVE Earned'
    OBVIOUS
  <2>1. CASE UNCHANGED vars
    BY <2>1 DEF vars, Earned, Discipline, TypeOK, Remembers, Ready, RecordsAreEarned, Genuine, Mine, Owing
  <2> QED
    BY <2>1, EarnedStep, EarnedElsewhere DEF Next
<1> QED
  BY <1>2, <1>3, AlwaysDiscipline, PTL DEF Spec

\* The record of an adoption is of a copy that was made for that session and has made
\* commits in that project, or whose own commit found nothing left to commit (the edits
\* were undone, or another operation has committed them), whichever operations overlap,
\* die or throw.
THEOREM RecordsAreAlwaysEarned == Spec => []RecordsAreEarned
BY AlwaysEarned, PTL DEF Earned

-----------------------------------------------------------------------------
(* The inductive invariant of operations that do not overlap *)

Busy(o)     == op[o].at \in AtWork
Promoted(c) == \E r \in adoptions : r.copy = c
Live        == {"last", "under"}
Undone      == {"undone", "removed"}
Recordable  == Live \cup {"empty"}

Alone == \A o, q \in Op : Busy(o) /\ Busy(q) => o = q

\* One session is in the hands of one adoption.
Apart == \A a, b \in Adoption :
           a # b /\ op[a].session = op[b].session /\ op[a].session # None => Gone(a) \/ Gone(b)

\* What was read of a file, or of a lock, is what it holds.
ReadsTrue(o) ==
  /\ op[o].at = "writeLock" => IsFree(op[o].project)
  /\ op[o].at \in {"writeForks", "dropFork"} => op[o].listed = forks
  /\ op[o].at = "writeRecords" => op[o].records = adoptions

Holds(o) ==
  \/ op[o].at \in {"readForks", "writeForks", "launch", "running", "look", "askCommit", "commit", "discard",
                   "readForksAgain", "dropFork", "askRemove", "drop", "clear"}
  \/ op[o].kind = "adopt" /\ op[o].at \in {"readRecords", "writeRecords"}

Locks(o) == Holds(o) => lock[op[o].project] = o

\* A record is of an adoption that has ended, of a copy off the list and with commits.
Recorded(r) ==
  /\ op[r.copy].session = r.session /\ op[r.copy].project = r.project
  /\ op[r.copy].at \in Ends
  /\ r.copy \notin forks /\ commits[r.copy] # "none"

\* The session of an adoption under way has no record.
Unrecorded(a) ==
  op[a].at \in AdoptAt \ ({"ready", "left"} \cup Ends) => \A r \in adoptions : r.session # op[a].session

\* What the copy has committed, by how far its adoption is.
Committed(a) ==
  /\ op[a].at \in Before \cup {"discard"} => commits[a] = "none"
  /\ op[a].at \in {"running", "look"} => commits[a] \in {"none"} \cup Live
  /\ op[a].at \in {"askCommit", "commit"} => commits[a] \in IF op[a].prior THEN Live ELSE {"none"}
  /\ op[a].at \in {"readForksAgain", "dropFork"} => commits[a] \in IF op[a].keeps THEN Recordable ELSE {"none"}
  /\ op[a].at \in {"readRecords", "writeRecords"} => commits[a] \in Recordable /\ a \notin forks
  /\ op[a].at \in Ends /\ ~op[a].failed /\ a \in forks => commits[a] = "none"
  /\ op[a].at \in Before \cup {"running", "look", "askCommit", "commit", "discard"} => ~op[a].keeps

\* What a revert, or a removal, undoes.
Undoes(u) ==
  /\ op[u].kind = "revert" /\ op[u].at # "over" =>
       LET c == op[u].copy
       IN  /\ op[c].at \in Ends /\ c \notin forks
           /\ op[u].session = op[c].session /\ op[u].project = op[c].project
           /\ op[u].at \in {"readRecords", "writeRecords", "copy", "askCopy"} => commits[c] \in Undone
           /\ op[u].at \in {"copy", "askCopy"} => ~Promoted(c)
  /\ op[u].kind = "remove" /\ op[u].at \in {"readRecords", "writeRecords"} =>
       \A r \in adoptions : r.project = op[u].project => commits[r.copy] \in Undone

SerialInv ==
  /\ Alone /\ Apart
  /\ \A o \in Op : ReadsTrue(o) /\ Locks(o)
  /\ \A r \in adoptions : Recorded(r)
  /\ \A a \in Adoption : Unrecorded(a) /\ Committed(a)
  /\ \A u \in Undoing : Undoes(u)

\* Whatever an operation does, it does in its turn; one that is over does nothing.
Turn(o) ==
  /\ Discipline' /\ Others(o) /\ ~Gone(o)
  /\ Busy(o) \/ Quiet \/ Die(o)
  /\ op'[o].at \in AtWork => Busy(o) \/ Quiet
  /\ op[o].at \in Ends => op'[o].at \in Ends
  /\ adoptSession(o) \/ (o \in Undoing /\ Is(o, "ready")) \/ Same(o)

LEMMA Turns ==
  ASSUME Discipline, NEW o \in Op, Advance(o)
  PROVE  Turn(o)
<1> USE DEF Turn, Busy, Gone, Is, AtWork, Waiting, Ends, Moved, Decided, Noted, Failed
<1>1. CASE adoptSession(o)
  BY <1>1, adoptSessionStep
<1>2. CASE revertAdoption(o)
  BY <1>2, revertAdoptionStep
<1>3. CASE removeProject(o)
  BY <1>3, removeProjectStep
<1>4. CASE AnswerLaunch(o) \/ HarnessCloses(o) \/ planRevert(o) \/ AnswerUndoing(o)
  BY <1>4, QuietStep DEF AnswerLaunch, HarnessCloses, planRevert, AnswerUndoing
<1>5. CASE finishAdoption(o) \/ AnswerCommit(o)
  BY <1>5, DecisionStep DEF finishAdoption, AnswerCommit
<1>6. CASE acquireProjectLock(o) \/ releaseProjectLock(o)
  BY <1>6, LockStep
<1>7. CASE registerFork(o) \/ unregisterFork(o)
  BY <1>7, ListSteps
<1>8. CASE launchAdoptionFork(o) \/ discardFork(o) \/ resolveAdoptedCopy(o) \/ AnswerCopy(o)
  BY <1>8, CopySteps
<1>9. CASE commitAdoption(o)
  BY <1>9, commitAdoptionStep
<1>10. CASE ReadRecords(o)
  BY <1>10, ReadRecordsStep DEF ReadRecords
<1>11. CASE SaveAdoption(o) \/ removeAdoptionRecord(o) \/ dropProjectAdoptions(o)
  BY <1>11, RecordSteps
<1>12. CASE revertCommits(o) \/ finishRemoval(o)
  BY <1>12, UndoSteps
<1>13. CASE Throw(o) \/ Die(o)
  <2>1. Throw(o) => Busy(o)
    BY DEF Throw
  <2>2. op[o].at \in {"release", "clear"} => op'[o].at = "over"
    <3>1. CASE Throw(o)
      BY <3>1, Typed DEF Throw
    <3>2. CASE Die(o)
      BY <3>2, Typed DEF Die
    <3> QED
      BY <1>13, <3>1, <3>2
  <2>3. Discipline' /\ Others(o) /\ Same(o) /\ op[o].at \in AtWork \cup Waiting
    BY <1>13, FailSteps
  <2>4. op'[o].at \in AtWork => Throw(o)
    BY <1>13, FailSteps
  <2> QED
    BY <1>13, <2>1, <2>2, <2>3, <2>4
<1> QED
  BY <1>1, <1>2, <1>3, <1>4, <1>5, <1>6, <1>7, <1>8, <1>9, <1>10, <1>11, <1>12, <1>13 DEF Advance

LEMMA AloneKept ==
  ASSUME Discipline, SerialInv, ~Overlap, NEW o \in Op, Advance(o)
  PROVE  Alone'
<1>1. Turn(o) /\ Alone
  BY Turns DEF SerialInv
<1>2. \A q \in Op : q # o /\ Busy(q)' => Busy(q) /\ ~Quiet
  BY <1>1 DEF Turn, Others, Busy, Quiet
<1>3. \A q \in Op : q # o /\ Busy(q)' => ~Busy(o)'
  BY <1>1, <1>2 DEF Turn, Alone, Busy
<1> QED
  BY <1>1, <1>2, <1>3 DEF Alone

\* While one is at work, another may only die.
LEMMA WaitsItsTurn ==
  ASSUME Discipline, SerialInv, ~Overlap, NEW o \in Op, Advance(o), NEW q \in Op, q # o, Busy(q)
  PROVE  /\ Die(o) /\ op[o].at \in Waiting
         /\ UNCHANGED <<lock, adoptions, forks, copies, commits>>
<1>1. ~Busy(o) /\ ~Quiet
  BY DEF SerialInv, Alone, Busy, Quiet
<1>2. Die(o)
  BY <1>1, Turns DEF Turn
<1> QED
  BY <1>1, <1>2, FailSteps DEF Busy, Is, AtWork

LEMMA ApartKept ==
  ASSUME Discipline, SerialInv, ~AtOnce, NEW o \in Op, Advance(o)
  PROVE  Apart'
<1>1. Turn(o) /\ Apart
  BY Turns DEF SerialInv
<1>2. CASE adoptSession(o)
  <2>1. PICK s \in Session, p \in Project :
           /\ \A b \in Adoption : op[b].session = s => Gone(b)
           /\ Started(o, s, p)
    BY <1>2, adoptSessionStep
  <2> QED
    BY <1>1, <2>1 DEF Turn, Others, Apart, Gone, Started, Op
<1>3. CASE o \in Undoing
  BY <1>1, <1>3, OperationAssumption DEF Turn, Others, Apart, Gone, Op
<1>4. CASE o \in Adoption /\ Same(o)
  BY <1>1, <1>4 DEF Turn, Others, Apart, Gone, Op, Same
<1> QED
  BY <1>1, <1>2, <1>3, <1>4 DEF Turn, Op

\* A lock whose holder is gone stays one.
LEMMA FreeKept ==
  ASSUME Discipline, NEW o \in Op, ~Gone(o), Others(o), UNCHANGED lock, NEW p \in Project, IsFree(p)
  PROVE  IsFree(p)'
<1> SUFFICES ASSUME lock[p] # None PROVE Gone(lock[p])'
  BY DEF IsFree
<1>1. lock[p] \in Op /\ Gone(lock[p])
  BY Typed DEF IsFree, NoneOr
<1>2. op'[lock[p]] = op[lock[p]]
  BY <1>1 DEF Others
<1> QED
  BY <1>1, <1>2 DEF Gone

LEMMA ReadsTrueKept ==
  ASSUME Discipline, SerialInv, ~Overlap, NEW o \in Op, Advance(o)
  PROVE  \A q \in Op : ReadsTrue(q)'
<1>1. Turn(o)
  BY Turns
<1>2. ASSUME NEW q \in Op, q # o PROVE ReadsTrue(q)'
  <2>1. op'[q] = op[q] /\ ReadsTrue(q)
    BY <1>1, <1>2 DEF Turn, Others, SerialInv
  <2>2. CASE Busy(q)
    <3>1. UNCHANGED <<lock, adoptions, forks>>
      BY <1>2, <2>2, WaitsItsTurn
    <3>2. op[q].at = "writeLock" => op[q].project \in Project
      BY Begun
    <3>3. op[q].at = "writeLock" => IsFree(op[q].project)'
      BY <1>1, <2>1, <3>1, <3>2, FreeKept DEF Turn, ReadsTrue
    <3> QED
      BY <2>1, <3>1, <3>3 DEF ReadsTrue, IsFree
  <2>3. CASE ~Busy(q)
    BY <2>1, <2>3 DEF ReadsTrue, Busy, AtWork
  <2> QED
    BY <2>2, <2>3
<1>3. ReadsTrue(o)'
  <2> USE DEF ReadsTrue
  <2>1. CASE registerFork(o) \/ unregisterFork(o)
    BY <2>1, ListSteps DEF Noted, Moved
  <2>2. CASE ReadRecords(o)
    BY <2>2, ReadRecordsStep DEF Noted, ReadRecords
  <2>3. CASE adoptSession(o) \/ revertAdoption(o) \/ removeProject(o)
    BY <2>3, adoptSessionStep, revertAdoptionStep, removeProjectStep DEF Started
  <2>4. CASE AnswerLaunch(o) \/ HarnessCloses(o) \/ planRevert(o) \/ AnswerUndoing(o)
    BY <2>4, QuietStep DEF Moved
  <2>5. CASE finishAdoption(o) \/ AnswerCommit(o)
    BY <2>5, DecisionStep DEF Moved, Decided
  <2>6. CASE acquireProjectLock(o) \/ releaseProjectLock(o)
    <3>1. op[o].project \in Project
      BY <2>6, Begun DEF acquireProjectLock, releaseProjectLock, Is
    <3>2. CASE IsFree(op[o].project) /\ UNCHANGED lock /\ Moved(o, "writeLock")
      <4>1. IsFree(op[o].project)' /\ op'[o].project = op[o].project
        BY <1>1, <3>1, <3>2, FreeKept DEF Turn, Moved, Same, IsFree
      <4> QED
        BY <3>2, <4>1 DEF Moved, IsFree
    <3>3. CASE op'[o].at # "writeLock"
      BY <2>6, <3>3, LockStep DEF Moved
    <3> QED
      BY <2>6, <3>2, <3>3, LockStep DEF Moved
  <2>7. CASE launchAdoptionFork(o) \/ discardFork(o) \/ resolveAdoptedCopy(o) \/ AnswerCopy(o)
    BY <2>7, CopySteps DEF Moved
  <2>8. CASE commitAdoption(o)
    BY <2>8, commitAdoptionStep DEF Moved, Decided
  <2>9. CASE SaveAdoption(o) \/ removeAdoptionRecord(o) \/ dropProjectAdoptions(o)
    BY <2>9, RecordSteps DEF Moved
  <2>10. CASE revertCommits(o) \/ finishRemoval(o)
    BY <2>10, UndoSteps DEF Moved
  <2>11. CASE Throw(o) \/ Die(o)
    BY <2>11, FailSteps DEF Failed
  <2> QED
    BY <2>1, <2>2, <2>3, <2>4, <2>5, <2>6, <2>7, <2>8, <2>9, <2>10, <2>11 DEF Advance
<1> QED
  BY <1>2, <1>3

\* A lock is taken from nobody who needs it, and given up by the one it names.
LEMMA OthersKeepTheirLock ==
  ASSUME Discipline, SerialInv, NEW o \in Op, Advance(o), NEW q \in Op, q # o, Holds(q)
  PROVE  lock'[op[q].project] = q
<1> DEFINE p == op[q].project
<1>1. lock[p] = q /\ lock \in [Project -> NoneOr(Op)] /\ p \in Project
  <2>1. op[q].at # "ready"
    BY DEF Holds
  <2> QED
    BY <2>1, Begun, Typed DEF SerialInv, Locks
<1>2. ~Gone(q) /\ q # None
  BY OperationAssumption DEF Holds, Gone, Op
<1>3. CASE acquireProjectLock(o) \/ releaseProjectLock(o)
  <2>1. op[o].project \in Project
    BY <1>3, Begun DEF acquireProjectLock, releaseProjectLock, Is
  <2>2. \/ IsFree(op[o].project) /\ lock' = [lock EXCEPT ![op[o].project] = o]
        \/ UNCHANGED lock
        \/ lock[op[o].project] = o /\ lock' = [lock EXCEPT ![op[o].project] = None]
    BY <1>3, LockStep DEF SerialInv, ReadsTrue, Locks, Holds, Is
  <2> QED
    BY <1>1, <1>2, <2>1, <2>2 DEF IsFree
<1>4. CASE Is(o, "drop")
  <2>1. lock[op[o].project] = o /\ op[o].project \in Project
    BY <1>4, Begun DEF SerialInv, Locks, Holds, Is
  <2>2. op[o].project # p
    BY <1>1, <2>1
  <2>3. finishRemoval(o) \/ Throw(o) \/ Die(o)
    BY <1>4 DEF Advance, Is, adoptSession, AnswerLaunch, registerFork, launchAdoptionFork, HarnessCloses,
       finishAdoption, AnswerCommit, commitAdoption, discardFork, unregisterFork, SaveAdoption,
       revertAdoption, removeProject, planRevert, AnswerUndoing, revertCommits, removeAdoptionRecord,
       dropProjectAdoptions, resolveAdoptedCopy, AnswerCopy, acquireProjectLock, ReadRecords, releaseProjectLock
  <2>4. lock' = [lock EXCEPT ![op[o].project] = None]
    BY <1>4, <2>3, UndoSteps, FailSteps DEF Is
  <2> QED
    BY <1>1, <2>2, <2>4
<1>5. CASE ~Is(o, "drop") /\ ~acquireProjectLock(o) /\ ~releaseProjectLock(o)
  <2>1. UNCHANGED lock
    BY <1>5, FailSteps, UndoSteps
    DEF Advance, adoptSession, AnswerLaunch, registerFork, launchAdoptionFork, HarnessCloses,
       finishAdoption, AnswerCommit, commitAdoption, discardFork, unregisterFork, SaveAdoption,
       revertAdoption, removeProject, planRevert, AnswerUndoing, removeAdoptionRecord,
       dropProjectAdoptions, resolveAdoptedCopy, AnswerCopy, ReadRecords
  <2> QED
    BY <1>1, <2>1
<1> QED
  BY <1>3, <1>4, <1>5

LEMMA LocksKept ==
  ASSUME Discipline, SerialInv, NEW o \in Op, Advance(o)
  PROVE  \A q \in Op : Locks(q)'
<1>1. Turn(o)
  BY Turns
<1>2. ASSUME NEW q \in Op, q # o PROVE Locks(q)'
  <2>1. op'[q] = op[q]
    BY <1>1, <1>2 DEF Turn, Others
  <2> QED
    BY <1>2, <2>1, OthersKeepTheirLock DEF Locks, Holds
<1>3. Locks(o)'
  <2> USE DEF Locks, Holds
  <2>0. Locks(o) /\ lock \in [Project -> NoneOr(Op)]
    BY Typed DEF SerialInv
  <2>1. CASE acquireProjectLock(o) \/ releaseProjectLock(o)
    <3>1. op[o].project \in Project
      BY <2>1, Begun DEF acquireProjectLock, releaseProjectLock, Is
    <3> QED
      BY <2>0, <2>1, <3>1, LockStep DEF Moved, Same
  <2>2. CASE adoptSession(o) \/ revertAdoption(o) \/ removeProject(o)
    BY <2>2, adoptSessionStep, revertAdoptionStep, removeProjectStep DEF Started
  <2>3. CASE AnswerLaunch(o) \/ HarnessCloses(o) \/ planRevert(o) \/ AnswerUndoing(o)
    BY <2>0, <2>3, QuietStep DEF Moved, Same, shared, HarnessCloses, Is
  <2>4. CASE finishAdoption(o) \/ AnswerCommit(o)
    BY <2>0, <2>4, DecisionStep DEF Moved, Decided, Same, shared, finishAdoption, AnswerCommit, Is
  <2>5. CASE registerFork(o) \/ unregisterFork(o)
    BY <2>0, <2>5, ListSteps DEF Moved, Noted, Same, Is
  <2>6. CASE launchAdoptionFork(o) \/ discardFork(o) \/ resolveAdoptedCopy(o) \/ AnswerCopy(o)
    BY <2>0, <2>6, CopySteps DEF Moved, Same, Is
  <2>7. CASE commitAdoption(o)
    BY <2>0, <2>7, commitAdoptionStep DEF Moved, Decided, Same, Is
  <2>8. CASE ReadRecords(o)
    BY <2>0, <2>8, ReadRecordsStep DEF Noted, Same, Is, ReadRecords
  <2>9. CASE SaveAdoption(o) \/ removeAdoptionRecord(o) \/ dropProjectAdoptions(o)
    BY <2>9, RecordSteps DEF Moved, Same
  <2>10. CASE revertCommits(o) \/ finishRemoval(o)
    <3>1. op[o].kind # "adopt"
      BY <2>10, Kinds DEF revertCommits, finishRemoval, Is
    <3> QED
      BY <2>10, <3>1, UndoSteps DEF Moved, Same
  <2>11. CASE Throw(o) \/ Die(o)
    BY <2>11, FailSteps DEF Failed, Same
  <2> QED
    BY <2>1, <2>2, <2>3, <2>4, <2>5, <2>6, <2>7, <2>8, <2>9, <2>10, <2>11 DEF Advance
<1> QED
  BY <1>2, <1>3

-----------------------------------------------------------------------------
(* What a step may do to the files and to the commits of a copy *)

ListEffect(o) ==
  \A c \in Adoption : c \in forks' => c \in forks \/ (c = o /\ Is(o, "writeForks"))

RecordEffect(o) ==
  \A r \in adoptions' :
    \/ r \in adoptions
    \/ /\ r = Mine(o) /\ Is(o, "writeRecords") /\ op[o].kind = "adopt" /\ o \in Adoption
       /\ Moved(o, "release") /\ UNCHANGED <<forks, commits>>

CommitEffect(o, c) ==
  \/ Under(c)
  \/ c = o /\ Is(o, "commit") /\ commits'[c] = "last"
  \/ c = o /\ Is(o, "commit") /\ commits[c] = "none" /\ commits'[c] = "empty"
  \/ c = op[o].copy /\ Is(o, "undo") /\ commits'[c] = "undone"
  \/ /\ Is(o, "drop") /\ op[c].project = op[o].project
     /\ commits[c] # "none" /\ commits'[c] = "removed"

LEMMA Effects ==
  ASSUME Discipline, SerialInv, NEW o \in Op, Advance(o)
  PROVE  ListEffect(o) /\ RecordEffect(o) /\ \A c \in Adoption : CommitEffect(o, c)
<1> USE DEF ListEffect, RecordEffect, CommitEffect, Under
<1>1. CASE \/ adoptSession(o) \/ revertAdoption(o) \/ removeProject(o)
           \/ AnswerLaunch(o) \/ HarnessCloses(o) \/ planRevert(o) \/ AnswerUndoing(o)
           \/ finishAdoption(o) \/ AnswerCommit(o) \/ acquireProjectLock(o) \/ releaseProjectLock(o)
           \/ launchAdoptionFork(o) \/ discardFork(o) \/ resolveAdoptedCopy(o) \/ AnswerCopy(o)
           \/ ReadRecords(o) \/ Throw(o) \/ Die(o)
  <2>1. UNCHANGED <<adoptions, forks, commits>>
    BY <1>1 DEF adoptSession, revertAdoption, removeProject, AnswerLaunch, HarnessCloses, planRevert,
       AnswerUndoing, finishAdoption, AnswerCommit, acquireProjectLock, releaseProjectLock, launchAdoptionFork,
       discardFork, resolveAdoptedCopy, AnswerCopy, ReadRecords, Throw, Die
  <2> QED
    BY <2>1
<1>2. CASE registerFork(o) \/ unregisterFork(o)
  <2>1. UNCHANGED <<adoptions, commits>>
    BY <1>2, ListSteps
  <2>2. ReadsTrue(o)
    BY DEF SerialInv
  <2> QED
    BY <1>2, <2>1, <2>2, ListSteps DEF ReadsTrue, Is
<1>3. CASE commitAdoption(o)
  BY <1>3, commitAdoptionStep, SharedTyped DEF SharedOK
<1>4. CASE SaveAdoption(o) \/ removeAdoptionRecord(o) \/ dropProjectAdoptions(o)
  <2>1. UNCHANGED <<forks, commits>> /\ Is(o, "writeRecords")
    BY <1>4, RecordSteps
  <2>2. op[o].records = adoptions
    BY <2>1 DEF SerialInv, ReadsTrue, Is
  <2> QED
    BY <1>4, <2>1, <2>2, RecordSteps DEF Kept
<1>5. CASE revertCommits(o) \/ finishRemoval(o)
  <2>1. UNCHANGED <<adoptions, forks>> /\ commits \in [Adoption -> Commits]
    BY <1>5, UndoSteps, SharedTyped DEF SharedOK
  <2> QED
    BY <1>5, <2>1, UndoSteps
<1> QED
  BY <1>1, <1>2, <1>3, <1>4, <1>5 DEF Advance

LEMMA RecordedKept ==
  ASSUME Discipline, SerialInv, NEW o \in Op, Advance(o)
  PROVE  \A r \in adoptions' : Recorded(r)'
<1>1. Turn(o) /\ ListEffect(o) /\ RecordEffect(o) /\ \A c \in Adoption : CommitEffect(o, c)
  BY Turns, Effects
<1>2. ASSUME NEW r \in adoptions PROVE Recorded(r)'
  <2> DEFINE c == r.copy
  <2>1. c \in Adoption /\ c \in Op /\ Recorded(r)
    BY Typed DEF SerialInv, Record, Op
  <2>2. op'[c].session = op[c].session /\ op'[c].project = op[c].project /\ op'[c].at \in Ends
    <3>1. CASE c # o
      BY <1>1, <2>1, <3>1 DEF Turn, Others, Recorded
    <3>2. CASE c = o
      <4>1. Same(o)
        BY <1>1, <2>1, <3>2, adoptSessionStep, OperationAssumption DEF Turn, Recorded, Ends, Is
      <4> QED
        BY <1>1, <2>1, <3>2, <4>1 DEF Turn, Recorded, Same
    <3> QED
      BY <3>1, <3>2
  <2>3. c \notin forks'
    BY <1>1, <2>1 DEF ListEffect, Recorded, Ends, Is
  <2>4. commits'[c] # "none"
    BY <1>1, <2>1 DEF CommitEffect, Under, Recorded
  <2> QED
    BY <2>1, <2>2, <2>3, <2>4 DEF Recorded
<1>3. ASSUME Is(o, "writeRecords"), op[o].kind = "adopt", o \in Adoption,
             Moved(o, "release"), UNCHANGED <<forks, commits>>
      PROVE  Recorded(Mine(o))'
  <2>1. op[o].copy = o /\ o \notin forks /\ commits[o] \in Recordable
    BY <1>3, Begun DEF SerialInv, Committed, Is
  <2>2. Mine(o).session = op[o].session /\ Mine(o).project = op[o].project /\ Mine(o).copy = o
    BY <2>1 DEF Mine
  <2>3. Mine(o)' = Mine(o)
    BY <1>3 DEF Mine, Moved, Same
  <2> QED
    BY <1>3, <2>1, <2>2, <2>3 DEF Recorded, Moved, Same, Ends, Live, Recordable
<1>4. ASSUME NEW r \in adoptions' PROVE Recorded(r)'
  <2>1. CASE r \in adoptions
    BY <1>2, <2>1
  <2>2. CASE r \notin adoptions
    <3>1. /\ r = Mine(o) /\ Is(o, "writeRecords") /\ op[o].kind = "adopt" /\ o \in Adoption
          /\ Moved(o, "release") /\ UNCHANGED <<forks, commits>>
      BY <1>1, <2>2 DEF RecordEffect
    <3>2. Mine(o)' = Mine(o)
      BY <3>1 DEF Mine, Moved, Same
    <3>3. Recorded(Mine(o))'
      BY <1>3, <3>1
    <3> QED
      BY <3>1, <3>2, <3>3 DEF Recorded
  <2> QED
    BY <2>1, <2>2
<1> QED
  BY <1>4

LEMMA UnrecordedKept ==
  ASSUME Discipline, SerialInv, NEW o \in Op, Advance(o)
  PROVE  \A a \in Adoption : Unrecorded(a)'
<1>1. Turn(o) /\ RecordEffect(o)
  BY Turns, Effects
<1> DEFINE Under_way == AdoptAt \ ({"ready", "left"} \cup Ends)
<1>2. ASSUME NEW a \in Adoption, op'[a].at \in Under_way, NEW r \in adoptions'
      PROVE  r.session # op'[a].session
  <2>1. CASE a # o
    <3>1. a \in Op /\ op'[a] = op[a]
      BY <1>1, <2>1 DEF Turn, Others, Op
    <3>2. op[a].session \in Session /\ op[a].session # None /\ ~Gone(a)
      BY <1>2, <3>1, Begun, NoneAssumption DEF Gone, Ends
    <3>3. CASE r \in adoptions
      BY <1>2, <3>1, <3>3 DEF SerialInv, Unrecorded
    <3>4. CASE r \notin adoptions
      <4>1. r = Mine(o) /\ Is(o, "writeRecords") /\ o \in Adoption
        BY <1>1, <1>2, <3>4 DEF RecordEffect
      <4>2. r.session = op[o].session /\ ~Gone(o)
        BY <4>1 DEF Mine, Is, Gone
      <4>3. op[a].session # op[o].session
        BY <2>1, <3>2, <4>1, <4>2 DEF SerialInv, Apart
      <4> QED
        BY <3>1, <4>2, <4>3
    <3> QED
      BY <3>3, <3>4
  <2>2. CASE a = o /\ adoptSession(o)
    <3>1. PICK s \in Session, p \in Project : Started(o, s, p)
      BY <2>2, adoptSessionStep
    <3>2. UNCHANGED adoptions /\ \A q \in adoptions : q.session # s
      BY <1>2, <2>2, <3>1, adoptSessionStep DEF Started, shared, Ends
    <3> QED
      BY <1>2, <2>2, <3>1, <3>2 DEF Started
  <2>3. CASE a = o /\ ~adoptSession(o)
    <3>1. Same(o) /\ op[o].at \in Under_way
      <4>1. Same(o)
        BY <1>1, <2>3, OperationAssumption DEF Turn
      <4>2. op[o].at # "ready"
        BY <2>3, OperationAssumption, Begun, Typed, Kinds
        DEF Advance, Is, AnswerLaunch, registerFork, launchAdoptionFork, HarnessCloses,
           finishAdoption, AnswerCommit, commitAdoption, discardFork, unregisterFork, SaveAdoption,
           revertAdoption, removeProject, planRevert, AnswerUndoing, revertCommits, finishRemoval,
           removeAdoptionRecord, dropProjectAdoptions, resolveAdoptedCopy, AnswerCopy, acquireProjectLock,
           ReadRecords, releaseProjectLock, Throw, Die, AtWork, Waiting
      <4>3. op[o].at \in AdoptAt
        BY <2>3, <4>2, Begun
      <4> QED
        BY <1>1, <1>2, <2>3, <4>1, <4>2, <4>3 DEF Turn, Gone, Ends
    <3>2. r \in adoptions
      BY <1>1, <1>2, <2>3 DEF RecordEffect, Moved, Ends
    <3> QED
      BY <2>3, <3>1, <3>2 DEF SerialInv, Unrecorded, Same
  <2> QED
    BY <2>1, <2>2, <2>3
<1> QED
  BY <1>2 DEF Unrecorded

\* What an adoption has committed, after a step of another operation.
LEMMA CommittedByOthers ==
  ASSUME Discipline, SerialInv, NEW o \in Op, Advance(o), NEW a \in Adoption, a # o
  PROVE  Committed(a)'
<1>1. /\ op'[a] = op[a] /\ Committed(a) /\ a \in Op
      /\ a \in forks' => a \in forks
      /\ CommitEffect(o, a)
  BY Turns, Effects DEF Turn, Others, ListEffect, SerialInv, Op
<1>2. CASE Under(a)
  BY <1>1, <1>2 DEF Under, Committed, Live, Recordable
<1>3. CASE a = op[o].copy /\ Is(o, "undo")
  <2>1. op[o].kind = "revert" /\ op[o].at # "over" /\ o \in Undoing
    BY <1>3, Kinds DEF Is
  <2>2. op[a].at \in Ends /\ a \notin forks
    BY <1>3, <2>1 DEF SerialInv, Undoes
  <2> QED
    BY <1>1, <2>2 DEF Committed, Ends, Before
<1>4. CASE Is(o, "drop") /\ op[a].project = op[o].project /\ commits[a] # "none"
  <2>1. op[a].at \notin Before
    BY <1>1, <1>4 DEF Committed
  <2>2. op[a].kind = "adopt"
    BY <1>1, <2>1, Begun DEF Before
  <2>3. ~Holds(a)
    BY <1>1, <1>4 DEF SerialInv, Locks, Holds, Is
  <2> QED
    BY <1>1, <1>4, <2>1, <2>2, <2>3 DEF Committed, Holds, Before, Ends
<1> QED
  BY <1>1, <1>2, <1>3, <1>4 DEF CommitEffect

\* And after a step of its own.
LEMMA CommittedByItself ==
  ASSUME Discipline, SerialInv, NEW o \in Op, Advance(o), o \in Adoption
  PROVE  Committed(o)'
<1>1. Committed(o) /\ op[o].prior \in BOOLEAN /\ op[o].keeps \in BOOLEAN
  BY Typed DEF SerialInv, Operation
<1>2. o \notin Undoing
  BY OperationAssumption
<1> USE DEF Committed, Before, Ends, Live, Recordable
<1>3. CASE adoptSession(o)
  <2>1. op[o].at = "ready" /\ UNCHANGED <<commits, forks>>
    BY <1>3, adoptSessionStep DEF Is, shared
  <2> QED
    BY <1>1, <1>3, <2>1, adoptSessionStep DEF Started
<1>4. CASE AnswerLaunch(o) \/ HarnessCloses(o)
  <2>1. UNCHANGED <<commits, forks>>
    BY <1>4, QuietStep DEF shared
  <2>2. \/ op[o].at = "askLaunch" /\ (Moved(o, "acquire") \/ Moved(o, "over"))
        \/ op[o].at = "running" /\ Moved(o, "look")
    BY <1>4, QuietStep DEF AnswerLaunch, HarnessCloses, Is, planRevert, AnswerUndoing
  <2> QED
    BY <1>1, <2>1, <2>2 DEF Moved
<1>5. CASE planRevert(o) \/ AnswerUndoing(o) \/ revertAdoption(o) \/ removeProject(o)
  BY <1>2, <1>5, Kinds DEF planRevert, AnswerUndoing, revertAdoption, removeProject, Is
<1>6. CASE finishAdoption(o)
  <2>1. UNCHANGED <<commits, forks>> /\ op[o].at = "look"
    BY <1>6, DecisionStep DEF shared, finishAdoption, Is
  <2>2. PICK next \in {"askCommit", "readForksAgain", "discard"} :
           /\ Decided(o, next, commits[o] # "none")
           /\ next = "discard" => commits[o] = "none"
           /\ next = "readForksAgain" => commits[o] # "none"
    BY <1>6, DecisionStep DEF AnswerCommit, finishAdoption, Is
  <2> QED
    BY <1>1, <2>1, <2>2 DEF Decided
<1>7. CASE AnswerCommit(o)
  <2>1. UNCHANGED <<commits, forks>> /\ op[o].at = "askCommit"
    BY <1>7, DecisionStep DEF shared, AnswerCommit, Is
  <2>2. \/ Moved(o, "commit")
        \/ op[o].prior /\ Decided(o, "readForksAgain", TRUE)
        \/ ~op[o].prior /\ (Moved(o, "discard") \/ Moved(o, "release"))
    BY <1>7, DecisionStep DEF AnswerCommit, finishAdoption, Is
  <2> QED
    BY <1>1, <2>1, <2>2 DEF Decided, Moved
<1>8. CASE acquireProjectLock(o) \/ releaseProjectLock(o)
  BY <1>1, <1>8, LockStep, Begun DEF Moved, Is
<1>9. CASE registerFork(o) \/ unregisterFork(o)
  <2>1. ReadsTrue(o) /\ UNCHANGED commits
    BY <1>9, ListSteps DEF SerialInv
  <2> QED
    BY <1>1, <1>9, <2>1, ListSteps DEF Moved, Noted, Same, Is, ReadsTrue
<1>10. CASE launchAdoptionFork(o) \/ discardFork(o) \/ resolveAdoptedCopy(o) \/ AnswerCopy(o)
  <2>1. op[o].at \notin {"copy", "askCopy"}
    BY <1>2, Kinds
  <2> QED
    BY <1>1, <1>10, <2>1, CopySteps DEF Moved, Is
<1>11. CASE commitAdoption(o)
  <2>1. commits \in [Adoption -> Commits]
    BY SharedTyped DEF SharedOK
  <2> QED
    BY <1>1, <1>11, <2>1, commitAdoptionStep DEF Moved, Decided, Is
<1>12. CASE ReadRecords(o)
  BY <1>1, <1>12, ReadRecordsStep DEF ReadRecords, Noted, Is
<1>13. CASE SaveAdoption(o) \/ removeAdoptionRecord(o) \/ dropProjectAdoptions(o)
  <2>1. op[o].kind = "adopt"
    BY <1>13, Begun DEF SaveAdoption, removeAdoptionRecord, dropProjectAdoptions, Is
  <2> QED
    BY <1>1, <1>13, <2>1, RecordSteps DEF Moved, Is
<1>14. CASE revertCommits(o) \/ finishRemoval(o)
  BY <1>2, <1>14, Kinds DEF revertCommits, finishRemoval, Is
<1>15. CASE Throw(o) \/ Die(o)
  <2>1. Failed(o, "over") \/ Failed(o, "release") \/ Failed(o, "left")
    BY <1>15, FailSteps
  <2> QED
    BY <2>1 DEF Failed
<1> QED
  BY <1>3, <1>4, <1>5, <1>6, <1>7, <1>8, <1>9, <1>10, <1>11, <1>12, <1>13, <1>14, <1>15 DEF Advance

LEMMA CommittedKept ==
  ASSUME Discipline, SerialInv, NEW o \in Op, Advance(o)
  PROVE  \A a \in Adoption : Committed(a)'
BY CommittedByOthers, CommittedByItself

\* An adoption on record, or being undone, has ended and stays as it is.
LEMMA EndedStays ==
  ASSUME Discipline, SerialInv, NEW o \in Op, Advance(o),
         NEW c \in Adoption, op[c].at \in Ends, c \notin forks
  PROVE  /\ op'[c].at \in Ends /\ c \notin forks'
         /\ op'[c].session = op[c].session /\ op'[c].project = op[c].project
         /\ commits[c] \in Undone => commits'[c] \in Undone
         /\ ~Promoted(c) => ~Promoted(c)'
<1>1. Turn(o) /\ ListEffect(o) /\ RecordEffect(o) /\ CommitEffect(o, c) /\ c \in Op
  BY Turns, Effects DEF Op
<1>2. c \notin forks'
  BY <1>1 DEF ListEffect, Ends, Is
<1>3. op'[c].at \in Ends /\ op'[c].session = op[c].session /\ op'[c].project = op[c].project
  <2>1. CASE c # o
    BY <1>1, <2>1 DEF Turn, Others
  <2>2. CASE c = o
    <3>1. Same(o)
      BY <1>1, <2>2, adoptSessionStep, OperationAssumption DEF Turn, Ends, Is
    <3> QED
      BY <1>1, <2>2, <3>1 DEF Turn, Same
  <2> QED
    BY <2>1, <2>2
<1>4. commits[c] \in Undone => commits'[c] \in Undone
  BY <1>1 DEF CommitEffect, Under, Undone, Ends, Is
<1>5. ~Promoted(c) => ~Promoted(c)'
  <2>1. ASSUME NEW r \in adoptions', r.copy = c PROVE r \in adoptions
    <3> SUFFICES ASSUME r \notin adoptions PROVE FALSE
      OBVIOUS
    <3>1. r = Mine(o) /\ Is(o, "writeRecords") /\ op[o].kind = "adopt" /\ o \in Adoption
      BY <1>1 DEF RecordEffect
    <3>2. op[o].copy = o
      BY <3>1, Begun DEF Is
    <3> QED
      BY <2>1, <3>1, <3>2 DEF Mine, Is, Ends
  <2> QED
    BY <2>1 DEF Promoted
<1> QED
  BY <1>2, <1>3, <1>4, <1>5

LEMMA Reverts ==
  ASSUME Discipline, NEW u \in Op, op[u].kind = "revert"
  PROVE  u \in Undoing /\ op[u].copy \in Adoption
<1>1. Ready(u).kind = "adopt" /\ Remembers(u, op[u])
  BY Typed DEF Ready
<1> QED
  BY <1>1 DEF Remembers

LEMMA UndoesByOthers ==
  ASSUME Discipline, SerialInv, ~Overlap, NEW o \in Op, Advance(o), NEW u \in Undoing, u # o
  PROVE  Undoes(u)'
<1>1. op'[u] = op[u] /\ Undoes(u) /\ u \in Op
  BY Turns DEF Turn, Others, SerialInv, Op
<1>2. CASE op[u].kind = "revert" /\ op[u].at # "over"
  <2> DEFINE c == op[u].copy
  <2>1. c \in Adoption
    BY <1>1, <1>2, Reverts
  <2>2. op[c].at \in Ends /\ c \notin forks
    BY <1>1, <1>2 DEF Undoes
  <2> QED
    BY <1>1, <1>2, <2>1, <2>2, EndedStays DEF Undoes
<1>3. CASE op[u].kind = "remove" /\ op[u].at \in {"readRecords", "writeRecords"}
  <2>1. UNCHANGED <<adoptions, commits>>
    BY <1>1, <1>3, WaitsItsTurn DEF Busy, AtWork
  <2> QED
    BY <1>1, <1>3, <2>1 DEF Undoes
<1> QED
  BY <1>1, <1>2, <1>3 DEF Undoes

\* The end of an adoption, with respect to which a revert is made.
Matches(u) ==
  LET c == op[u].copy
  IN  op[c].at \in Ends /\ c \notin forks /\ op[u].session = op[c].session /\ op[u].project = op[c].project

LEMMA UndoesByItself ==
  ASSUME Discipline, SerialInv, NEW o \in Op, Advance(o), o \in Undoing
  PROVE  Undoes(o)'
<1>1. Undoes(o) /\ o \notin Adoption /\ Turn(o) /\ \A c \in Adoption : op'[c] = op[c]
  BY Turns, OperationAssumption DEF SerialInv, Turn, Others, Op
<1>2. op[o].kind = "revert" => op[o].copy \in Adoption
  BY Reverts
<1>3. op[o].kind = "revert" /\ op[o].at # "over" => Matches(o)
  BY <1>1 DEF Undoes, Matches
<1>4. ASSUME Same(o), op[o].at # "over", op[o].kind = "revert", UNCHANGED forks PROVE Matches(o)'
  BY <1>1, <1>2, <1>3, <1>4 DEF Matches, Same
<1>5. ASSUME Same(o), op[o].at # "over", UNCHANGED forks, op'[o].at \in {"acquire", "plan", "askRevert", "undo",
              "askRemove", "drop", "release", "over", "writeLock", "clear"}
      PROVE  Undoes(o)'
  BY <1>4, <1>5 DEF Undoes, Matches, Same
<1>6. op[o].at # "over"
  BY <1>1 DEF Turn, Gone
<1>7. CASE revertAdoption(o)
  <2>1. UNCHANGED <<forks, adoptions>> /\ op'[o].at = "acquire" /\ op'[o].kind = "revert"
    BY <1>7, revertAdoptionStep DEF shared
  <2>2. PICK r \in adoptions : /\ op'[o].session = r.session
                               /\ op'[o].project = r.project /\ op'[o].copy = r.copy
    BY <1>7, revertAdoptionStep
  <2>3. r.copy \in Adoption /\ Recorded(r)
    BY Typed DEF SerialInv, Record
  <2> QED
    BY <1>1, <2>1, <2>2, <2>3 DEF Undoes, Recorded
<1>8. CASE removeProject(o)
  BY <1>8, removeProjectStep DEF Undoes
<1>9. CASE planRevert(o) \/ AnswerUndoing(o)
  <2>1. UNCHANGED forks
    BY <1>9, QuietStep DEF shared
  <2> QED
    BY <1>5, <1>6, <1>9, <2>1, QuietStep DEF Moved, AnswerLaunch, HarnessCloses, planRevert, AnswerUndoing, Is
<1>10. CASE acquireProjectLock(o) \/ releaseProjectLock(o)
  <2>1. op[o].kind # "adopt" /\ UNCHANGED forks
    BY <1>1, <1>10, Begun, LockStep DEF acquireProjectLock, releaseProjectLock, Is
  <2> QED
    BY <1>5, <1>6, <1>10, <2>1, LockStep DEF Moved
<1>11. CASE resolveAdoptedCopy(o) \/ AnswerCopy(o)
  <2>1. UNCHANGED <<adoptions, forks, commits>> /\ op[o].at \in {"copy", "askCopy"} /\ op[o].kind = "revert"
    BY <1>11, CopySteps, Kinds DEF resolveAdoptedCopy, AnswerCopy, Is
  <2>2. Moved(o, "release") \/ Moved(o, "askCopy")
    BY <1>11, <2>1, CopySteps DEF Is
  <2> QED
    BY <1>1, <1>2, <1>4, <1>6, <2>1, <2>2 DEF Undoes, Matches, Moved, Same, Promoted
<1>12. CASE ReadRecords(o)
  <2>1. UNCHANGED <<adoptions, forks, commits>> /\ op[o].at = "readRecords"
    BY <1>12 DEF ReadRecords, Is
  <2>2. Same(o) /\ op'[o].at = "writeRecords"
    BY <1>12, ReadRecordsStep DEF Noted
  <2> QED
    BY <1>1, <1>2, <1>4, <1>6, <2>1, <2>2 DEF Undoes, Matches, Same
<1>13. CASE removeAdoptionRecord(o)
  <2>1. /\ UNCHANGED <<forks, commits>> /\ op[o].at = "writeRecords" /\ op[o].kind = "revert"
        /\ Moved(o, "copy") /\ adoptions' = op[o].records \ {Mine(o)}
    BY <1>13, RecordSteps DEF removeAdoptionRecord, Is
  <2>2. op[o].records = adoptions
    BY <2>1 DEF SerialInv, ReadsTrue
  <2>3. ASSUME NEW r \in adoptions, r.copy = op[o].copy PROVE r = Mine(o)
    <3>1. r \in Record /\ Recorded(r) /\ Matches(o)
      BY <1>3, <2>1, Typed DEF SerialInv
    <3>2. r.session = op[o].session /\ r.project = op[o].project
      BY <2>3, <3>1 DEF Recorded, Matches
    <3> QED
      BY <2>3, <3>1, <3>2 DEF Mine, Record
  <2>4. ~Promoted(op[o].copy)'
    BY <2>1, <2>2, <2>3 DEF Promoted, Moved, Same
  <2>5. Matches(o)' /\ Same(o)
    BY <1>4, <1>6, <2>1 DEF Moved
  <2>6. commits'[op[o].copy] \in Undone
    BY <1>1, <2>1 DEF Undoes
  <2> QED
    BY <1>2, <2>1, <2>4, <2>5, <2>6 DEF Undoes, Matches, Moved, Same
<1>14. CASE dropProjectAdoptions(o)
  BY <1>5, <1>6, <1>14, RecordSteps DEF dropProjectAdoptions, Moved
<1>15. CASE revertCommits(o)
  <2>1. op[o].at = "undo" /\ op[o].kind = "revert" /\ UNCHANGED forks /\ commits \in [Adoption -> Commits]
    BY <1>15, UndoSteps, Kinds, SharedTyped DEF revertCommits, Is, SharedOK
  <2>2. CASE Moved(o, "readRecords") /\ commits' = [commits EXCEPT ![op[o].copy] = "undone"]
    <3>1. commits'[op[o].copy] \in Undone
      BY <1>2, <2>1, <2>2 DEF Undone
    <3> QED
      BY <1>2, <1>4, <1>6, <2>1, <2>2, <3>1 DEF Undoes, Matches, Moved, Same
  <2>3. CASE Moved(o, "release")
    BY <1>5, <1>6, <2>1, <2>3 DEF Moved
  <2> QED
    BY <1>15, <2>1, <2>2, <2>3, UndoSteps DEF Is
<1>16. CASE finishRemoval(o)
  <2>1. op[o].at = "drop" /\ op[o].kind = "remove" /\ UNCHANGED adoptions
    BY <1>16, UndoSteps, Kinds DEF finishRemoval, Is
  <2>2. /\ Moved(o, "readRecords")
        /\ commits' = [a \in Adoption |-> IF op[a].project = op[o].project /\ commits[a] # "none"
                                                 THEN "removed" ELSE commits[a]]
    BY <1>16, <2>1, UndoSteps DEF Is
  <2>3. ASSUME NEW r \in adoptions, r.project = op[o].project PROVE commits'[r.copy] \in Undone
    <3>1. Recorded(r) /\ r.copy \in Adoption
      BY Typed DEF SerialInv, Record
    <3> QED
      BY <2>2, <2>3, <3>1 DEF Recorded, Undone
  <2> QED
    BY <2>1, <2>2, <2>3 DEF Undoes, Moved, Same
<1>17. CASE Throw(o) \/ Die(o)
  <2>1. op[o].at # "running" /\ UNCHANGED forks
    BY <1>1, <1>17, Kinds, FailSteps
  <2>2. Failed(o, "over") \/ Failed(o, "release")
    BY <1>17, <2>1, FailSteps
  <2> QED
    BY <1>5, <1>6, <2>1, <2>2 DEF Failed
<1>18. op[o].at \notin {"askLaunch", "readForks", "writeForks", "launch", "running", "look", "askCommit",
                         "commit", "discard", "readForksAgain", "dropFork"}
  BY <1>1, Kinds
<1>19. ~(op[o].at = "writeRecords" /\ op[o].kind = "adopt")
  BY <1>1, Begun
<1> QED
  BY <1>1, <1>7, <1>8, <1>9, <1>10, <1>11, <1>12, <1>13, <1>14, <1>15, <1>16, <1>17, <1>18, <1>19
  DEF Advance, Is, adoptSession, AnswerLaunch, registerFork, launchAdoptionFork, HarnessCloses, finishAdoption,
      AnswerCommit, commitAdoption, discardFork, unregisterFork, SaveAdoption

LEMMA UndoesKept ==
  ASSUME Discipline, SerialInv, ~Overlap, NEW o \in Op, Advance(o)
  PROVE  \A u \in Undoing : Undoes(u)'
BY UndoesByOthers, UndoesByItself

\* The rest of the world acts when nobody is at work.
LEMMA WorldKeeps ==
  ASSUME Discipline, SerialInv, ~Overlap,
         \/ \E a \in Adoption : Works(a) \/ Continues(a)
         \/ \E p \in Project : OthersCommit(p) \/ UndoneByHand(p)
         \/ Cleanup
  PROVE  SerialInv'
<1>1. UNCHANGED <<op, lock, adoptions>> /\ forks' \subseteq forks /\ \A o \in Op : ~Busy(o)
  BY WorldSteps DEF Quiet, Busy
<1>2. \A c \in Adoption :
        \/ Under(c)
        \/ commits'[c] = "last" /\ (op[c].at \in {"running", "left"} \/ Promoted(c))
  BY WorldSteps DEF Under, Promoted
<1>3. (Alone /\ Apart)' /\ \A o \in Op : ReadsTrue(o)' /\ Locks(o)'
  <2>1. (Alone /\ Apart)'
    BY <1>1 DEF SerialInv, Alone, Apart, Busy, Gone
  <2>2. \A o \in Op : Locks(o)'
    BY <1>1 DEF SerialInv, Locks, Holds
  <2>3. \A o \in Op : ReadsTrue(o)'
    BY <1>1 DEF ReadsTrue, Busy, AtWork
  <2> QED
    BY <2>1, <2>2, <2>3
<1>4. ASSUME NEW r \in adoptions PROVE Recorded(r)'
  <2>1. r.copy \in Adoption /\ Recorded(r)
    BY SharedTyped DEF SerialInv, SharedOK, Record
  <2> QED
    BY <1>1, <1>2, <2>1 DEF Recorded, Under
<1>5. ASSUME NEW a \in Adoption PROVE Unrecorded(a)' /\ Committed(a)'
  <2>1. Unrecorded(a)' /\ Committed(a)
    BY <1>1 DEF SerialInv, Unrecorded
  <2>2. Promoted(a) => op[a].at \in Ends /\ a \notin forks
    BY DEF SerialInv, Promoted, Recorded
  <2>3. CASE Under(a)
    BY <1>1, <2>1, <2>3 DEF Committed, Under, Live, Recordable
  <2>4. CASE commits'[a] = "last" /\ (op[a].at \in {"running", "left"} \/ Promoted(a))
    BY <1>1, <2>1, <2>2, <2>4 DEF Committed, Live, Recordable, Ends, Before
  <2> QED
    BY <1>2, <2>1, <2>3, <2>4
<1>6. ASSUME NEW u \in Undoing PROVE Undoes(u)'
  <2>1. Undoes(u) /\ u \in Op
    BY DEF SerialInv, Op
  <2>2. op[u].at \notin {"readRecords", "writeRecords", "copy"}
    BY <1>1, <2>1 DEF Busy, AtWork
  <2>3. CASE op[u].kind = "revert" /\ op[u].at # "over"
    <3> DEFINE c == op[u].copy
    <3>1. c \in Adoption
      BY <2>1, <2>3, Reverts
    <3>2. op[u].at = "askCopy" => commits'[c] \in Undone
      BY <1>2, <2>1, <2>3, <3>1 DEF Undoes, Under, Undone, Ends
    <3> QED
      BY <1>1, <2>1, <2>2, <2>3, <3>1, <3>2 DEF Undoes, Promoted
  <2> QED
    BY <1>1, <2>1, <2>2, <2>3 DEF Undoes
<1> QED
  BY <1>1, <1>3, <1>4, <1>5, <1>6 DEF SerialInv

LEMMA SerialKept ==
  ASSUME Discipline, SerialInv, ~Overlap, ~AtOnce, [Next]_vars
  PROVE  SerialInv'
<1>1. ASSUME NEW o \in Op, Advance(o) PROVE SerialInv'
  BY <1>1, AloneKept, ApartKept, ReadsTrueKept, LocksKept, RecordedKept, UnrecordedKept, CommittedKept,
     UndoesKept
  DEF SerialInv
<1>2. CASE UNCHANGED vars
  BY <1>2 DEF vars, SerialInv, Alone, Apart, Busy, Gone, ReadsTrue, IsFree, Locks, Holds, Recorded, Unrecorded,
     Committed, Undoes, Promoted
<1> QED
  BY <1>1, <1>2, WorldKeeps DEF Next

LEMMA AlwaysSerial == ~Overlap /\ ~AtOnce /\ Spec => []SerialInv
<1>1. Init => SerialInv
  <2> SUFFICES ASSUME Init PROVE SerialInv
    OBVIOUS
  <2>1. \A o \in Op : op[o] = Ready(o)
    BY DEF Init
  <2>2. \A o \in Op : op[o].at = "ready" /\ op[o].kind = "adopt" /\ op[o].session = None /\ op[o].keeps = FALSE
    <3>1. \A o \in Op : /\ Ready(o).at = "ready" /\ Ready(o).kind = "adopt"
                        /\ Ready(o).session = None /\ Ready(o).keeps = FALSE
      BY DEF Ready
    <3> QED
      BY <2>1, <3>1
  <2>3. Adoption \subseteq Op /\ Undoing \subseteq Op
    BY DEF Op
  <2>4. adoptions = {} /\ forks = {} /\ \A a \in Adoption : commits[a] = "none"
    BY DEF Init
  <2> QED
    BY <2>2, <2>3, <2>4 DEF SerialInv, Alone, Apart, Busy, Gone, ReadsTrue, Locks, Holds, Recorded, Unrecorded,
       Committed, Undoes, AtWork, AdoptAt, Before, Ends
<1>2. CASE Overlap \/ AtOnce
  BY <1>2
<1>3. CASE ~Overlap /\ ~AtOnce
  BY <1>1, <1>3, SerialKept, AlwaysDiscipline, PTL DEF Spec
<1> QED
  BY <1>2, <1>3

-----------------------------------------------------------------------------
(* The implementation of SessionAdoptions *)

AbsVars == <<adoptions, forks, copies, Standing, CutShort>>
AbsStep == [Abstract!Next]_AbsVars

LEMMA SameStanding ==
  ASSUME \A c \in Adoption : Under(c)
  PROVE  UNCHANGED Standing
BY DEF Standing, Under

LEMMA WorkStanding ==
  ASSUME NEW a \in Adoption, commits'[a] = "last", \A b \in Adoption : b # a => Under(b)
  PROVE  Standing' = [Standing EXCEPT ![a] = "done"]
BY DEF Standing, Under

LEMMA EmptyStanding ==
  ASSUME NEW a \in Adoption, commits[a] = "none", commits'[a] = "empty",
         \A b \in Adoption : b # a => commits'[b] = commits[b]
  PROVE  Standing' = [Standing EXCEPT ![a] = "empty"] /\ Standing[a] = "none"
BY DEF Standing

LEMMA GoneStanding ==
  ASSUME NEW C \in SUBSET Adoption,
         \A c \in C : commits'[c] \in Undone, \A c \in Adoption \ C : commits'[c] = commits[c]
  PROVE  Standing' = [c \in Adoption |-> IF c \in C THEN "gone" ELSE Standing[c]]
BY DEF Standing, Undone

LEMMA Stands ==
  ASSUME NEW a \in Adoption
  PROVE  /\ commits[a] \in {"none", "empty"} => Standing[a] = commits[a]
         /\ commits[a] \in Live => Standing[a] = "done"
         /\ commits[a] \in Undone => Standing[a] = "gone"
BY DEF Standing, Live, Undone

LEMMA CutShortKept ==
  ASSUME NEW o \in Op, Others(o), o \in Undoing \/ op'[o].failed = op[o].failed
  PROVE  UNCHANGED CutShort
BY OperationAssumption DEF Others, CutShort, Op

\* Who is on record has ended, and is on no list.
LEMMA PromotedEnded ==
  ASSUME Discipline, SerialInv, NEW c \in Adoption, Promoted(c)
  PROVE  op[c].at \in Ends /\ c \notin forks
BY DEF SerialInv, Promoted, Recorded

LEMMA Unpromoted ==
  ASSUME NEW c, ~Promoted(c)
  PROVE  c \notin Abstract!Promoted
BY DEF Promoted, Abstract!Promoted

\* Steps that the promise does not know of.
LEMMA StutterSteps ==
  ASSUME Discipline, NEW o \in Op,
         \/ adoptSession(o) \/ AnswerLaunch(o) \/ HarnessCloses(o) \/ planRevert(o) \/ AnswerUndoing(o)
         \/ finishAdoption(o) \/ AnswerCommit(o) \/ acquireProjectLock(o) \/ releaseProjectLock(o)
         \/ ReadRecords(o) \/ revertAdoption(o) \/ removeProject(o)
  PROVE  AbsStep
<1>1. UNCHANGED <<adoptions, forks, copies, commits>>
  BY DEF adoptSession, AnswerLaunch, HarnessCloses, planRevert, AnswerUndoing, finishAdoption, AnswerCommit,
     acquireProjectLock, releaseProjectLock, ReadRecords, revertAdoption, removeProject
<1>2. UNCHANGED Standing
  BY <1>1, SameStanding DEF Under
<1>3. Others(o) /\ (o \in Undoing \/ op'[o].failed = op[o].failed)
  <2>1. CASE adoptSession(o)
    <3>1. op[o].failed = FALSE
      <4>1. Ready(o).failed = FALSE /\ Remembers(o, op[o]) /\ op[o].at = "ready"
        BY <2>1, adoptSessionStep, Typed DEF Ready, Is
      <4> QED
        BY <4>1 DEF Remembers, RevertAt, RemoveAt, Ends
    <3> QED
      BY <2>1, <3>1, adoptSessionStep DEF Started
  <2>2. CASE AnswerLaunch(o) \/ HarnessCloses(o) \/ planRevert(o) \/ AnswerUndoing(o)
    BY <2>2, QuietStep DEF Moved
  <2>3. CASE finishAdoption(o) \/ AnswerCommit(o)
    BY <2>3, DecisionStep DEF Moved, Decided
  <2>4. CASE acquireProjectLock(o) \/ releaseProjectLock(o)
    BY <2>4, LockStep DEF Moved
  <2>5. CASE ReadRecords(o)
    BY <2>5, ReadRecordsStep DEF Noted
  <2>6. CASE revertAdoption(o) \/ removeProject(o)
    BY <2>6, revertAdoptionStep, removeProjectStep
  <2> QED
    BY <2>1, <2>2, <2>3, <2>4, <2>5, <2>6
<1> QED
  BY <1>1, <1>2, <1>3, CutShortKept DEF AbsStep, AbsVars

LEMMA ListRefines ==
  ASSUME Discipline, SerialInv, NEW o \in Op, registerFork(o) \/ unregisterFork(o)
  PROVE  AbsStep
<1>1. /\ UNCHANGED <<adoptions, copies, commits>> /\ o \in Adoption /\ Others(o)
      /\ op'[o].failed = op[o].failed
  BY ListSteps DEF Moved, Noted
<1>2. UNCHANGED <<Standing, CutShort>>
  BY <1>1, SameStanding, CutShortKept DEF Under
<1>3. ReadsTrue(o)
  BY DEF SerialInv
<1>4. CASE UNCHANGED forks
  BY <1>1, <1>2, <1>4 DEF AbsStep, AbsVars
<1>5. CASE Is(o, "writeForks")
  <2>1. forks' = forks \cup {o}
    BY <1>3, <1>5, ListSteps DEF ReadsTrue, Is
  <2>2. ~Promoted(o)
    BY <1>1, <1>5, PromotedEnded DEF Is, Ends
  <2>3. Abstract!List(o)
    BY <1>1, <1>2, <2>1, <2>2, Unpromoted DEF Abstract!List
  <2> QED
    BY <1>1, <2>3 DEF AbsStep, Abstract!Next
<1>6. CASE Is(o, "dropFork")
  <2>1. forks' = forks \ {o}
    BY <1>3, <1>6, ListSteps DEF ReadsTrue, Is
  <2>2. Abstract!Unlist(o)
    BY <1>1, <1>2, <2>1 DEF Abstract!Unlist
  <2> QED
    BY <1>1, <2>2 DEF AbsStep, Abstract!Next
<1> QED
  BY <1>4, <1>5, <1>6, ListSteps

\* A deletion that takes nothing off the list.
LEMMA DeleteStep ==
  ASSUME NEW c \in Adoption, UNCHANGED <<adoptions, forks, Standing, CutShort>>,
         copies' \in {copies, copies \ {c}}, ~Promoted(c), Standing[c] # "done"
  PROVE  AbsStep
<1>1. CASE UNCHANGED copies
  BY <1>1 DEF AbsStep, AbsVars
<1>2. CASE copies' = copies \ {c}
  <2>1. Abstract!Delete(c)
    BY <1>2, Unpromoted DEF Abstract!Delete
  <2> QED
    BY <2>1 DEF AbsStep, Abstract!Next
<1> QED
  BY <1>1, <1>2

LEMMA CopyRefines ==
  ASSUME Discipline, SerialInv, NEW o \in Op,
         launchAdoptionFork(o) \/ discardFork(o) \/ resolveAdoptedCopy(o) \/ AnswerCopy(o)
  PROVE  AbsStep
<1>1. UNCHANGED <<adoptions, forks, commits>> /\ Others(o) /\ op'[o].failed = op[o].failed
  BY CopySteps DEF Moved
<1>2. UNCHANGED <<Standing, CutShort>>
  BY <1>1, SameStanding, CutShortKept DEF Under
<1>3. CASE UNCHANGED copies
  BY <1>1, <1>2, <1>3 DEF AbsStep, AbsVars
<1>4. CASE Is(o, "launch") /\ copies' = copies \cup {o}
  <2>1. o \in Adoption
    BY <1>4, Kinds DEF Is
  <2>2. Abstract!Appear(o)
    BY <1>1, <1>2, <1>4 DEF Abstract!Appear
  <2> QED
    BY <2>1, <2>2 DEF AbsStep, Abstract!Next
<1>5. CASE Is(o, "discard") /\ copies' \in {copies, copies \ {o}}
  <2>1. o \in Adoption /\ op[o].at = "discard"
    BY <1>5, Kinds DEF Is
  <2>2. commits[o] = "none"
    BY <2>1 DEF SerialInv, Committed
  <2>3. ~Promoted(o)
    BY <2>1, PromotedEnded DEF Ends
  <2>4. Standing[o] = "none"
    BY <2>1, <2>2, Stands
  <2> QED
    BY <1>1, <1>2, <1>5, <2>1, <2>3, <2>4, DeleteStep
<1>6. CASE op[o].at \in {"copy", "askCopy"} /\ copies' \in {copies, copies \ {op[o].copy}}
  <2>1. o \in Undoing /\ op[o].kind = "revert" /\ op[o].copy \in Adoption /\ Undoes(o)
    BY <1>6, Kinds, Reverts DEF SerialInv
  <2>2. ~Promoted(op[o].copy) /\ commits[op[o].copy] \in Undone
    BY <1>6, <2>1 DEF Undoes
  <2>3. Standing[op[o].copy] = "gone"
    BY <2>1, <2>2, Stands
  <2> QED
    BY <1>1, <1>2, <1>6, <2>1, <2>2, <2>3, DeleteStep
<1> QED
  BY <1>3, <1>4, <1>5, <1>6, CopySteps DEF Is

LEMMA CommitRefines ==
  ASSUME Discipline, NEW o \in Op, commitAdoption(o)
  PROVE  AbsStep
<1>1. /\ UNCHANGED <<adoptions, forks, copies>> /\ o \in Adoption /\ Others(o)
      /\ op'[o].failed = op[o].failed
  BY commitAdoptionStep DEF Moved, Decided
<1>2. UNCHANGED CutShort
  BY <1>1, CutShortKept
<1>3. CASE UNCHANGED commits
  BY <1>1, <1>2, <1>3, SameStanding DEF Under, AbsStep, AbsVars
<1>4. CASE commits'[o] = "last" /\ \A b \in Adoption : b # o => Under(b)
  <2>1. Standing' = [Standing EXCEPT ![o] = "done"]
    BY <1>1, <1>4, WorkStanding
  <2>2. Abstract!Work(o)
    BY <1>1, <1>2, <2>1 DEF Abstract!Work
  <2> QED
    BY <1>1, <2>2 DEF AbsStep, Abstract!Next
<1>5. CASE commits' = [commits EXCEPT ![o] = IF @ = "none" THEN "empty" ELSE @]
  <2>1. commits \in [Adoption -> Commits]
    BY SharedTyped DEF SharedOK
  <2>2. CASE commits[o] # "none"
    <3>1. UNCHANGED commits
      BY <1>5, <2>1, <2>2
    <3> QED
      BY <1>3, <3>1
  <2>3. CASE commits[o] = "none"
    <3>1. Standing' = [Standing EXCEPT ![o] = "empty"] /\ Standing[o] = "none"
      BY <1>1, <1>5, <2>1, <2>3, EmptyStanding
    <3>2. Abstract!Empty(o)
      BY <1>1, <1>2, <3>1 DEF Abstract!Empty
    <3> QED
      BY <1>1, <3>2 DEF AbsStep, Abstract!Next
  <2> QED
    BY <2>2, <2>3
<1> QED
  BY <1>3, <1>4, <1>5, commitAdoptionStep

LEMMA RecordRefines ==
  ASSUME Discipline, SerialInv, NEW o \in Op,
         SaveAdoption(o) \/ removeAdoptionRecord(o) \/ dropProjectAdoptions(o)
  PROVE  AbsStep
<1>1. /\ UNCHANGED <<forks, copies, commits>> /\ Is(o, "writeRecords") /\ Others(o)
      /\ op'[o].failed = op[o].failed
  BY RecordSteps DEF Moved
<1>2. UNCHANGED <<Standing, CutShort>>
  BY <1>1, SameStanding, CutShortKept DEF Under
<1>3. op[o].records = adoptions /\ op[o].at = "writeRecords"
  BY <1>1 DEF SerialInv, ReadsTrue, Is
<1>4. ASSUME NEW R \in SUBSET adoptions, adoptions' = adoptions \ R, \A r \in R : commits[r.copy] \in Undone
      PROVE  AbsStep
  <2>1. \A r \in R : r.copy \in Adoption
    BY <1>4, SharedTyped DEF SharedOK, Record
  <2>2. \A r \in R : Standing[r.copy] = "gone"
    BY <1>4, <2>1, Stands
  <2>3. Abstract!Release(R)
    BY <1>1, <1>2, <1>4, <2>2 DEF Abstract!Release
  <2> QED
    BY <2>3 DEF AbsStep, Abstract!Next
<1>5. CASE op[o].kind = "adopt" /\ o \in Adoption /\ adoptions' = op[o].records \cup {Mine(o)}
  <2>1. op[o].session \in Session /\ op[o].project \in Project /\ op[o].copy = o
    BY <1>3, <1>5, Begun
  <2>2. Unrecorded(o) /\ Committed(o)
    BY <1>5 DEF SerialInv
  <2>3. (\A r \in adoptions : r.session # op[o].session) /\ o \notin forks /\ commits[o] \in Recordable
    BY <1>3, <2>2 DEF Unrecorded, Committed, AdoptAt, Ends, Before
  <2>4. Standing[o] \in {"done", "empty"}
    BY <1>5, <2>3, Stands DEF Recordable
  <2>5. Abstract!Adopt(op[o].session, o, op[o].project)
    BY <1>1, <1>2, <1>3, <1>5, <2>1, <2>3, <2>4 DEF Abstract!Adopt, Mine
  <2> QED
    BY <1>5, <2>1, <2>5 DEF AbsStep, Abstract!Next
<1>6. CASE op[o].kind = "revert" /\ adoptions' = op[o].records \ {Mine(o)}
  <2> DEFINE R == {Mine(o)} \cap adoptions
  <2>1. o \in Undoing /\ Undoes(o)
    BY <1>6, Reverts DEF SerialInv
  <2>2. commits[op[o].copy] \in Undone
    BY <1>3, <1>6, <2>1 DEF Undoes
  <2>3. \A r \in R : commits[r.copy] \in Undone
    BY <2>2 DEF Mine
  <2>4. R \in SUBSET adoptions /\ adoptions' = adoptions \ R
    BY <1>3, <1>6
  <2> QED
    BY <1>4, <2>3, <2>4
<1>7. CASE op[o].kind = "remove" /\ adoptions' = IF Kept(o) = op[o].records THEN adoptions ELSE Kept(o)
  <2> DEFINE R == {r \in adoptions : r.project = op[o].project}
  <2>1. o \in Undoing
    BY <1>3, <1>7, Begun DEF Op
  <2>2. \A r \in R : commits[r.copy] \in Undone
    BY <1>3, <1>7, <2>1 DEF SerialInv, Undoes
  <2>3. CASE Kept(o) = op[o].records
    BY <1>1, <1>2, <1>7, <2>3 DEF AbsStep, AbsVars
  <2>4. CASE Kept(o) # op[o].records
    <3>1. R \in SUBSET adoptions /\ adoptions' = adoptions \ R
      BY <1>3, <1>7, <2>4 DEF Kept
    <3> QED
      BY <1>4, <2>2, <3>1
  <2> QED
    BY <2>3, <2>4
<1> QED
  BY <1>5, <1>6, <1>7, RecordSteps

LEMMA UndoRefines ==
  ASSUME Discipline, NEW o \in Op, revertCommits(o) \/ finishRemoval(o)
  PROVE  AbsStep
<1>1. UNCHANGED <<adoptions, forks, copies>> /\ Others(o) /\ op'[o].failed = op[o].failed
  BY UndoSteps DEF Moved
<1>2. UNCHANGED CutShort
  BY <1>1, CutShortKept
<1>3. ASSUME NEW C \in SUBSET Adoption,
             \A c \in C : commits'[c] \in Undone, \A c \in Adoption \ C : commits'[c] = commits[c]
      PROVE  AbsStep
  <2>1. Abstract!Undo(C)
    BY <1>1, <1>2, <1>3, GoneStanding DEF Abstract!Undo
  <2> QED
    BY <2>1 DEF AbsStep, Abstract!Next
<1>4. commits \in [Adoption -> Commits]
  BY SharedTyped DEF SharedOK
<1>5. CASE Is(o, "undo") /\ commits' = [commits EXCEPT ![op[o].copy] = "undone"]
  <2> DEFINE C == {op[o].copy}
  <2>1. C \in SUBSET Adoption
    BY <1>5, Kinds, Reverts DEF Is
  <2>2. (\A c \in C : commits'[c] \in Undone) /\ \A c \in Adoption \ C : commits'[c] = commits[c]
    BY <1>4, <1>5, <2>1 DEF Undone
  <2> QED
    BY <1>3, <2>1, <2>2
<1>6. CASE UNCHANGED commits
  BY <1>1, <1>2, <1>6, SameStanding DEF Under, AbsStep, AbsVars
<1>7. CASE commits' = [a \in Adoption |-> IF op[a].project = op[o].project /\ commits[a] # "none"
                                          THEN "removed" ELSE commits[a]]
  <2> DEFINE C == {a \in Adoption : op[a].project = op[o].project /\ commits[a] # "none"}
  <2>1. (\A c \in C : commits'[c] \in Undone) /\ \A c \in Adoption \ C : commits'[c] = commits[c]
    BY <1>7 DEF Undone
  <2> QED
    BY <1>3, <2>1
<1> QED
  BY <1>5, <1>6, <1>7, UndoSteps

LEMMA FailRefines ==
  ASSUME Discipline, NEW o \in Op, Throw(o) \/ Die(o)
  PROVE  AbsStep
<1>1. UNCHANGED <<adoptions, forks, copies, commits>> /\ Others(o) /\ op'[o].failed = TRUE
  BY FailSteps DEF Failed
<1>2. UNCHANGED Standing
  BY <1>1, SameStanding DEF Under
<1>3. CASE o \in Undoing
  BY <1>1, <1>2, <1>3, CutShortKept DEF AbsStep, AbsVars
<1>4. CASE o \in Adoption
  <2>1. CutShort' = CutShort \cup {o}
    BY <1>1, <1>4 DEF CutShort, Others, Op
  <2>2. Abstract!Abandon(o)
    BY <1>1, <1>2, <2>1 DEF Abstract!Abandon
  <2> QED
    BY <1>4, <2>2 DEF AbsStep, Abstract!Next
<1> QED
  BY <1>3, <1>4 DEF Op

LEMMA WorldRefines ==
  ASSUME Discipline, SerialInv,
         \/ \E a \in Adoption : Works(a) \/ Continues(a)
         \/ \E p \in Project : OthersCommit(p) \/ UndoneByHand(p)
         \/ Cleanup
  PROVE  AbsStep
<1>1. UNCHANGED <<op, adoptions>> /\ UNCHANGED CutShort
  BY WorldSteps DEF CutShort
<1>2. CASE UNCHANGED <<forks, copies>> /\ \A b \in Adoption : Under(b)
  BY <1>1, <1>2, SameStanding DEF AbsStep, AbsVars
<1>3. ASSUME UNCHANGED <<forks, copies>>,
             NEW a \in Adoption, commits'[a] = "last", \A b \in Adoption : b # a => Under(b)
      PROVE  AbsStep
  <2>1. Abstract!Work(a)
    BY <1>1, <1>3, WorkStanding DEF Abstract!Work
  <2> QED
    BY <2>1 DEF AbsStep, Abstract!Next
<1>4. ASSUME UNCHANGED commits,
             NEW a \in forks, Gone(a), forks' = forks \ {a}, copies' = copies \ {a}
      PROVE  AbsStep
  <2>1. a \in Adoption /\ a \in Op /\ Committed(a)
    BY SharedTyped DEF SharedOK, SerialInv, Op
  <2>2. ~Promoted(a)
    BY <2>1, PromotedEnded
  <2>3. Standing[a] # "done" \/ a \in CutShort
    <3>1. CASE op[a].failed
      BY <2>1, <3>1 DEF CutShort
    <3>2. CASE ~op[a].failed
      <4>1. op[a].at = "over"
        BY <1>4, <2>1, <3>2, Begun DEF Gone
      <4>2. commits[a] = "none"
        BY <2>1, <3>2, <4>1 DEF Committed, Ends
      <4> QED
        BY <2>1, <4>2, Stands
    <3> QED
      BY <3>1, <3>2
  <2>4. UNCHANGED Standing
    BY <1>4, SameStanding DEF Under
  <2>5. Abstract!Delete(a)
    BY <1>1, <1>4, <2>2, <2>3, <2>4, Unpromoted DEF Abstract!Delete
  <2> QED
    BY <2>1, <2>5 DEF AbsStep, Abstract!Next
<1> QED
  BY <1>2, <1>3, <1>4, WorldSteps

LEMMA StepRefines ==
  ASSUME Discipline, SerialInv, [Next]_vars
  PROVE  AbsStep
<1>1. ASSUME NEW o \in Op, Advance(o) PROVE AbsStep
  BY <1>1, StutterSteps, ListRefines, CopyRefines, CommitRefines, RecordRefines, UndoRefines, FailRefines
  DEF Advance
<1>2. CASE UNCHANGED vars
  BY <1>2 DEF vars, AbsStep, AbsVars, Standing, CutShort
<1> QED
  BY <1>1, <1>2, WorldRefines DEF Next

\* Where no session is adopted twice at the same time and one operation is at work at
\* a time, adoptions, reverts, removals and the cleanup of forks keep the promise: a
\* session is adopted once, by a copy on no list of forks with work in its project, or
\* one whose commit found nothing left (adoptSession, finishAdoption, commitAdoption);
\* it is released when that work is gone (revertAdoption, dropProjectAdoptions); work
\* that stands keeps its copy.
THEOREM Implementation == ~Overlap /\ ~AtOnce /\ Spec => ImplementsSessionAdoptions
<1>1. Init => Abstract!Init
  <2> SUFFICES ASSUME Init PROVE Abstract!Init
    OBVIOUS
  <2>1. \A a \in Adoption : op[a] = Ready(a)
    BY DEF Init, Op
  <2>2. \A a \in Adoption : Ready(a).failed = FALSE
    BY DEF Ready
  <2>3. CutShort = {}
    BY <2>1, <2>2 DEF CutShort
  <2>4. Standing = [a \in Adoption |-> "none"]
    BY DEF Standing, Init
  <2> QED
    BY <2>3, <2>4 DEF Init, Abstract!Init
<1>2. Discipline /\ SerialInv /\ [Next]_vars => [Abstract!Next]_(Abstract!vars)
  BY StepRefines DEF AbsStep, AbsVars, Abstract!vars
<1>3. CASE Overlap \/ AtOnce
  BY <1>3
<1>4. CASE ~Overlap /\ ~AtOnce
  BY <1>1, <1>2, <1>4, AlwaysDiscipline, AlwaysSerial, PTL
  DEF Spec, ImplementsSessionAdoptions, Abstract!Spec
<1> QED
  BY <1>3, <1>4
=============================================================================
