------------------------------- MODULE Adoption -------------------------------
(***************************************************************************)
(* Adopting a session into a project (application/project-adopt.ts and      *)
(* project-adopt-outcome.ts), undoing it (project-revert-adoption.ts), and  *)
(* removing the project (project-remove.ts), over adoptions.json,           *)
(* forks.json, the transcripts of the copies and the commits they made.     *)
(*                                                                         *)
(* Each operation is a process of its own, and runs once.  An adoption      *)
(* works on a copy of the session, a fork, named like the adoption.         *)
(***************************************************************************)
EXTENDS Naturals

CONSTANTS
  Session,     \* sessions to adopt
  Project,
  Adoption,    \* adoptions, and the copies they make
  Undoing,     \* reverts and removals
  None,
  MaxFailures, \* bound: processes that die, and calls that throw
  AtOnce,      \* environment: is one session adopted twice at the same time?
  Overlap      \* environment: do operations overlap while they are at work?

ASSUME OperationAssumption == Adoption \cap Undoing = {} /\ None \notin Adoption \cup Undoing
ASSUME NoneAssumption == None \notin Session \cup Project
ASSUME BoundAssumption == MaxFailures \in Nat
ASSUME EnvironmentAssumption == AtOnce \in BOOLEAN /\ Overlap \in BOOLEAN

Op == Adoption \cup Undoing

VARIABLES
  op,        \* per operation: where it is, and what it remembers
  lock,      \* per project: the operation that its .seeya-lock names
  adoptions, \* adoptions.json
  forks,     \* forks.json, the copies in it
  copies,    \* copies with a transcript
  grown,     \* copies written to after their adoption
  commits,   \* per copy: what its commits have come to, in its project
  dirty,     \* projects with files that are not committed
  failures

vars == <<op, lock, adoptions, forks, copies, grown, commits, dirty, failures>>

Record == [session : Session, copy : Adoption, project : Project]

\* There are none; there are none, because its adoption found nothing to commit; they are
\* the last in their project to touch their files; somebody has touched them since; they
\* were reverted; their project was removed.
Commits == {"none", "empty", "last", "under", "undone", "removed"}

NoneOr(S) == S \cup {None}

AtWork  == {"acquire", "writeLock", "readForks", "writeForks", "launch", "look", "discard", "commit", "readForksAgain",
            "dropFork", "readRecords", "writeRecords", "plan", "undo", "drop", "copy", "release", "clear"}
Waiting == {"askLaunch", "running", "askCommit", "askRevert", "askCopy", "askRemove"}

Operation ==
  [at      : {"ready", "over", "left"} \cup AtWork \cup Waiting,  \* left: only its harness is there
   kind    : {"adopt", "revert", "remove"},
   session : NoneOr(Session),
   project : NoneOr(Project),
   copy    : NoneOr(Adoption),    \* the copy it makes, or whose adoption it undoes
   listed  : SUBSET Adoption,     \* forks.json as read
   records : SUBSET Record,       \* adoptions.json as read
   prior   : BOOLEAN,             \* the copy has left commits
   keeps   : BOOLEAN,             \* the copy is promoted
   failed  : BOOLEAN]             \* it died, or threw

Ready(o) == [at |-> "ready", kind |-> "adopt", session |-> None, project |-> None,
             copy |-> IF o \in Adoption THEN o ELSE None, listed |-> {}, records |-> {},
             prior |-> FALSE, keeps |-> FALSE, failed |-> FALSE]

TypeOK ==
  /\ op \in [Op -> Operation]
  /\ lock \in [Project -> NoneOr(Op)]
  /\ adoptions \subseteq Record
  /\ forks \subseteq Adoption
  /\ copies \subseteq Adoption
  /\ grown \subseteq Adoption
  /\ commits \in [Adoption -> Commits]
  /\ dirty \subseteq Project
  /\ failures \in 0 .. MaxFailures

Init ==
  /\ op = [o \in Op |-> Ready(o)]
  /\ lock = [p \in Project |-> None]
  /\ adoptions = {} /\ forks = {} /\ copies = {} /\ grown = {} /\ dirty = {}
  /\ commits = [a \in Adoption |-> "none"]
  /\ failures = 0

Is(o, at) == op[o].at = at
Gone(o)   == op[o].at \in {"over", "left"}
Goes(o, next) == op' = [op EXCEPT ![o].at = next]

\* It has written a file, and does not use what it read of it again.
Wrote(o, next) == op' = [op EXCEPT ![o].at = next, ![o].listed = {}, ![o].records = {}]

\* An operation that starts, or comes from a wait, goes on only while the others
\* wait, unless they may overlap.
Quiet == Overlap \/ \A o \in Op : op[o].at \notin AtWork

-----------------------------------------------------------------------------
(* The beginning, and the project lock *)

\* A session on record is refused before anything else.
adoptSession(a) ==
  /\ a \in Adoption /\ Is(a, "ready") /\ Quiet
  /\ \E s \in Session, p \in Project :
       /\ AtOnce \/ \A b \in Adoption : op[b].session = s => Gone(b)
       /\ op' = [op EXCEPT ![a].at = IF \E r \in adoptions : r.session = s THEN "over" ELSE "askLaunch",
                           ![a].session = s, ![a].project = p]
  /\ UNCHANGED <<lock, adoptions, forks, copies, grown, commits, dirty, failures>>

AnswerLaunch(a) ==
  /\ Is(a, "askLaunch") /\ Quiet
  /\ Goes(a, "acquire") \/ Goes(a, "over")
  /\ UNCHANGED <<lock, adoptions, forks, copies, grown, commits, dirty, failures>>

revertAdoption(u) ==
  /\ u \in Undoing /\ Is(u, "ready") /\ Quiet
  /\ \E r \in adoptions :
       op' = [op EXCEPT ![u].at = "acquire", ![u].kind = "revert", ![u].session = r.session,
                        ![u].project = r.project, ![u].copy = r.copy]
  /\ UNCHANGED <<lock, adoptions, forks, copies, grown, commits, dirty, failures>>

removeProject(u) ==
  /\ u \in Undoing /\ Is(u, "ready") /\ Quiet
  /\ \E p \in Project :
       op' = [op EXCEPT ![u].at = "acquire", ![u].kind = "remove", ![u].project = p]
  /\ UNCHANGED <<lock, adoptions, forks, copies, grown, commits, dirty, failures>>

\* Whose process is gone gives way.
IsFree(p) == lock[p] # None => Gone(lock[p])

\* The lock is read and its holder probed (one step: a holder that goes in between is
\* one that was gone), and then written whatever it has become.  (The project is there,
\* or created first; nothing here depends on which.)
acquireProjectLock(o) ==
  /\ \/ /\ Is(o, "acquire")
        /\ Goes(o, IF IsFree(op[o].project) THEN "writeLock" ELSE "over")
        /\ UNCHANGED lock
     \/ /\ Is(o, "writeLock")
        /\ lock' = [lock EXCEPT ![op[o].project] = o]
        /\ Goes(o, CASE op[o].kind = "adopt"  -> "readForks"
                     [] op[o].kind = "revert" -> "plan"
                     [] op[o].kind = "remove" -> "askRemove")
  /\ UNCHANGED <<adoptions, forks, copies, grown, commits, dirty, failures>>

\* Read, and deleted if it was its own, whatever it has become.
releaseProjectLock(o) ==
  /\ \/ /\ Is(o, "release")
        /\ Goes(o, IF lock[op[o].project] = o THEN "clear" ELSE "over")
        /\ UNCHANGED lock
     \/ Is(o, "clear") /\ lock' = [lock EXCEPT ![op[o].project] = None] /\ Goes(o, "over")
  /\ UNCHANGED <<adoptions, forks, copies, grown, commits, dirty, failures>>

-----------------------------------------------------------------------------
(* The copy *)

registerFork(a) ==
  /\ \/ Is(a, "readForks") /\ op' = [op EXCEPT ![a].at = "writeForks", ![a].listed = forks] /\ UNCHANGED forks
     \/ Is(a, "writeForks") /\ forks' = op[a].listed \cup {a} /\ Wrote(a, "launch")
  /\ UNCHANGED <<lock, adoptions, copies, grown, commits, dirty, failures>>

\* A copy that cannot be started is taken off the list again; one that is closed at
\* once has no transcript.
launchAdoptionFork(a) ==
  /\ Is(a, "launch")
  /\ \/ Goes(a, "readForksAgain") /\ UNCHANGED copies
     \/ Goes(a, "running") /\ copies' \in {copies, copies \cup {a}}
  /\ UNCHANGED <<lock, adoptions, forks, grown, commits, dirty, failures>>

HarnessCloses(a) ==
  /\ Is(a, "running") /\ Quiet
  /\ Goes(a, "look")
  /\ UNCHANGED <<lock, adoptions, forks, copies, grown, commits, dirty, failures>>

\* After what the copy left behind: a promotion, a discarded copy, a question.
Outcome(a, next, prior) ==
  op' = [op EXCEPT ![a].at = next, ![a].prior = prior, ![a].keeps = next = "readForksAgain"]

\* Mutant: what the copy committed by itself is not looked for.
finishAdoption_PendingOnly(a) ==
  /\ Is(a, "look")
  /\ Outcome(a, IF op[a].project \in dirty THEN "askCommit" ELSE "discard", FALSE)
  /\ UNCHANGED <<lock, adoptions, forks, copies, grown, commits, dirty, failures>>

\* finishAdoption, and decideAdoptionOutcome up to its question.
finishAdoption(a) ==
  /\ Is(a, "look")
  /\ LET prior == commits[a] # "none"
     IN  Outcome(a, IF op[a].project \in dirty THEN "askCommit"
                    ELSE IF prior THEN "readForksAgain" ELSE "discard", prior)
  /\ UNCHANGED <<lock, adoptions, forks, copies, grown, commits, dirty, failures>>

\* A copy that left commits is kept whatever the answer.
AnswerCommit(a) ==
  /\ Is(a, "askCommit") /\ Quiet
  /\ \/ Goes(a, "commit")
     \/ op[a].prior /\ Outcome(a, "readForksAgain", TRUE)
     \/ ~op[a].prior /\ (Goes(a, "discard") \/ Goes(a, "release")) \* no; nobody to ask
  /\ UNCHANGED <<lock, adoptions, forks, copies, grown, commits, dirty, failures>>

\* The commits of one copy become the last of its project, perhaps over those of others.
Commit(a, p) ==
  /\ \E over \in SUBSET {b \in Adoption \ {a} : commits[b] = "last" /\ op[b].project = p} :
       commits' = [b \in Adoption |-> IF b = a THEN "last" ELSE IF b \in over THEN "under" ELSE commits[b]]
  /\ dirty' = dirty \ {p}

\* Nothing left to commit is no error, and the copy is kept as after a commit.  A
\* commit that is refused is an outcome, not an exception.
commitAdoption(a) ==
  /\ Is(a, "commit")
  /\ \/ /\ IF op[a].project \in dirty
             THEN Commit(a, op[a].project)
             ELSE commits' = [commits EXCEPT ![a] = IF @ = "none" THEN "empty" ELSE @] /\ UNCHANGED dirty
        /\ Outcome(a, "readForksAgain", op[a].prior)
     \/ /\ IF op[a].prior THEN Outcome(a, "readForksAgain", TRUE) ELSE Goes(a, "release")
        /\ UNCHANGED <<commits, dirty>>
  /\ UNCHANGED <<lock, adoptions, forks, copies, grown, failures>>

\* A transcript that cannot be deleted is left, and off the list all the same.
discardFork(a) ==
  /\ Is(a, "discard")
  /\ copies' \in {copies, copies \ {a}}
  /\ Goes(a, "readForksAgain")
  /\ UNCHANGED <<lock, adoptions, forks, grown, commits, dirty, failures>>

\* Off the list: at its end, or on its way to a record.
unregisterFork(a) ==
  /\ \/ Is(a, "readForksAgain") /\ op' = [op EXCEPT ![a].at = "dropFork", ![a].listed = forks] /\ UNCHANGED forks
     \/ /\ Is(a, "dropFork")
        /\ forks' = IF a \in op[a].listed THEN op[a].listed \ {a} ELSE forks
        /\ Wrote(a, IF op[a].keeps THEN "readRecords" ELSE "release")
  /\ UNCHANGED <<lock, adoptions, copies, grown, commits, dirty, failures>>

-----------------------------------------------------------------------------
(* The record *)

ReadRecords(o) ==
  /\ Is(o, "readRecords")
  /\ op' = [op EXCEPT ![o].at = "writeRecords", ![o].records = adoptions]
  /\ UNCHANGED <<lock, adoptions, forks, copies, grown, commits, dirty, failures>>

\* Mutant: the two identifiers of a record are swapped.
Mine_Swapped(o) == [session |-> op[o].copy, copy |-> op[o].session, project |-> op[o].project]

Mine(o) == [session |-> op[o].session, copy |-> op[o].copy, project |-> op[o].project]

\* registerAdoption
SaveAdoption(a) ==
  /\ Is(a, "writeRecords") /\ op[a].kind = "adopt"
  /\ adoptions' = op[a].records \cup {Mine(a)}
  /\ Wrote(a, "release")
  /\ UNCHANGED <<lock, forks, copies, grown, commits, dirty, failures>>

removeAdoptionRecord(u) ==
  /\ Is(u, "writeRecords") /\ op[u].kind = "revert"
  /\ adoptions' = op[u].records \ {Mine(u)}
  /\ Wrote(u, "copy")
  /\ UNCHANGED <<lock, forks, copies, grown, commits, dirty, failures>>

dropProjectAdoptions(u) ==
  /\ Is(u, "writeRecords") /\ op[u].kind = "remove"
  /\ LET kept == {r \in op[u].records : r.project # op[u].project}
     IN  adoptions' = IF kept = op[u].records THEN adoptions ELSE kept
  /\ Wrote(u, "release")
  /\ UNCHANGED <<lock, forks, copies, grown, commits, dirty, failures>>

-----------------------------------------------------------------------------
(* Undoing *)

\* planAdoptionRevert: a later commit to the same files is in the way.
planRevert(u) ==
  /\ Is(u, "plan")
  /\ Goes(u, IF commits[op[u].copy] = "last" THEN "askRevert" ELSE "release")
  /\ UNCHANGED <<lock, adoptions, forks, copies, grown, commits, dirty, failures>>

AnswerUndoing(u) ==
  /\ Quiet
  /\ \/ Is(u, "askRevert") /\ (Goes(u, "undo") \/ Goes(u, "release"))
     \/ Is(u, "askRemove") /\ (Goes(u, "drop") \/ Goes(u, "release"))
  /\ UNCHANGED <<lock, adoptions, forks, copies, grown, commits, dirty, failures>>

\* One commit that undoes all of them, or, at a conflict, nothing.
revertCommits(u) ==
  /\ Is(u, "undo")
  /\ \/ Goes(u, "readRecords") /\ commits' = [commits EXCEPT ![op[u].copy] = "undone"]
     \/ Goes(u, "release") /\ UNCHANGED commits
  /\ UNCHANGED <<lock, adoptions, forks, copies, grown, dirty, failures>>

\* finishRemoval up to its commit.  The lock goes with the directory.
finishRemoval(u) ==
  /\ Is(u, "drop")
  /\ LET p == op[u].project
     IN  /\ commits' = [a \in Adoption |-> IF op[a].project = p /\ commits[a] # "none" THEN "removed" ELSE commits[a]]
         /\ dirty' = dirty \ {p}
         /\ lock' = [lock EXCEPT ![p] = None]
  /\ Goes(u, "readRecords")
  /\ UNCHANGED <<adoptions, forks, copies, grown, failures>>

\* A copy that was not written to since is deleted without a question, if it can be.
resolveAdoptedCopy(u) ==
  /\ Is(u, "copy")
  /\ IF op[u].copy \in copies \ grown
       THEN copies' \in {copies, copies \ {op[u].copy}} /\ Goes(u, "release")
       ELSE Goes(u, "askCopy") /\ UNCHANGED copies
  /\ UNCHANGED <<lock, adoptions, forks, grown, commits, dirty, failures>>

AnswerCopy(u) ==
  /\ Is(u, "askCopy") /\ Quiet
  /\ copies' \in {copies, copies \ {op[u].copy}}
  /\ Goes(u, "release")
  /\ UNCHANGED <<lock, adoptions, forks, grown, commits, dirty, failures>>

-----------------------------------------------------------------------------
(* The rest of the world *)

\* The copy works in the project under the lock that names it, as long as its harness
\* is open: on after the death of the adoption, too.
Works(a) ==
  /\ Quiet
  /\ op[a].at \in {"running", "left"}
  /\ a \in copies /\ lock[op[a].project] = a
  /\ LET p == op[a].project
     IN  \/ dirty' = dirty \cup {p} /\ UNCHANGED commits
         \/ Commit(a, p)
  /\ UNCHANGED <<op, lock, adoptions, forks, copies, grown, failures>>

\* `seeya project open` of a copy that was adopted.
Continues(a) ==
  /\ Quiet
  /\ \E r \in adoptions :
       /\ r.copy = a /\ a \in copies /\ IsFree(r.project) /\ commits[a] # "removed"
       /\ Commit(a, r.project) \/ UNCHANGED <<commits, dirty>>
  /\ grown' = grown \cup {a}
  /\ UNCHANGED <<op, lock, adoptions, forks, copies, failures>>

\* Another session commits what there is to commit, perhaps over the copy's commits.
OthersCommit(p) ==
  /\ Quiet /\ IsFree(p)
  /\ \E over \in SUBSET {a \in Adoption : commits[a] = "last" /\ op[a].project = p} :
       commits' = [a \in Adoption |-> IF a \in over THEN "under" ELSE commits[a]]
  /\ dirty' = dirty \ {p}
  /\ UNCHANGED <<op, lock, adoptions, forks, copies, grown, failures>>

\* Somebody puts the files of a project back as they were, with no commit: no lock keeps
\* a person from doing so.
UndoneByHand(p) ==
  /\ Quiet /\ p \in dirty
  /\ dirty' = dirty \ {p}
  /\ UNCHANGED <<op, lock, adoptions, forks, copies, grown, commits, failures>>

\* The cleanup of forks.  (An adoption under way is younger than forkCleanupDays.)
Cleanup ==
  /\ Quiet
  /\ \E a \in forks :
       /\ Gone(a)
       /\ copies' = copies \ {a} /\ forks' = forks \ {a}
  /\ UNCHANGED <<op, lock, adoptions, grown, commits, dirty, failures>>

Fails == failures < MaxFailures /\ failures' = failures + 1

\* A revert or a removal that stops short of its commit leaves files behind; the
\* removal has deleted the lock with them.
LeavesHalf(o) ==
  LET p == op[o].project
  IN  /\ dirty' = IF op[o].at \in {"undo", "drop"} THEN dirty \cup {p} ELSE dirty
      /\ lock' = IF Is(o, "drop") THEN [lock EXCEPT ![p] = None] ELSE lock

\* An exception on the way: the lock is given up all the same.
Throw(o) ==
  /\ op[o].at \in AtWork \ {"commit", "discard"} /\ Fails
  /\ op' = [op EXCEPT ![o].at = IF op[o].at \in {"acquire", "writeLock", "release", "clear"} THEN "over"
                                 ELSE "release",
                      ![o].failed = TRUE]
  /\ LeavesHalf(o)
  /\ UNCHANGED <<adoptions, forks, copies, grown, commits>>

\* The harness outlives the adoption that started it.
Die(o) ==
  /\ op[o].at \in AtWork \cup Waiting /\ Fails
  /\ op' = [op EXCEPT ![o].at = IF @ = "running" THEN "left" ELSE "over", ![o].failed = TRUE]
  /\ LeavesHalf(o)
  /\ UNCHANGED <<adoptions, forks, copies, grown, commits>>

Advance(o) ==
  \/ adoptSession(o) \/ AnswerLaunch(o) \/ registerFork(o) \/ launchAdoptionFork(o) \/ HarnessCloses(o)
  \/ finishAdoption(o) \/ AnswerCommit(o) \/ commitAdoption(o) \/ discardFork(o) \/ unregisterFork(o)
  \/ SaveAdoption(o)
  \/ revertAdoption(o) \/ removeProject(o) \/ planRevert(o) \/ AnswerUndoing(o) \/ revertCommits(o)
  \/ finishRemoval(o) \/ removeAdoptionRecord(o) \/ dropProjectAdoptions(o) \/ resolveAdoptedCopy(o)
  \/ AnswerCopy(o)
  \/ acquireProjectLock(o) \/ ReadRecords(o) \/ releaseProjectLock(o) \/ Throw(o) \/ Die(o)

Next ==
  \/ \E o \in Op : Advance(o)
  \/ \E a \in Adoption : Works(a) \/ Continues(a)
  \/ \E p \in Project : OthersCommit(p) \/ UndoneByHand(p)
  \/ Cleanup

Spec == Init /\ [][Next]_vars

-----------------------------------------------------------------------------
(* Properties *)

Standing == [a \in Adoption |->
               IF commits[a] \in {"none", "empty"} THEN commits[a]
               ELSE IF commits[a] \in {"undone", "removed"} THEN "gone" ELSE "done"]

CutShort == {a \in Adoption : op[a].failed}

\* A session is adopted once, by a copy on no list of forks that has work in its project,
\* or had before somebody undid it; it is released when that work is gone; work that
\* stands keeps its copy.
Abstract == INSTANCE SessionAdoptions WITH
  Copy <- Adoption, adopted <- adoptions, listed <- forks, work <- Standing, abandoned <- CutShort
ImplementsSessionAdoptions == Abstract!Spec
=============================================================================
