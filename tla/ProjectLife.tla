----------------------------- MODULE ProjectLife -----------------------------
(***************************************************************************)
(* The life of one project of the workspace: the operations that take its   *)
(* lock (application/project-open.ts, project-archive.ts, project-remove.ts,*)
(* project-remove-repo.ts over application/project-lock.ts), the one that   *)
(* does not (repository-association.ts), the agent sessions that work in    *)
(* it, and the git repository they all write to (adapters/workspace),       *)
(* behind the commit-msg hook (application/verify-commit.ts), which is a     *)
(* process of its own and awaits what it reads.                             *)
(*                                                                         *)
(* An operation runs in its host: a process of the command line of its own, *)
(* or the application's main process, which hosts many.  Its pid and        *)
(* procStart together are that process.  One that is over may begin again   *)
(* as another.  `open` launches a session, named like the operation, and    *)
(* waits for it to end.                                                    *)
(***************************************************************************)
EXTENDS Naturals, FiniteSets, ProjectGuard

CONSTANTS
  Op,          \* operations
  Process,     \* processes they may run in
  HostOf,      \* the process of each
  Kinds,       \* environment: the operations that are asked for
  MaxWork,     \* bound: versions of the project's files
  MaxCrashes,  \* bound: processes that die
  Overlap      \* environment: do operations at work, and commits, overlap?

Kind == {"open", "archive", "unarchive", "removeRepo", "addRepo", "remove"}

ASSUME HostAssumption == HostOf \in [Op -> Process]
ASSUME KindsAssumption == Kinds \subseteq Kind
ASSUME BoundAssumption == MaxWork \in Nat /\ MaxCrashes \in Nat
ASSUME OverlapAssumption == Overlap \in BOOLEAN
ASSUME NoneAssumption == None \notin Op \cup {unknown}

VARIABLES
  op,    \* per operation: where it is, and what it remembers
  alive, \* per process
  lock,  \* <project>/.seeya-lock
  tree,  \* the project's directory: its manifest, and its other files
  index, \* the same, as staged
  head,  \* the same, as committed last
  author, \* who made the last commit (nothing depends on it)
  git    \* per committer: its git commit that is under way, or None

files == <<tree, index, head, author>>
vars  == <<op, alive, lock, files, git>>

-----------------------------------------------------------------------------
(* Data *)

NoneOr(S) == S \cup {None}

\* seeya.json: its lifecycle, whether the project has the repository the
\* operations are about, and whether a session has written something else in it.
Manifest == [archived : BOOLEAN, repo : BOOLEAN, edited : BOOLEAN]
ASSUME NoneManifestAssumption == None \notin Manifest

\* The project's files: its manifest, and which version of the others (0: none).
Content == [manifest : NoneOr(Manifest), work : 0 .. MaxWork]
Removed == [manifest |-> None, work |-> 0]

Lock == [pid : Process, session : NoneOr(Op)]
ASSUME NoneLockAssumption == None \notin Lock

Prelude == {"restore", "manifest", "readLock", "probe", "writeLock"}
Attempt == {"leftover", "launch", "change", "remove", "stage", "commit", "git", "device"}
Closing == {"release", "clear", "finally", "clearFinally"}
AtWork  == Prelude \cup Attempt \cup Closing
Waiting == {"askReadOnly", "askLeftover", "askRemove", "running"}

Operation ==
  [at       : {"idle", "orphan"} \cup AtWork \cup Waiting,
   kind     : Kind,
   from     : NoneOr(Op),        \* the session it was started in
   manifest : NoneOr(Manifest),  \* the manifest it has read
   seen     : NoneOr(Lock),      \* the lock it has read
   acquired : BOOLEAN,           \* has it taken the lock?
   success  : BOOLEAN]           \* is it going to report that it did what was asked?

Idle == [at |-> "idle", kind |-> "open", from |-> None, manifest |-> None,
         seen |-> None, acquired |-> FALSE, success |-> FALSE]

\* Who commits: seeya for an operation, and the hand of the agent of a session or
\* of a person (None).
Committer == (Op \X {"seeya"}) \cup (NoneOr(Op) \X {"hand"})
Own(o) == <<o, "seeya">>

\* What a commit is made with (ProjectGuard says what each part is).
CommitEnv ==
  [session : NoneOr(Op), process : NoneOr(Process), trailer : NoneOr(Op) \cup {unknown},
   marked : BOOLEAN]

\* A git commit under way.  git has read what it commits, and the commit it comes
\* after, before it runs the hook.
GitCommit ==
  [at      : {"started", "listed", "read", "passed"},
   env     : CommitEnv,
   who     : NoneOr(Op),
   content : Content,
   staged  : {"nothing", "files", "manifest"}, \* of the project, as the hook listed it
   seen    : NoneOr(Lock)]                     \* the lock the hook has read
ASSUME NoneGitAssumption == None \notin GitCommit

TypeOK ==
  /\ op \in [Op -> Operation]
  /\ alive \in [Process -> BOOLEAN]
  /\ lock \in NoneOr(Lock)
  /\ {tree, index, head} \subseteq Content
  /\ author \in NoneOr(Op)
  /\ git \in [Committer -> NoneOr(GitCommit)]

Init ==
  /\ op = [o \in Op |-> Idle]
  /\ alive = [p \in Process |-> TRUE]
  /\ lock = None
  /\ \E archived \in BOOLEAN :
       head = [manifest |-> [archived |-> archived, repo |-> TRUE, edited |-> FALSE], work |-> 0]
  /\ tree = head
  /\ index = head
  /\ author = None
  /\ git = [c \in Committer |-> None]

Is(o, at) == op[o].at = at

\* The session that o launched runs.  In a terminal it may outlive o's process.
Runs(o) == op[o].at \in {"running", "orphan"}

NoCommit == \A c \in Committer : git[c] = None

\* An operation that comes from a wait goes on only while the others wait, and
\* no commit is under way, unless they may overlap.
MayMove(o) == Overlap \/ (NoCommit /\ \A other \in Op \ {o} : op[other].at \notin AtWork)

\* An operation that is over remembers nothing.
Go(o, next) ==
  op' = [op EXCEPT ![o] = IF next = "idle" THEN Idle ELSE [@ EXCEPT !.at = next]]

isAlive(l) == l # None /\ alive[l.pid]

\* Mutant: an operation of no session says so in words.
Mine_UnknownSession(o) ==
  [pid |-> HostOf[o],
   session |-> IF op[o].kind = "open" THEN o ELSE IF op[o].from = None THEN unknown ELSE op[o].from]

\* The holder that o writes into the lock: the session it launches, or the one it
\* was started in.
Mine(o) == [pid |-> HostOf[o], session |-> IF op[o].kind = "open" THEN o ELSE op[o].from]

-----------------------------------------------------------------------------
(* Before the lock *)

Begin(o) ==
  /\ Is(o, "idle") /\ alive[HostOf[o]] /\ MayMove(o)
  \* The id of a session is its own.
  /\ \A other \in Op : op[other].from # o
  /\ git[Own(o)] = None /\ git[<<o, "hand">>] = None
  /\ \E k \in Kinds, s \in NoneOr({s \in Op : Runs(s)}) :
       /\ \A other \in Op \ {o} : HostOf[other] = HostOf[o] => s = None
       /\ op' = [op EXCEPT ![o].at = IF k = "open" THEN "restore" ELSE "manifest",
                           ![o].kind = k, ![o].from = s]
  /\ UNCHANGED <<alive, lock, files, git>>

\* git diff HEAD -- seeya.json sees only what the index or HEAD knows of.
ManifestDiffers ==
  IF head.manifest = None THEN index.manifest # None /\ tree.manifest # None
  ELSE tree.manifest # head.manifest \/ index.manifest = None

\* git checkout HEAD -- seeya.json, when the directory has another one; it fails
\* when HEAD has none.
restoreProjectManifestIfChanged(o) ==
  /\ Is(o, "restore")
  /\ IF ~ManifestDiffers
       THEN Go(o, "manifest") /\ UNCHANGED <<tree, index>>
     ELSE IF head.manifest = None
       THEN Go(o, "idle") /\ UNCHANGED <<tree, index>>
     ELSE /\ tree' = [tree EXCEPT !.manifest = head.manifest]
          /\ index' = [index EXCEPT !.manifest = head.manifest]
          /\ Go(o, "manifest")
  /\ UNCHANGED <<alive, lock, head, author, git>>

Accepts(k, m) ==
  /\ m # None
  /\ CASE k \in {"open", "archive"} -> ~m.archived
       [] k = "unarchive"  -> m.archived
       [] k = "removeRepo" -> m.repo
       [] k = "addRepo"    -> ~m.repo
       [] k = "remove"     -> TRUE

\* The manifest of the directory, and what it rules out.  An open may also end
\* here for want of a harness, or because of the session it was to resume.
ReadManifest(o) ==
  /\ Is(o, "manifest")
  /\ \/ /\ ~Accepts(op[o].kind, tree.manifest) \/ op[o].kind = "open"
        /\ Go(o, "idle")
     \/ /\ Accepts(op[o].kind, tree.manifest)
        /\ op' = [op EXCEPT ![o].at = IF op[o].kind = "addRepo" THEN "change" ELSE "readLock",
                            ![o].manifest = IF op[o].kind \in {"open", "remove"} THEN None
                                            ELSE tree.manifest]
  /\ UNCHANGED <<alive, lock, files, git>>

-----------------------------------------------------------------------------
(* The lock: acquireProjectLock and releaseProjectLock *)

ReadLock(o) ==
  /\ Is(o, "readLock")
  /\ op' = [op EXCEPT ![o].at = "probe", ![o].seen = lock]
  /\ UNCHANGED <<alive, lock, files, git>>

\* What was read is looked at no more.
Forget(o, next) ==
  op' = [op EXCEPT ![o].at = next, ![o].seen = None,
                   ![o].manifest = IF next = "stage" THEN None ELSE @]

\* Refused, an open may still be made without the lock: blockedByLock asks.
Probe(o) ==
  /\ Is(o, "probe")
  /\ IF MayAcquire(op[o].seen, isAlive(op[o].seen)) THEN Forget(o, "writeLock")
     ELSE IF op[o].kind = "open" THEN Forget(o, "askReadOnly")
     ELSE Go(o, "idle")
  /\ UNCHANGED <<alive, lock, files, git>>

WriteLock(o) ==
  /\ Is(o, "writeLock")
  /\ lock' = Mine(o)
  /\ op' = [op EXCEPT ![o].acquired = TRUE,
                      ![o].at = CASE op[o].kind = "open" -> "leftover"
                                  [] op[o].kind = "remove" -> "askRemove"
                                  [] OTHER -> "change"]
  /\ UNCHANGED <<alive, files, git>>

Past(at) == IF at = "release" THEN "finally" ELSE "idle"

\* Mutant: the release in the finally is left out.
ReadForRelease_Once(o) ==
  /\ Is(o, "release") \/ Is(o, "finally")
  /\ Go(o, IF Is(o, "release") /\ MayRelease(lock, HostOf[o]) THEN "clear" ELSE Past(op[o].at))
  /\ UNCHANGED <<alive, lock, files, git>>

ReadForRelease(o) ==
  /\ Is(o, "release") \/ Is(o, "finally")
  /\ Go(o, IF ~MayRelease(lock, HostOf[o]) THEN Past(op[o].at)
           ELSE IF Is(o, "release") THEN "clear" ELSE "clearFinally")
  /\ UNCHANGED <<alive, lock, files, git>>

Clear(o) ==
  /\ Is(o, "clear") \/ Is(o, "clearFinally")
  /\ lock' = None
  /\ Go(o, IF Is(o, "clear") THEN "finally" ELSE "idle")
  /\ UNCHANGED <<alive, files, git>>

-----------------------------------------------------------------------------
(* With the lock, or without it for an open that goes on read-only *)

\* Where an operation that fails goes: all but addRepo have a finally.
Failed(o) == IF op[o].kind = "addRepo" THEN "idle" ELSE "finally"

\* blockedByLock: the person opens read-only, or not at all.
AnswerReadOnly(o) ==
  /\ Is(o, "askReadOnly") /\ MayMove(o)
  /\ \E next \in {"launch", "finally"} : Go(o, next)
  /\ UNCHANGED <<alive, lock, files, git>>

\* handleLeftoverChanges
ListLeftover(o) ==
  /\ Is(o, "leftover")
  /\ Go(o, IF tree = head /\ index = head THEN "launch" ELSE "askLeftover")
  /\ UNCHANGED <<alive, lock, files, git>>

AnswerLeftover(o) ==
  /\ Is(o, "askLeftover") /\ MayMove(o)
  /\ \E next \in {"stage", "launch", "release"} : Go(o, next)
  /\ UNCHANGED <<alive, lock, files, git>>

\* The tail of an open: finishOpen releases what was taken, and finally does again.
Tail(o) == IF op[o].acquired THEN "release" ELSE "finally"

Launch(o) ==
  /\ Is(o, "launch")
  /\ \E next \in {"running", Tail(o)} : Go(o, next)
  /\ UNCHANGED <<alive, lock, files, git>>

SessionEnds(o) ==
  /\ \/ Is(o, "running") /\ MayMove(o) /\ Go(o, Tail(o))
     \/ Is(o, "orphan") /\ Go(o, "idle")
  /\ UNCHANGED <<alive, lock, files, git>>

AnswerRemove(o) ==
  /\ Is(o, "askRemove") /\ MayMove(o)
  /\ \E next \in {"remove", "release"} : Go(o, next)
  /\ UNCHANGED <<alive, lock, files, git>>

\* rm -rf of the directory, the lock in it included.
removeProjectDirectory(o) ==
  /\ Is(o, "remove")
  /\ tree' = Removed
  /\ lock' = None
  /\ Go(o, "stage")
  /\ UNCHANGED <<alive, index, head, author, git>>

Changed(k, m) ==
  CASE k = "archive"    -> [m EXCEPT !.archived = TRUE]
    [] k = "unarchive"  -> [m EXCEPT !.archived = FALSE]
    [] k = "removeRepo" -> [m EXCEPT !.repo = FALSE]
    [] k = "addRepo"    -> [m EXCEPT !.repo = TRUE]

\* writeProjectManifest: what was read, with the change.
Change(o) ==
  /\ Is(o, "change")
  /\ tree' = [tree EXCEPT !.manifest = Changed(op[o].kind, op[o].manifest)]
  /\ Forget(o, "stage")
  /\ UNCHANGED <<alive, lock, index, head, author, git>>

-----------------------------------------------------------------------------
(* Commits: commitAll, and git in the hands of an agent or a person *)

\* git add <project>: it fails when there is nothing of the project at all.
Stage(o) ==
  /\ Is(o, "stage")
  /\ IF tree = Removed /\ index = Removed
       THEN Go(o, Failed(o)) /\ UNCHANGED index
       ELSE Go(o, "commit") /\ index' = tree
  /\ UNCHANGED <<alive, lock, tree, head, author, git>>

CommitOf(o) ==
  [session |-> op[o].from,
   process |-> IF op[o].kind = "addRepo" THEN None ELSE HostOf[o],
   trailer |-> IF op[o].kind = "open" \/ op[o].from = None THEN unknown ELSE op[o].from,
   marked  |-> op[o].kind # "open"]

\* Who acts: the session it is started in, if any, and else the operation itself.
Actor(o) == IF op[o].kind = "open" \/ op[o].from = None THEN o ELSE op[o].from

Landed(o) ==
  op' = [op EXCEPT ![o].success = op[o].kind # "open",
                   ![o].at = CASE op[o].kind = "open" -> "launch"
                               [] op[o].kind \in {"archive", "unarchive"} -> "finally"
                               [] OTHER -> "device"]

\* git reads what is staged, and is about to run the hook.
Starts(c, env, who) ==
  git' = [git EXCEPT ![c] = [at |-> "started", env |-> env, who |-> who, content |-> index,
                             staged |-> "nothing", seen |-> None]]

\* git diff --cached finds nothing to commit, or git commit is run and awaited.
Commit(o) ==
  /\ Is(o, "commit")
  /\ IF index = head THEN Landed(o) /\ UNCHANGED git
                     ELSE Go(o, "git") /\ Starts(Own(o), CommitOf(o), Actor(o))
  /\ UNCHANGED <<alive, lock, files>>

\* Mutant: a commit that did not land passes for one that there was no need of.
Refused_Swallowed(o) ==
  /\ Is(o, "git") /\ git[Own(o)] = None
  /\ Landed(o)
  /\ UNCHANGED <<alive, lock, files, git>>

\* The commit of an operation ended without landing, and commitAll throws.
Refused(o) ==
  /\ Is(o, "git") /\ git[Own(o)] = None
  /\ Go(o, Failed(o))
  /\ UNCHANGED <<alive, lock, files, git>>

Staged ==
  IF index.manifest # head.manifest THEN "manifest"
  ELSE IF index # head THEN "files" ELSE "nothing"

IsAt(c, at) == git[c] # None /\ git[c].at = at

\* verifyCommit, in the hook: it lists what is staged by now,
HookLists(c) ==
  /\ IsAt(c, "started")
  /\ git' = [git EXCEPT ![c].at = "listed", ![c].staged = Staged]
  /\ UNCHANGED <<op, alive, lock, files>>

\* reads the lock of the project, if anything of one is staged,
HookReads(c) ==
  /\ IsAt(c, "listed")
  /\ git' = [git EXCEPT ![c].at = "read",
                         ![c].seen = IF git[c].staged = "nothing" THEN None ELSE lock]
  /\ UNCHANGED <<op, alive, lock, files>>

\* Mutant: the lock is looked at only when seeya.json is staged.
Lets_ManifestOnly(g) ==
  g.staged # "manifest" \/ AllowsCommit(g.env, TRUE, g.seen, isAlive(g.seen))

Lets(g) ==
  \/ g.staged = "nothing"
  \/ AllowsCommit(g.env, g.staged = "manifest", g.seen, isAlive(g.seen))

\* and asks whether its holder lives.
HookDecides(c) ==
  /\ IsAt(c, "read")
  /\ git' = [git EXCEPT ![c] = IF Lets(@) THEN [@ EXCEPT !.at = "passed"] ELSE None]
  /\ UNCHANGED <<op, alive, lock, files>>

\* git moves HEAD to what it had read.  The other commits under way come after
\* another HEAD: git refuses them.
CommitLands(c) ==
  /\ IsAt(c, "passed")
  /\ head' = git[c].content /\ author' = git[c].who
  /\ git' = [d \in Committer |-> None]
  /\ \/ \E o \in Op : c = Own(o) /\ Is(o, "git") /\ Landed(o)
     \/ (\A o \in Op : c # Own(o) \/ ~Is(o, "git")) /\ UNCHANGED op
  /\ UNCHANGED <<alive, lock, tree, index>>

\* git fails for a reason of its own.
GitFails(c) ==
  /\ git[c] # None
  /\ git' = [git EXCEPT ![c] = None]
  /\ UNCHANGED <<op, alive, lock, files>>

Commits(c) == HookLists(c) \/ HookReads(c) \/ HookDecides(c) \/ CommitLands(c) \/ GitFails(c)

\* What the device keeps apart, its repository-map.json or adoptions.json, follows.
SaveDeviceRecord(o) ==
  /\ Is(o, "device")
  /\ Go(o, IF op[o].kind = "addRepo" THEN "idle" ELSE "release")
  /\ UNCHANGED <<alive, lock, files, git>>

\* A commit typed by the agent of session s, or by a person (None).
TypedBy(s) == [session |-> s, process |-> None, trailer |-> None, marked |-> FALSE]

\* They stage, and commit, by hand; unless they may overlap, while no commit is
\* under way, and no operation is at work when they commit.
TypesAdd(s) ==
  /\ tree # index /\ (Overlap \/ NoCommit)
  /\ index' = tree
  /\ UNCHANGED <<op, alive, lock, tree, head, author, git>>

TypesCommit(s) ==
  /\ index # head /\ git[<<s, "hand">>] = None
  /\ Overlap \/ (NoCommit /\ \A o \in Op : op[o].at \notin AtWork)
  /\ Starts(<<s, "hand">>, TypedBy(s), s)
  /\ UNCHANGED <<op, alive, lock, files>>

\* An agent writes files, or the manifest, which only seeya should.
Works(s) ==
  /\ \/ \E w \in 0 .. MaxWork : tree' = [tree EXCEPT !.work = w]
     \/ tree.manifest # None /\ tree' = [tree EXCEPT !.manifest.edited = TRUE]
  /\ UNCHANGED <<op, alive, lock, index, head, author, git>>

-----------------------------------------------------------------------------
(* Failures *)

\* A call of the operation throws.  Two do not: runGit resolves however git ends
\* (Refused), and onBeforeLaunch, which an open calls between taking the lock and
\* its try, only puts text together and prints it.
Throw(o) ==
  /\ \/ op[o].at \in Prelude /\ Go(o, "idle")
     \/ op[o].at \in Attempt \ {"git"} /\ Go(o, Failed(o))
  /\ UNCHANGED <<alive, lock, files, git>>

\* A process dies.  A session in a terminal, or a git, may live on without it.
Crash(p) ==
  /\ alive[p] /\ Cardinality({q \in Process : ~alive[q]}) < MaxCrashes
  /\ alive' = [alive EXCEPT ![p] = FALSE]
  /\ \E left \in SUBSET {o \in Op : HostOf[o] = p /\ Is(o, "running")} :
       op' = [o \in Op |-> IF o \in left THEN [Idle EXCEPT !.at = "orphan"]
                           ELSE IF HostOf[o] = p /\ ~Is(o, "orphan") THEN Idle
                           ELSE op[o]]
  /\ UNCHANGED <<lock, files, git>>

Advances(o) ==
  \/ restoreProjectManifestIfChanged(o) \/ ReadManifest(o)
  \/ ReadLock(o) \/ Probe(o) \/ WriteLock(o) \/ ReadForRelease(o) \/ Clear(o)
  \/ ListLeftover(o) \/ Launch(o)
  \/ removeProjectDirectory(o) \/ Change(o) \/ Stage(o) \/ Commit(o) \/ Refused(o)
  \/ SaveDeviceRecord(o)

Answers(o) == AnswerReadOnly(o) \/ AnswerLeftover(o) \/ AnswerRemove(o)

Next ==
  \/ \E o \in Op : Begin(o) \/ Advances(o) \/ Answers(o) \/ SessionEnds(o) \/ Throw(o)
  \/ \E s \in {s \in Op : Runs(s)} : Works(s)
  \/ \E s \in NoneOr({s \in Op : Runs(s)}) : TypesAdd(s) \/ TypesCommit(s)
  \/ \E c \in Committer : Commits(c)
  \/ \E p \in Process : Crash(p)

Spec == Init /\ [][Next]_vars

-----------------------------------------------------------------------------
(* Properties *)

\* o is between taking the lock and giving it up.  A removal gives it up with
\* the directory.
Holds(o) ==
  /\ op[o].acquired
  /\ \/ op[o].at \in {"leftover", "askLeftover", "launch", "running", "askRemove", "remove", "change"}
     \/ op[o].at \in {"stage", "commit", "git"} /\ op[o].kind # "remove"

\* An operation that took the lock, and the session it launched, have it until
\* they give it up (D-047, item 1).
LockKept == \A o \in Op : Holds(o) => lock = Mine(o)

\* While a session that took the lock runs, its project is neither archived nor removed.
OpenProjectStays ==
  \A o \in Op : op[o].acquired /\ Is(o, "running") =>
                  head.manifest # None /\ ~head.manifest.archived

Wanted(k, m) ==
  CASE k = "remove" -> m = None
    [] k = "archive" -> m # None /\ m.archived
    [] k = "unarchive" -> m # None /\ ~m.archived
    [] k = "addRepo" -> m # None /\ m.repo
    [] k = "removeRepo" -> m # None /\ ~m.repo
    [] OTHER -> TRUE

\* What an operation reports done is committed when it says so.
ReportedIsCommitted ==
  [][\A o \in Op : op'[o].success /\ ~op[o].success =>
                     Wanted(op[o].kind, head'.manifest)]_vars

\* An operation that is over, however it ended, has no lock.
NothingLeftLocked ==
  \A o \in Op : Is(o, "idle") /\ alive[HostOf[o]] =>
                  lock = None \/ lock.pid # HostOf[o]

\* No commit of a project's files lands while another live session has the project
\* locked (workspace-hooks.ts:75-76).
CommitsBesideLock ==
  [][\A c \in Committer :
       CommitLands(c) /\ git[c].staged # "nothing" => NoConflict(git[c].env, lock, isAlive(lock))]_vars

\* The writer of the project.
Writer ==
  IF \E o \in Op : Holds(o) THEN Actor(CHOOSE o \in Op : Holds(o)) ELSE None
Abstract == INSTANCE SingleWriter WITH writer <- Writer, log <- head, author <- author
ImplementsSingleWriter == Abstract!Spec
=============================================================================
