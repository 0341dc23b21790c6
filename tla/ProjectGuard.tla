---------------------------- MODULE ProjectGuard ----------------------------
(***************************************************************************)
(* The pure decisions that keep one writer per project (decision D-047):    *)
(* who may take or remove the lock of a project (core/project-lock.ts), and *)
(* which commits the commit-msg hook of the workspace lets through, and     *)
(* under whose name (core/workspace-commit-guard.ts).                       *)
(* A lock is [pid, session]; pid stands for the pair (pid, procStart), and  *)
(* session is None where the code has undefined.                           *)
(***************************************************************************)
CONSTANT None

unknown == "unknown" \* UNKNOWN_SESSION_TRAILER_VALUE

\* Mutant: the holder's death is asked for the wrong way round.
MayAcquire_Live(existing, isAlive) == existing = None \/ isAlive

\* decideProjectLockAcquisition: only a live holder refuses.
MayAcquire(existing, isAlive) == existing = None \/ ~isAlive

\* Mutant: the holder is not compared.
MayRelease_Anyone(existing, pid) == existing # None

\* decideProjectLockRelease
MayRelease(existing, pid) == existing # None /\ existing.pid = pid

(* A commit as the hook sees it:
     session  CLAUDE_CODE_SESSION_ID in its environment, or None
     process  SEEYA_LOCK_HOLDER_PID: the process that commits as the holder, or None
     trailer  the Seeya-Session-Id its message has already, or None
     marked   SEEYA_MANIFEST_WRITE_AUTHORIZED: seeya means to write the manifest  *)

\* Mutant: two that know of no session are the same.
HoldsBySession_Undefined(c, lock) == lock.session = c.session

HoldsBySession(c, lock) == lock.session # None /\ lock.session = c.session

isLockHolderProcess(c, lock) == c.process # None /\ c.process = lock.pid

\* decideSessionConflict: a live lock is the committer's own.
NoConflict(c, lock, isAlive) ==
  lock # None /\ isAlive => HoldsBySession(c, lock) \/ isLockHolderProcess(c, lock)

authorizedBySameProcess(c, lock, isAlive) ==
  lock # None /\ isAlive /\ ~HoldsBySession(c, lock) /\ isLockHolderProcess(c, lock)

\* Whose commit the guard believes it is: the name of a lock counts only where
\* its process does not commit.
sessionId(c, lock, isAlive) ==
  IF c.session # None THEN c.session
  ELSE IF lock # None /\ lock.session # None /\ ~authorizedBySameProcess(c, lock, isAlive)
  THEN lock.session
  ELSE unknown

\* decideTrailers: a trailer that is there must agree, unless the holder's process wrote it.
TrailerAgrees(c, lock, isAlive) ==
  ~authorizedBySameProcess(c, lock, isAlive)
    => c.trailer \in {None, sessionId(c, lock, isAlive)}

\* decideCommitGuard, for a commit to this project alone.
AllowsCommit(c, stagesManifest, lock, isAlive) ==
  /\ stagesManifest => c.marked
  /\ NoConflict(c, lock, isAlive)
  /\ TrailerAgrees(c, lock, isAlive)
=============================================================================
