---------------------------- MODULE SessionLock ----------------------------
(***************************************************************************)
(* The per-session lock of the mutating run commands                       *)
(* (packages/cli/src/core/session-lock.ts): the file run.lock, created     *)
(* with O_EXCL, carries the record of its holder; a holder proven dead is  *)
(* taken over through a staging file run.lock.<epoch> renamed over it.     *)
(*                                                                         *)
(* A process is one CLI invocation.  Every file system call is a step of   *)
(* its own, because another process can run between any two of them.       *)
(***************************************************************************)
EXTENDS Naturals, FiniteSets

CONSTANTS
  Procs,     \* CLI invocations; a pid is never reused
  RunOf,     \* [Procs -> run ids]; --apply R and --abort R all carry R itself
  HostOf,    \* [Procs -> hosts]; a pid says nothing on another host
  ForceOf,   \* [Procs -> the run id given with --force-unlock, or none]: the
             \* refusal asks a human to check first, the code checks nothing
  Mortal,    \* processes that may be killed at any moment
  NoFile     \* run.lock does not exist

(***************************************************************************)
(* The file at run.lock: who created it, the epoch of its record, and      *)
(* whether the record has been written (O_EXCL creates it empty).          *)
(***************************************************************************)
LockFile == [by: Procs, epoch: Nat, written: BOOLEAN]

ASSUME NoFileAssumption == NoFile \notin LockFile
ASSUME ProcsAssumption == Mortal \subseteq Procs

VARIABLES
  pc,         \* where each process is in acquire, the command, or release
  lock,       \* the file at run.lock
  staging,    \* the files run.lock.<epoch>, with the process that created each
  seen,       \* the holder record each process has read
  epoch,      \* the epoch in each process's lock handle
  clobbered,  \* history: the takeovers that landed on a lock they never judged
  overruled   \* history: the live holders whose lock a human forced away

vars == <<pc, lock, staging, seen, epoch, clobbered, overruled>>

Refusals == {"unreadable", "busy", "racing"}
Dead     == {"exited", "crashed"}
Steps    == {"idle", "read", "judge", "stage", "rename", "write",
             "held", "unlink", "released"} \union Refusals \union Dead

Init ==
  /\ pc = [p \in Procs |-> "idle"]
  /\ lock = NoFile
  /\ staging = {}
  /\ seen = [p \in Procs |-> NoFile]
  /\ epoch = [p \in Procs |-> 0]
  /\ clobbered = {}
  /\ overruled = {}

Goto(p, step) == pc' = [pc EXCEPT ![p] = step]

-----------------------------------------------------------------------------
(***************************************************************************)
(* acquireSessionLock                                                      *)
(***************************************************************************)

(* openSync(lockPath, "wx"): creates an empty file, or fails with EEXIST.  *)
Create(p) ==
  /\ pc[p] = "idle"
  /\ \/ /\ lock = NoFile
        /\ lock' = [by |-> p, epoch |-> 1, written |-> FALSE]
        /\ epoch' = [epoch EXCEPT ![p] = 1]
        /\ Goto(p, "write")
     \/ /\ lock # NoFile
        /\ Goto(p, "read")
        /\ UNCHANGED <<lock, epoch>>
  /\ UNCHANGED <<staging, seen, clobbered, overruled>>

(* The record is written through the descriptor: if the path now names     *)
(* another file, the write goes to an orphaned one and changes nothing     *)
(* another process can see.  Either way a handle is returned.              *)
Write(p) ==
  /\ pc[p] = "write"
  /\ lock' = IF lock # NoFile /\ lock.by = p
             THEN [lock EXCEPT !.written = TRUE] ELSE lock
  /\ Goto(p, "held")
  /\ UNCHANGED <<staging, seen, epoch, clobbered, overruled>>

(* readRecordWithRetry, a read that finds a record.                        *)
ReadRecord(p) ==
  /\ pc[p] = "read"
  /\ lock # NoFile
  /\ lock.written
  /\ seen' = [seen EXCEPT ![p] = lock]
  /\ Goto(p, "judge")
  /\ UNCHANGED <<lock, staging, epoch, clobbered, overruled>>

(* Mutant: a lock found empty is waited for without a deadline. *)
GiveUpOnNoFileOnly(p) ==
  /\ pc[p] = "read"
  /\ lock = NoFile
  /\ Goto(p, "unreadable")
  /\ UNCHANGED <<lock, staging, seen, epoch, clobbered, overruled>>

(* readRecordWithRetry gives up: the file has vanished, or it was still    *)
(* empty when the 200 ms deadline passed.                                  *)
GiveUp(p) ==
  /\ pc[p] = "read"
  /\ lock # NoFile => ~lock.written
  /\ Goto(p, "unreadable")
  /\ UNCHANGED <<lock, staging, seen, epoch, clobbered, overruled>>

(* Mutant: the pid of another host is looked up on this one. *)
ProvenDeadOnAnyHost(p, r) ==
  HostOf[r.by] = HostOf[p] => pc[r.by] \in Dead

(* process.kill(pid, 0) fails with ESRCH, which only this host can tell.   *)
ProvenDead(p, r) ==
  /\ HostOf[r.by] = HostOf[p]
  /\ pc[r.by] \in Dead

(* forceUnlock === holder.runId: whether that holder lives is not asked.   *)
Forced(p, r) == ForceOf[p] = RunOf[r.by]

Judge(p) ==
  /\ pc[p] = "judge"
  /\ \/ /\ ProvenDead(p, seen[p]) \/ Forced(p, seen[p])
        /\ Goto(p, "stage")
     \/ /\ ~ProvenDead(p, seen[p])
        /\ ~Forced(p, seen[p])
        /\ Goto(p, "busy")
  /\ UNCHANGED <<lock, staging, seen, epoch, clobbered, overruled>>

NextEpoch(r) == r.epoch + 1

StagingExists(e) == \E s \in staging : s.epoch = e

(* openSync(stagingPath, "wx") and the write of the record: nobody reads   *)
(* the staging file before it is renamed.                                  *)
Stage(p) ==
  /\ pc[p] = "stage"
  /\ LET e == NextEpoch(seen[p]) IN
     \/ /\ ~StagingExists(e)
        /\ staging' = staging \union {[epoch |-> e, by |-> p]}
        /\ epoch' = [epoch EXCEPT ![p] = e]
        /\ Goto(p, "rename")
     \/ /\ StagingExists(e)
        /\ Goto(p, "racing")
        /\ UNCHANGED <<staging, epoch>>
  /\ UNCHANGED <<lock, seen, clobbered, overruled>>

(* renameSync(stagingPath, lockPath) replaces whatever is at lockPath.     *)
Rename(p) ==
  /\ pc[p] = "rename"
  /\ lock' = [by |-> p, epoch |-> epoch[p], written |-> TRUE]
  /\ staging' = {s \in staging : s.epoch # epoch[p]}
  /\ clobbered' = IF lock \in {NoFile, seen[p]} THEN clobbered
                  ELSE clobbered \union {p}
  /\ Goto(p, "held")
  /\ overruled' = IF /\ lock = seen[p]
                     /\ Forced(p, lock)
                     /\ pc[lock.by] \notin Dead
                  THEN overruled \union {lock.by} ELSE overruled
  /\ UNCHANGED <<seen, epoch>>

-----------------------------------------------------------------------------
(***************************************************************************)
(* releaseSessionLock, process end                                         *)
(***************************************************************************)

(* Mutant: the epoch read back is compared with that of a first record. *)
StillFirst(p) ==
  /\ lock # NoFile
  /\ lock.written
  /\ RunOf[lock.by] = RunOf[p]
  /\ lock.epoch = 1

(* The record at lockPath still carries this handle's runId and epoch.     *)
StillMine(p) ==
  /\ lock # NoFile
  /\ lock.written
  /\ RunOf[lock.by] = RunOf[p]
  /\ lock.epoch = epoch[p]

(* The command has ended; the record is read back before the unlink.       *)
CheckOwner(p) ==
  /\ pc[p] = "held"
  /\ Goto(p, IF StillMine(p) THEN "unlink" ELSE "released")
  /\ UNCHANGED <<lock, staging, seen, epoch, clobbered, overruled>>

(* unlinkSync(lockPath); a missing file is ignored.                        *)
Unlink(p) ==
  /\ pc[p] = "unlink"
  /\ lock' = NoFile
  /\ Goto(p, "released")
  /\ UNCHANGED <<staging, seen, epoch, clobbered, overruled>>

Exit(p) ==
  /\ pc[p] \in {"released"} \union Refusals
  /\ Goto(p, "exited")
  /\ UNCHANGED <<lock, staging, seen, epoch, clobbered, overruled>>

Crash(p) ==
  /\ p \in Mortal
  /\ pc[p] \notin {"idle"} \union Dead
  /\ Goto(p, "crashed")
  /\ UNCHANGED <<lock, staging, seen, epoch, clobbered, overruled>>

Step(p) ==
  \/ Create(p) \/ Write(p)
  \/ ReadRecord(p) \/ GiveUp(p) \/ Judge(p) \/ Stage(p) \/ Rename(p)
  \/ CheckOwner(p) \/ Unlink(p) \/ Exit(p)

Next == \E p \in Procs : Step(p) \/ Crash(p)

Spec == Init /\ [][Next]_vars

(* The operating system schedules every process until it dies.  A command  *)
(* that holds the lock ends, and the deadline of a retry loop passes.      *)
FairSpec == Spec /\ \A p \in Procs : WF_vars(Step(p))

-----------------------------------------------------------------------------
(***************************************************************************)
(* Properties                                                              *)
(***************************************************************************)

(* Every process is at a step of the protocol, and files and handles are   *)
(* records a process wrote.                                                *)
TypeOK ==
  /\ pc \in [Procs -> Steps]
  /\ lock \in LockFile \union {NoFile}
  /\ staging \subseteq [epoch: Nat, by: Procs]
  /\ seen \in [Procs -> LockFile \union {NoFile}]
  /\ epoch \in [Procs -> Nat]
  /\ clobbered \subseteq Procs
  /\ overruled \subseteq Procs

(* The processes whose command runs believing it has the session.          *)
Holders == {p \in Procs : pc[p] \in {"held", "unlink"}}

(* Two commands never run on a session at once before one of two things    *)
(* has happened: a takeover renamed its staging file over a lock other     *)
(* than the one it had judged (read in session-lock.ts:165, rename in line *)
(* 213), or a human's --force-unlock took the lock of a holder that was    *)
(* alive (line 166 compares run ids only).  No death, race, other host or  *)
(* forced takeover of a dead holder is a third way.                        *)
MutualExclusion ==
  clobbered = {} /\ overruled = {} => \A p, q \in Holders : p = q

(* A lock on disk is on its way to removal or belongs to a process killed  *)
(* while it had it: takeover and the ownership check of a release          *)
(* (session-lock.ts:218-226) never abandon a live process's own lock.      *)
LockHasKeeper ==
  lock # NoFile =>
    \/ pc[lock.by] \in {"write", "held", "unlink", "crashed"}

(* Takers never wait on each other and a lock left empty by a crash does   *)
(* not hang the next command: every invocation that is not killed gets the *)
(* lock or a refusal (the 200 ms deadline of session-lock.ts:88-96).       *)
EveryInvocationAnswered ==
  \A p \in Procs : (pc[p] \in {"read", "judge", "stage", "rename", "write"})
                     ~> (pc[p] \in {"held"} \union Refusals \union Dead)

(* session-lock.ts:189-192, "lets exactly one taker through", and the test *)
(* "del mismo lock stale, exactamente un tomador gana la epoca": at no     *)
(* time do two commands hold the session.                                  *)
OneHolder == \A p, q \in Holders : p = q

(* session-lock.ts:217, "never releases a lock another taker now owns".    *)
ReleasesOwnLock ==
  [][\A p \in Procs :
        pc[p] = "unlink" /\ pc'[p] = "released" =>
          lock = NoFile \/ lock.by = p]_vars

(* session-lock.ts:203, "otro proceso esta tomando la sesion en este mismo *)
(* instante; reintenta": when the staging file of the next epoch exists,   *)
(* the process that created it is alive and will be done with it.          *)
RacingMeansTaking ==
  [][\A p \in Procs :
        pc[p] = "stage" /\ pc'[p] = "racing" =>
          \E s \in staging : /\ s.epoch = NextEpoch(seen[p])
                             /\ pc[s.by] \notin Dead]_vars

-----------------------------------------------------------------------------
(***************************************************************************)
(* The inductive invariant behind MutualExclusion and LockHasKeeper.       *)
(***************************************************************************)
Owning == {"write", "held", "unlink"}

(* A process past its read has a record, and one past its judgement has    *)
(* judged a process that is dead for good, unless it was told to force.    *)
JudgedDead ==
  \A p \in Procs :
    /\ pc[p] \in {"judge", "stage", "rename"} => seen[p] \in LockFile
    /\ pc[p] \in {"stage", "rename"} =>
         pc[seen[p].by] \in Dead \/ Forced(p, seen[p])

(* The file at run.lock agrees with the handle of the process it names.    *)
LockMatchesHandle ==
  lock # NoFile =>
    /\ pc[lock.by] \in Owning \union {"crashed"}
    /\ lock.epoch = epoch[lock.by]
    /\ pc[lock.by] \in {"held", "unlink"} => lock.written

(* Until a takeover lands on a lock it never judged or on a live holder's, *)
(* every owner's lock is the one on disk.                                  *)
OwnersHaveTheLock ==
  clobbered = {} /\ overruled = {} =>
    \A p \in Procs : pc[p] \in Owning => lock # NoFile /\ lock.by = p

LockInv == TypeOK /\ JudgedDead /\ LockMatchesHandle /\ OwnersHaveTheLock
=============================================================================
