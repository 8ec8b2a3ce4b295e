------------------------- MODULE SessionLockProofs -------------------------
(***************************************************************************)
(* Mutual exclusion of the session lock, up to a takeover that lands on a  *)
(* lock it never judged or is forced over a live holder, for any number of *)
(* processes, hosts, crashes and --force-unlock.                           *)
(***************************************************************************)
EXTENDS SessionLock, TLAPS

(* Initially nothing is locked, so every part of the invariant holds.      *)
LEMMA InitInv == Init => LockInv
  BY NoFileAssumption, ProcsAssumption
  DEF Init, LockInv, TypeOK, JudgedDead, LockMatchesHandle, OwnersHaveTheLock,
      Owning, Steps, Refusals, Dead, LockFile

(***************************************************************************)
(* One lemma per action: a step of a live process, or its death, keeps the *)
(* invariant.                                                              *)
(***************************************************************************)
LEMMA CreateInv == ASSUME NEW p \in Procs, LockInv, Create(p) PROVE LockInv'
  <1> USE DEF LockInv, Goto, Steps, Refusals, Dead, Owning, LockFile
  <1>1. CASE lock = NoFile
    <2> DEFINE new == [by |-> p, epoch |-> 1, written |-> FALSE]
    <2>1. /\ lock' = new
          /\ epoch' = [epoch EXCEPT ![p] = 1]
          /\ pc' = [pc EXCEPT ![p] = "write"]
          /\ UNCHANGED <<staging, seen, clobbered, overruled>>
      BY <1>1 DEF Create
    <2>2. new \in LockFile
      OBVIOUS
    <2>3. TypeOK'
      BY <2>1, <2>2 DEF TypeOK
    <2>4. JudgedDead'
      BY <2>1 DEF Create, TypeOK, JudgedDead
    <2>5. LockMatchesHandle'
      BY <2>1 DEF TypeOK, LockMatchesHandle
    <2>6. OwnersHaveTheLock'
      BY <1>1, <2>1, <2>2, NoFileAssumption DEF TypeOK, OwnersHaveTheLock
    <2> QED
      BY <2>3, <2>4, <2>5, <2>6
  <1>2. CASE lock # NoFile
    <2>1. pc' = [pc EXCEPT ![p] = "read"] /\ UNCHANGED <<lock, epoch, staging, seen, clobbered, overruled>>
      BY <1>2 DEF Create
    <2> QED
      BY <2>1 DEF Create, TypeOK, JudgedDead, LockMatchesHandle, OwnersHaveTheLock
  <1> QED
    BY <1>1, <1>2

LEMMA WriteInv == ASSUME NEW p \in Procs, LockInv, Write(p) PROVE LockInv'
  <1> USE DEF LockInv, Goto, Steps, Refusals, Dead, Owning, LockFile
  <1>1. TypeOK'
    BY NoFileAssumption DEF TypeOK, JudgedDead, Write
  <1>2. JudgedDead'
    BY DEF TypeOK, JudgedDead, Write
  <1>3. LockMatchesHandle'
    BY NoFileAssumption DEF TypeOK, LockMatchesHandle, Write
  <1>4. OwnersHaveTheLock'
    BY NoFileAssumption DEF TypeOK, OwnersHaveTheLock, LockMatchesHandle, Write
  <1> QED
    BY <1>1, <1>2, <1>3, <1>4

LEMMA ReadRecordInv == ASSUME NEW p \in Procs, LockInv, ReadRecord(p) PROVE LockInv'
  <1> USE DEF LockInv, Goto, Steps, Refusals, Dead, Owning, LockFile
  <1>1. TypeOK'
    BY NoFileAssumption DEF TypeOK, JudgedDead, ReadRecord
  <1>2. JudgedDead'
    BY NoFileAssumption DEF TypeOK, JudgedDead, ReadRecord
  <1>3. LockMatchesHandle'
    BY NoFileAssumption DEF TypeOK, LockMatchesHandle, ReadRecord
  <1>4. OwnersHaveTheLock'
    BY NoFileAssumption DEF TypeOK, OwnersHaveTheLock, LockMatchesHandle, ReadRecord
  <1> QED
    BY <1>1, <1>2, <1>3, <1>4

LEMMA GiveUpInv == ASSUME NEW p \in Procs, LockInv, GiveUp(p) PROVE LockInv'
  <1> USE DEF LockInv, Goto, Steps, Refusals, Dead, Owning, LockFile
  <1>1. TypeOK'
    BY NoFileAssumption DEF TypeOK, JudgedDead, GiveUp
  <1>2. JudgedDead'
    BY NoFileAssumption DEF TypeOK, JudgedDead, GiveUp
  <1>3. LockMatchesHandle'
    BY NoFileAssumption DEF TypeOK, LockMatchesHandle, GiveUp
  <1>4. OwnersHaveTheLock'
    BY NoFileAssumption DEF TypeOK, OwnersHaveTheLock, LockMatchesHandle, GiveUp
  <1> QED
    BY <1>1, <1>2, <1>3, <1>4

LEMMA JudgeInv == ASSUME NEW p \in Procs, LockInv, Judge(p) PROVE LockInv'
  <1> USE DEF LockInv, Goto, Steps, Refusals, Dead, Owning, LockFile
  <1>1. TypeOK'
    BY NoFileAssumption DEF TypeOK, JudgedDead, Judge, ProvenDead, Forced
  <1>2. JudgedDead'
    BY NoFileAssumption DEF TypeOK, JudgedDead, Judge, ProvenDead, Forced
  <1>3. LockMatchesHandle'
    BY NoFileAssumption DEF TypeOK, LockMatchesHandle, Judge, ProvenDead, Forced
  <1>4. OwnersHaveTheLock'
    BY NoFileAssumption DEF TypeOK, OwnersHaveTheLock, LockMatchesHandle, Judge, ProvenDead, Forced
  <1> QED
    BY <1>1, <1>2, <1>3, <1>4

LEMMA StageInv == ASSUME NEW p \in Procs, LockInv, Stage(p) PROVE LockInv'
  <1> USE DEF LockInv, Goto, Steps, Refusals, Dead, Owning, LockFile
  <1>1. TypeOK'
    BY NoFileAssumption DEF TypeOK, JudgedDead, Stage, NextEpoch, StagingExists
  <1>2. JudgedDead'
    BY NoFileAssumption DEF TypeOK, JudgedDead, Stage, NextEpoch, StagingExists
  <1>3. LockMatchesHandle'
    BY NoFileAssumption DEF TypeOK, LockMatchesHandle, Stage, NextEpoch, StagingExists
  <1>4. OwnersHaveTheLock'
    BY NoFileAssumption DEF TypeOK, OwnersHaveTheLock, LockMatchesHandle, Stage, NextEpoch, StagingExists
  <1> QED
    BY <1>1, <1>2, <1>3, <1>4

LEMMA RenameInv == ASSUME NEW p \in Procs, LockInv, Rename(p) PROVE LockInv'
  <1> USE DEF LockInv, Goto, Steps, Refusals, Dead, Owning, LockFile
  <1>1. TypeOK'
    BY NoFileAssumption DEF TypeOK, JudgedDead, Rename
  <1>2. JudgedDead'
    BY NoFileAssumption DEF TypeOK, JudgedDead, Rename
  <1>3. LockMatchesHandle'
    BY NoFileAssumption DEF TypeOK, LockMatchesHandle, Rename
  <1>4. OwnersHaveTheLock'
    <2> SUFFICES ASSUME clobbered' = {}, overruled' = {} PROVE
          \A q \in Procs : pc'[q] \in Owning => lock' # NoFile /\ lock'.by = q
      BY DEF OwnersHaveTheLock
    <2>1. lock' \in LockFile /\ lock'.by = p
      BY DEF Rename, TypeOK
    <2>2. clobbered = {} /\ overruled = {} /\ lock \in {NoFile, seen[p]}
      BY DEF Rename
    <2>3. seen[p] \in LockFile /\ (lock = seen[p] => pc[seen[p].by] \in Dead)
      BY DEF Rename, JudgedDead
    <2>4. ASSUME NEW q \in Procs, pc[q] \in Owning PROVE FALSE
      BY <2>2, <2>3, <2>4 DEF OwnersHaveTheLock
    <2>5. ASSUME NEW q \in Procs, pc'[q] \in Owning PROVE q = p
      BY <2>4, <2>5 DEF Rename, TypeOK
    <2> QED
      BY <2>1, <2>5, NoFileAssumption
  <1> QED
    BY <1>1, <1>2, <1>3, <1>4

LEMMA CheckOwnerInv == ASSUME NEW p \in Procs, LockInv, CheckOwner(p) PROVE LockInv'
  <1> USE DEF LockInv, Goto, Steps, Refusals, Dead, Owning, LockFile
  <1>1. TypeOK'
    BY NoFileAssumption DEF TypeOK, JudgedDead, CheckOwner, StillMine
  <1>2. JudgedDead'
    BY NoFileAssumption DEF TypeOK, JudgedDead, CheckOwner, StillMine
  <1>3. LockMatchesHandle'
    BY NoFileAssumption DEF TypeOK, LockMatchesHandle, CheckOwner, StillMine
  <1>4. OwnersHaveTheLock'
    BY NoFileAssumption DEF TypeOK, OwnersHaveTheLock, LockMatchesHandle, CheckOwner, StillMine
  <1> QED
    BY <1>1, <1>2, <1>3, <1>4

LEMMA UnlinkInv == ASSUME NEW p \in Procs, LockInv, Unlink(p) PROVE LockInv'
  <1> USE DEF LockInv, Goto, Steps, Refusals, Dead, Owning, LockFile
  <1>1. TypeOK'
    BY NoFileAssumption DEF TypeOK, JudgedDead, Unlink
  <1>2. JudgedDead'
    BY NoFileAssumption DEF TypeOK, JudgedDead, Unlink
  <1>3. LockMatchesHandle'
    BY NoFileAssumption DEF TypeOK, LockMatchesHandle, Unlink
  <1>4. OwnersHaveTheLock'
    BY NoFileAssumption DEF TypeOK, OwnersHaveTheLock, LockMatchesHandle, Unlink
  <1> QED
    BY <1>1, <1>2, <1>3, <1>4

LEMMA ExitInv == ASSUME NEW p \in Procs, LockInv, Exit(p) PROVE LockInv'
  <1> USE DEF LockInv, Goto, Steps, Refusals, Dead, Owning, LockFile
  <1>1. TypeOK'
    BY NoFileAssumption DEF TypeOK, JudgedDead, Exit
  <1>2. JudgedDead'
    BY NoFileAssumption DEF TypeOK, JudgedDead, Exit
  <1>3. LockMatchesHandle'
    BY NoFileAssumption DEF TypeOK, LockMatchesHandle, Exit
  <1>4. OwnersHaveTheLock'
    BY NoFileAssumption DEF TypeOK, OwnersHaveTheLock, LockMatchesHandle, Exit
  <1> QED
    BY <1>1, <1>2, <1>3, <1>4

LEMMA CrashInv == ASSUME NEW p \in Procs, LockInv, Crash(p) PROVE LockInv'
  <1> USE DEF LockInv, Goto, Steps, Refusals, Dead, Owning, LockFile
  <1>1. TypeOK'
    BY NoFileAssumption DEF TypeOK, JudgedDead, Crash
  <1>2. JudgedDead'
    BY NoFileAssumption DEF TypeOK, JudgedDead, Crash
  <1>3. LockMatchesHandle'
    BY NoFileAssumption DEF TypeOK, LockMatchesHandle, Crash
  <1>4. OwnersHaveTheLock'
    BY NoFileAssumption DEF TypeOK, OwnersHaveTheLock, LockMatchesHandle, Crash
  <1> QED
    BY <1>1, <1>2, <1>3, <1>4

(* The invariant holds in every reachable state.                           *)
THEOREM Invariance == Spec => []LockInv
  <1>1. LockInv /\ [Next]_vars => LockInv'
    <2> SUFFICES ASSUME LockInv, [Next]_vars PROVE LockInv'
      OBVIOUS
    <2>1. CASE UNCHANGED vars
      BY <2>1 DEF vars, LockInv, TypeOK, JudgedDead, LockMatchesHandle,
                  OwnersHaveTheLock
    <2>2. ASSUME NEW p \in Procs, Step(p) PROVE LockInv'
      BY <2>2, CreateInv, WriteInv, ReadRecordInv, GiveUpInv, JudgeInv,
         StageInv, RenameInv, CheckOwnerInv, UnlinkInv, ExitInv DEF Step
    <2>3. ASSUME NEW p \in Procs, Crash(p) PROVE LockInv'
      BY <2>3, CrashInv
    <2> QED
      BY <2>1, <2>2, <2>3 DEF Next
  <1> QED
    BY <1>1, InitInv, PTL DEF Spec

(* Processes are always at a step of the protocol, and run.lock, its       *)
(* staging files and the handles hold records a process wrote.             *)
THEOREM TypeCorrect == Spec => []TypeOK
  <1>1. LockInv => TypeOK
    BY DEF LockInv
  <1> QED
    BY <1>1, Invariance, PTL

(* acquireSessionLock admits one command at a time until a takeover        *)
(* renames over a lock it never judged or a --force-unlock takes the lock  *)
(* of a holder that is alive: nothing else gives a session two commands.   *)
THEOREM MutualExclusionHolds == Spec => []MutualExclusion
  <1>1. LockInv => MutualExclusion
    BY DEF LockInv, OwnersHaveTheLock, MutualExclusion, Holders, Owning
  <1> QED
    BY <1>1, Invariance, PTL

(* A run.lock on disk is never abandoned: its process will remove it, or   *)
(* was killed while it had it.                                             *)
THEOREM LockHasKeeperHolds == Spec => []LockHasKeeper
  <1>1. LockInv => LockHasKeeper
    BY DEF LockInv, LockMatchesHandle, LockHasKeeper, Owning
  <1> QED
    BY <1>1, Invariance, PTL
=============================================================================
