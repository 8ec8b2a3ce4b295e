----------------------------- MODULE ParallelRun -----------------------------
(***************************************************************************)
(* One invocation of `run --parallel --worktrees`, fresh or resumed: the   *)
(* wave loop of packages/cli/src/commands/run-parallel.ts, the durable     *)
(* writes of persistence/manifest.ts it makes through its callbacks, and   *)
(* the terminalization in commands/run.ts.                                 *)
(*                                                                         *)
(* The actors are the loop, the workers it launches, the user (a caught    *)
(* signal), and the machine (a failing write, a crash).  The loop can be   *)
(* overtaken by them at every await, which is where its steps end.         *)
(***************************************************************************)
EXTENDS TaskDag, Integers, FiniteSets

CONSTANTS
  Tasks,          \* the ids of the plan's tasks
  Plan,           \* the approved plan (see TaskDag)
  MaxParallel,    \* limit of a wave
  MaxTasks,       \* dispatches the chain of runs may make
  Strict,         \* --strict-ownership
  Keep,           \* --keep-worktrees
  Outputs,        \* what a worker may leave behind: the status it reports, and
                  \* the kinds of files ("own", "stray") it changed and claims
  Starts          \* where the invocation may start: what it inherits from its
                  \* chain (tasks done, integration tip, dispatches spent)

ReportStatus == {"completed", "blocked", "failed", "skipped"}
FileKinds    == SUBSET {"own", "stray"}
Report       == [status: ReportStatus, changed: FileKinds, claimed: FileKinds]

ASSUME PlanAssumption ==
  /\ Plan.order \in Seq(Tasks) /\ TasksOf(Plan) = Tasks /\ WellFormedPlan(Plan)
  /\ Plan.files \in [Tasks -> SUBSET UNION {Plan.files[t] : t \in Tasks}]
  /\ Plan.priority \in [Tasks -> {0, 1, 2}]
(* A manifest with a limit on parallel tasks that is not positive is none.  *)
ASSUME LimitsAssumption ==
  /\ MaxParallel \in Nat \ {0} /\ MaxTasks \in Nat
  /\ Strict \in BOOLEAN /\ Keep \in BOOLEAN
ASSUME OutputsAssumption ==
  Outputs \subseteq Report
ASSUME StartsAssumption ==
  \A s \in Starts : /\ s.done \subseteq Tasks
                    /\ s.tip \in Seq(s.done) /\ IsInjective(s.tip)
                    /\ s.dispatches \in Nat /\ s.dispatches <= MaxTasks

CONSTANT NoOutput      \* no worker output yet

VARIABLES
  pc,             \* the await the loop is at
  start,          \* what this invocation inherited
  state,          \* the loop's status of every task
  wave, pos,      \* the wave, and the next of its tasks to act on
  launched,       \* the tasks of the wave whose worker was spawned
  spent,          \* taskDispatches, the loop's own count
  interrupted, exhausted,   \* why the loop ended
  failure,        \* the exception on its way: a durable write, or another
  aborted,        \* the abort signal of the invocation
  worker,         \* the workers: the processes and what they left
  base,           \* the commit each task's worktree starts from
  branch,         \* the integration branch: the tasks merged, in order
  removed,        \* the session's branches and worktrees have been removed
  held, disk,     \* the manifest in memory and the one on disk
  sentinels,      \* the tasks with a worker.json on disk
  spawned         \* history: the tasks whose worker was started, in order

loopVars == <<state, wave, pos, launched, spent, interrupted, exhausted, failure>>
vars == <<pc, start, loopVars, aborted, worker, base, branch, removed, held,
          disk, sentinels, spawned>>

-----------------------------------------------------------------------------
(***************************************************************************)
(* The manifest                                                            *)
(***************************************************************************)

RunStatus == {"running", "interrupted", "review_pending", "completed",
              "partial", "failed", "cancelled"}
RecordStatus == {"pending", "running", "interrupted"} \union ReportStatus

(* What createRunManifest and recordIntegration have written before the    *)
(* loop starts: parent entries that are completed, and the integration at  *)
(* the tip it continues from (run.ts:883-927).                             *)
FirstManifest(s) ==
  [status     |-> "running",
   safe       |-> FALSE,
   tasks      |-> [t \in Tasks |-> IF t \in s.done THEN "completed" ELSE "pending"],
   tip        |-> s.tip,
   dispatches |-> s.dispatches]

(* Mutant: the handle is changed before the write. *)
WriteFailsDirty(m) == held' = m /\ disk' \in {disk, m}

(* updateRunManifest: the candidate is written to a temporary file, renamed *)
(* over the manifest and the directory synced; the handle changes only when *)
(* all of it succeeded.                                                    *)
Written(m) == disk' = m /\ held' = m
WriteFails(m) == held' = held /\ disk' \in {disk, m}

Reserved(t) ==
  [held EXCEPT !.dispatches = @ + 1, !.tasks[t] = "running"]

Checkpointed(t, status) ==
  [held EXCEPT !.tasks[t] = status, !.tip = branch]

(* Tasks still running when a run ends produced no checkpoint.             *)
Unfinished(tasks) ==
  [t \in Tasks |-> IF tasks[t] = "running" THEN "interrupted" ELSE tasks[t]]

-----------------------------------------------------------------------------
(***************************************************************************)
(* The start of the loop                                                   *)
(***************************************************************************)
(* The tasks the chain has completed are never executed again.             *)
Seeded(s) == [t \in Tasks |-> IF t \in s.done THEN "done" ELSE "pending"]

Init ==
  /\ start \in Starts
  /\ pc = "setup"
  /\ state = Seeded(start)
  /\ wave = <<>> /\ pos = 1 /\ launched = <<>>
  /\ spent = start.dispatches
  /\ interrupted = FALSE /\ exhausted = FALSE /\ failure = "none"
  /\ aborted = FALSE
  /\ worker = [t \in Tasks |-> [process |-> "none", output |-> NoOutput]]
  /\ base = [t \in Tasks |-> <<>>]
  /\ branch = start.tip /\ removed = FALSE
  /\ held = FirstManifest(start) /\ disk = held
  /\ sentinels = {}
  /\ spawned = <<>>

(* assertWorktreeReady, setupIntegration: the branch is created at, or is  *)
(* already at, the inherited tip.                                          *)
Setup ==
  /\ pc = "setup"
  /\ \/ pc' = "top" /\ failure' = failure
     \/ pc' = "throw" /\ failure' = "other"
  /\ UNCHANGED <<start, state, wave, pos, launched, spent, interrupted, exhausted,
                 aborted, worker, base, branch, held, disk, sentinels, spawned, removed>>

Remaining == MaxTasks - spent

(* slice(0, remainingBudget)                                               *)
Sliced(w) == SubSeq(w, 1, IF Len(w) < Remaining THEN Len(w) ELSE Remaining)

ThisWave == Sliced(NextWave(Plan, state, MaxParallel))

(* Abort boundary 1, the chain's budget, and the next wave.                *)
Top ==
  /\ pc = "top"
  /\ \/ /\ aborted
        /\ interrupted' = TRUE /\ pc' = "finish"
        /\ UNCHANGED <<exhausted, wave, pos, launched>>
     \/ /\ ~aborted /\ Remaining <= 0
        /\ exhausted' = TRUE /\ pc' = "finish"
        /\ UNCHANGED <<interrupted, wave, pos, launched>>
     \/ /\ ~aborted /\ Remaining > 0
        /\ wave' = ThisWave
        /\ pos' = 1 /\ launched' = <<>>
        /\ pc' = IF wave' = <<>> THEN "finish" ELSE "prepare"
        /\ UNCHANGED <<interrupted, exhausted>>
  /\ UNCHANGED <<start, state, spent, failure, aborted, worker, base, branch,
                 held, disk, sentinels, spawned, removed>>

-----------------------------------------------------------------------------
(***************************************************************************)
(* A wave: per task, observe the signal, build the worktree, reserve the   *)
(* dispatch, observe the signal again, spawn                               *)
(***************************************************************************)
Task == wave[pos]

(* The signal is observed, or the budget has run out: stop launching.      *)
StopLaunching ==
  /\ pc = "prepare"
  /\ aborted \/ Remaining <= 0
  /\ interrupted' = aborted /\ exhausted' = ~aborted
  /\ pc' = "settle"
  /\ UNCHANGED <<start, state, wave, pos, launched, spent, failure, aborted,
                 worker, base, branch, held, disk, sentinels, spawned, removed>>

(* Mutant: worktrees start where the invocation started. *)
InheritedTip == start.tip

(* The integration tip when the wave is formed: nothing merges before all  *)
(* its workers have settled.                                               *)
WaveBase == branch

(* git worktree add -B <branch> <dir> <base of the wave>                   *)
AddWorktree ==
  /\ pc = "prepare"
  /\ ~aborted /\ Remaining > 0
  /\ \/ /\ base' = [base EXCEPT ![Task] = WaveBase]
        /\ pc' = "reserve" /\ failure' = failure
     \/ /\ base' = base
        /\ pc' = "unwind" /\ failure' = "other"
  /\ UNCHANGED <<start, state, wave, pos, launched, spent, interrupted, exhausted,
                 aborted, worker, branch, held, disk, sentinels, spawned, removed>>

Reserve ==
  /\ pc = "reserve"
  /\ \/ /\ Written(Reserved(Task))
        /\ spent' = spent + 1
        /\ pc' = "launch" /\ failure' = failure
     \/ /\ WriteFails(Reserved(Task))
        /\ spent' = spent
        /\ pc' = "unwind" /\ failure' = "reservation"
  /\ UNCHANGED <<start, state, wave, pos, launched, interrupted, exhausted,
                 aborted, worker, base, branch, sentinels, spawned, removed>>

(* The reservation stays spent when the signal comes before the spawn.     *)
Launch ==
  /\ pc = "launch"
  /\ \/ /\ aborted
        /\ interrupted' = TRUE
        /\ pc' = "settle"
        /\ UNCHANGED <<pos, launched, worker, spawned>>
     \/ /\ ~aborted
        /\ worker' = [worker EXCEPT ![Task].process = "starting"]
        /\ spawned' = Append(spawned, Task)
        /\ launched' = Append(launched, Task)
        /\ pos' = pos + 1
        /\ pc' = IF pos = Len(wave) THEN "settle" ELSE "prepare"
        /\ interrupted' = interrupted
  /\ UNCHANGED <<start, state, wave, spent, exhausted, failure, aborted, base,
                 branch, held, disk, sentinels, removed>>

(***************************************************************************)
(* Workers                                                                 *)
(***************************************************************************)
Alive(t) == worker[t].process \in {"starting", "running", "orphan"}

(* The processes whose result the loop will await.                         *)
Supervised(t) == worker[t].process \in {"starting", "running"}

(* onWorkerStarted writes worker.json, except for a tmux window whose pane *)
(* pid could not be read.                                                  *)
RecordWorker(t) ==
  /\ pc \notin {"ended", "dead"}
  /\ worker[t].process = "starting"
  /\ worker' = [worker EXCEPT ![t].process = "running"]
  /\ sentinels' \in {sentinels, sentinels \union {t}}
  /\ UNCHANGED <<pc, start, loopVars, aborted, base, branch, held, disk, spawned, removed>>

(* A worker ends by itself, by its timeout, or killed by the wave's abort  *)
(* signal; whatever it left is read back (parseWorkerOutput) and its       *)
(* sentinel removed, if the run still lives.                               *)
WorkerEnds(t) ==
  /\ worker[t].process = "running"
  /\ \E o \in Outputs : worker' = [worker EXCEPT ![t] = [process |-> "ended", output |-> o]]
  /\ sentinels' = IF pc = "dead" THEN sentinels ELSE sentinels \ {t}
  /\ UNCHANGED <<pc, start, loopVars, aborted, base, branch, held, disk, spawned, removed>>

(* The runner rejects: its script or tmux window could not be made, or     *)
(* worker.json could not be written after the spawn, which leaves a        *)
(* process nobody awaits or kills.  The loop awaits the results only after *)
(* the last launch: an earlier rejection has no handler and ends slad.     *)
RunnerRejects(t) ==
  /\ pc \notin {"ended", "dead"}
  /\ worker[t].process = "starting"
  /\ \E left \in {"ended", "orphan"} : worker' = [worker EXCEPT ![t].process = left]
  /\ \/ /\ pc = "settle"
        /\ pc' = "unwind" /\ failure' = "other"
     \/ /\ pc = "unwind"
        /\ UNCHANGED <<pc, failure>>
     \/ /\ pc \in {"prepare", "reserve", "launch"}
        /\ pc' = "dead" /\ failure' = failure
  /\ UNCHANGED <<start, state, wave, pos, launched, spent, interrupted, exhausted,
                 aborted, base, branch, held, disk, sentinels, spawned, removed>>

(* Mutant: a process nobody supervises is awaited too. *)
AllGone == \A t \in Tasks : ~Alive(t)

AllSettled == \A t \in Tasks : ~Supervised(t)

(* Promise.all resolved; abort boundary 2 discards the wave whole.         *)
Settle ==
  /\ pc = "settle"
  /\ AllSettled
  /\ interrupted' = (interrupted \/ aborted)
  /\ pos' = 1
  /\ pc' = IF aborted \/ launched = <<>> THEN "finish" ELSE "integrate"
  /\ UNCHANGED <<start, state, wave, launched, spent, exhausted, failure, aborted,
                 worker, base, branch, held, disk, sentinels, spawned, removed>>

(* abortLaunchedWorkers: the wave's signal kills every worker, and all are *)
(* awaited before the exception goes on.                                   *)
Unwind ==
  /\ pc = "unwind"
  /\ AllSettled
  /\ pc' = "throw"
  /\ UNCHANGED <<start, loopVars, aborted, worker, base, branch, held, disk,
                 sentinels, spawned, removed>>

-----------------------------------------------------------------------------
(***************************************************************************)
(* Integration: per task of the wave commit, attribute, merge, checkpoint. *)
(* The signal is not observed in here.                                     *)
(***************************************************************************)
Merging == launched[pos]

OwnFiles(t) == IF Plan.files[t] = {} THEN {} ELSE {"own"}

(* isPhantomCompletion: nothing it owns or claims shows a change in git.   *)
Phantom(t, o) ==
  LET expected == OwnFiles(t) \union o.claimed
  IN  expected # {} /\ expected \intersect o.changed = {}

(* taskOwnershipViolations: it changed a file outside its list.            *)
Trespass(t, o) == Plan.files[t] # {} /\ "stray" \in o.changed

(* What ownership attribution makes of a report.                           *)
Verdict(t, o) ==
  IF o.status = "completed" /\ Strict /\ (Phantom(t, o) \/ Trespass(t, o))
  THEN "failed" ELSE o.status

Verdicted(status) == worker' = [worker EXCEPT ![Merging].output.status = status]

(* commitTaskWork, the attribution and mergeTaskBranch, which turns every  *)
(* failure of the merge into a failed task; or the commit itself fails.    *)
Integrate ==
  /\ pc = "integrate"
  /\ LET o == worker[Merging].output
         verdict == Verdict(Merging, o)
     IN  \/ /\ verdict = "completed" /\ o.changed # {}
            /\ branch' = Append(branch, Merging)
            /\ Verdicted("completed")
            /\ pc' = "checkpoint" /\ failure' = failure
         \/ /\ verdict = "completed" /\ o.changed # {}
            /\ branch' = branch
            /\ Verdicted("failed")
            /\ pc' = "checkpoint" /\ failure' = failure
         \/ /\ verdict # "completed" \/ o.changed = {}
            /\ branch' = branch
            /\ Verdicted(verdict)
            /\ pc' = "checkpoint" /\ failure' = failure
         \/ /\ branch' = branch
            /\ worker' = worker
            /\ pc' = "throw" /\ failure' = "other"
  /\ UNCHANGED <<start, state, wave, pos, launched, spent, interrupted, exhausted,
                 aborted, base, held, disk, sentinels, spawned, removed>>

MoreToIntegrate == pos < Len(launched)

(* onTaskIntegrated: one manifest write.                                   *)
Checkpoint ==
  /\ pc = "checkpoint"
  /\ LET m == Checkpointed(Merging, worker[Merging].output.status)
     IN  \/ /\ Written(m)
            /\ IF MoreToIntegrate THEN pc' = "integrate" /\ pos' = pos + 1
                                  ELSE pc' = "secondary" /\ pos' = 1
            /\ failure' = failure
         \/ /\ WriteFails(m)
            /\ pc' = "throw" /\ pos' = pos /\ failure' = "checkpoint"
  /\ UNCHANGED <<start, state, wave, launched, spent, interrupted, exhausted, aborted,
                 worker, base, branch, sentinels, spawned, removed>>

(* Mutant: a failure leaves the tasks downstream pending. *)
StateWithoutSkips(t) ==
  [state EXCEPT ![t] = IF worker[t].output.status = "completed" THEN "done" ELSE "failed"]

(* A task that is not completed has failed, and skips the tasks downstream. *)
StateAfter(t) ==
  IF worker[t].output.status = "completed"
  THEN [state EXCEPT ![t] = "done"]
  ELSE AutoSkipDependents(Plan, [state EXCEPT ![t] = "failed"], t)

(* The loop's own status of a task, after every checkpoint of the wave.    *)
(* Artifacts and hooks never fail it.                                      *)
Secondary ==
  /\ pc = "secondary"
  /\ state' = StateAfter(Merging)
  /\ IF pos = Len(launched)
     THEN /\ pos' = 1
          /\ pc' = IF interrupted \/ exhausted THEN "finish" ELSE "top"
     ELSE pos' = pos + 1 /\ pc' = pc
  /\ UNCHANGED <<start, wave, launched, spent, interrupted, exhausted, failure, aborted,
                 worker, base, branch, held, disk, sentinels, spawned, removed>>

-----------------------------------------------------------------------------
(***************************************************************************)
(* The end of the run                                                      *)
(***************************************************************************)
Scheduled == Tasks \ start.done

ResultStatus ==
  IF Scheduled # {} /\ \A t \in Scheduled : state[t] = "done" THEN "completed"
  ELSE IF (\E t \in Scheduled : state[t] = "done")
          \/ (Scheduled = {} /\ start.done # {}) THEN "partial"
  ELSE "failed"

(* The chain has merged something since its base.                          *)
HasIntegration == branch # <<>>

(* Nothing merged in the whole chain: the session's branches are removed.  *)
Finish ==
  /\ pc = "finish"
  /\ removed' = ~(HasIntegration \/ Keep)
  /\ pc' = "terminalize"
  /\ UNCHANGED <<start, loopVars, aborted, worker, base, branch, held, disk, sentinels,
                 spawned>>

(* Mutant: the tasks of the discarded wave stay running. *)
InterruptedMidTask ==
  [held EXCEPT !.status = IF HasIntegration THEN "interrupted" ELSE "cancelled",
               !.safe   = HasIntegration,
               !.tip    = IF HasIntegration THEN branch ELSE @]

(* markRunInterrupted.                                                     *)
InterruptedManifest ==
  [held EXCEPT !.status = IF HasIntegration THEN "interrupted" ELSE "cancelled",
               !.safe   = HasIntegration,
               !.tip    = IF HasIntegration THEN branch ELSE @,
               !.tasks  = Unfinished(@)]

FinalManifest ==
  IF interrupted THEN InterruptedManifest
  ELSE IF HasIntegration THEN [held EXCEPT !.status = "review_pending", !.tip = branch]
  ELSE [held EXCEPT !.status = ResultStatus]

(* markRunInterrupted, review_pending or completeRunManifest.              *)
Terminalize ==
  /\ pc = "terminalize"
  /\ \/ Written(FinalManifest) /\ pc' = "ended" /\ failure' = failure
     \/ WriteFails(FinalManifest) /\ pc' = "throw" /\ failure' = "other"
  /\ UNCHANGED <<start, state, wave, pos, launched, spent, interrupted, exhausted,
                 aborted, worker, base, branch, sentinels, spawned, removed>>

(* runCommandLocked's catch: markRunUnrecoverable after a failed durable   *)
(* write, a failed run after any other exception.                          *)
CaughtManifest ==
  IF failure = "other" THEN [held EXCEPT !.status = "failed"]
  ELSE [held EXCEPT !.status = "interrupted", !.safe = FALSE, !.tasks = Unfinished(@)]

Catch ==
  /\ pc = "throw"
  /\ Written(CaughtManifest) \/ WriteFails(CaughtManifest)
  /\ pc' = "ended"
  /\ UNCHANGED <<start, loopVars, aborted, worker, base, branch, sentinels, spawned, removed>>

-----------------------------------------------------------------------------
(***************************************************************************)
(* The environment                                                         *)
(***************************************************************************)

(* The first SIGINT or SIGTERM aborts the invocation's signal.             *)
Signal ==
  /\ pc \notin {"ended", "dead"}
  /\ ~aborted
  /\ aborted' = TRUE
  /\ UNCHANGED <<pc, start, loopVars, worker, base, branch, held, disk, sentinels, spawned, removed>>

(* A second signal, SIGKILL or a power cut.  Workers live on.              *)
Crash ==
  /\ pc \notin {"ended", "dead"}
  /\ pc' = "dead"
  /\ UNCHANGED <<start, loopVars, aborted, worker, base, branch, held, disk, sentinels,
                 spawned, removed>>

Loop ==
  \/ Setup \/ Top \/ StopLaunching \/ AddWorktree \/ Reserve \/ Launch \/ Settle \/ Unwind
  \/ Integrate \/ Checkpoint \/ Secondary \/ Finish \/ Terminalize \/ Catch

Worker(t) == RecordWorker(t) \/ WorkerEnds(t) \/ RunnerRejects(t)

Next ==
  \/ Loop
  \/ \E t \in Tasks : Worker(t)
  \/ Signal
  \/ Crash

Spec == Init /\ [][Next]_vars

(* The loop's awaits complete, and every worker ends, at the latest when   *)
(* its timeout or the wave's abort kills it.  Nothing forces a crash.      *)
FairSpec ==
  Spec /\ WF_vars(Loop) /\ \A t \in Tasks : WF_vars(Worker(t))

-----------------------------------------------------------------------------
(***************************************************************************)
(* Properties                                                              *)
(***************************************************************************)
Steps == {"setup", "top", "prepare", "reserve", "launch", "settle", "unwind",
          "integrate", "checkpoint", "secondary", "finish", "terminalize",
          "throw", "ended", "dead"}
Manifest == [status: RunStatus, safe: BOOLEAN, tasks: [Tasks -> RecordStatus],
             tip: Seq(Tasks), dispatches: Nat]

(* Every variable holds a value of its kind.                               *)
TypeOK ==
  /\ pc \in Steps
  /\ start \in Starts
  /\ state \in [Tasks -> TaskStatus]
  /\ wave \in Seq(Tasks) /\ launched \in Seq(Tasks) /\ pos \in Nat \ {0}
  /\ spent \in Nat /\ interrupted \in BOOLEAN /\ exhausted \in BOOLEAN
  /\ failure \in {"none", "checkpoint", "reservation", "other"}
  /\ aborted \in BOOLEAN
  /\ worker \in [Tasks -> [process: {"none", "starting", "running", "ended", "orphan"},
                          output: Report \union {NoOutput}]]
  /\ base \in [Tasks -> Seq(Tasks)]
  /\ branch \in Seq(Tasks) /\ removed \in BOOLEAN
  /\ held \in Manifest /\ disk \in Manifest
  /\ sentinels \subseteq Tasks
  /\ spawned \in Seq(Tasks)

(* Whatever fails or dies, the manifest on disk is behind the integration  *)
(* branch by at most one merge: the one whose checkpoint did not return    *)
(* (run-parallel.ts:681-683).                                              *)
ManifestLag ==
  \/ disk.tip = branch
  \/ branch # <<>> /\ disk.tip = Front(branch)

(* I0: a run that says it can be resumed or applied records exactly the    *)
(* branch, and the tasks it merged as completed, and no task as running    *)
(* (manifest.ts:132-141, 182-205).                                         *)
ExactWhenSafe ==
  disk.safe \/ disk.status = "review_pending" =>
    /\ disk.tip = branch
    /\ \A t \in Range(branch) : disk.tasks[t] = "completed"
    /\ \A t \in Tasks : disk.tasks[t] # "running"

(* I2: a task of the chain that is done is never started again, no task is *)
(* started twice, and none is merged twice (run-parallel.ts:62-67).        *)
ExactlyOnce ==
  /\ IsInjective(spawned)
  /\ Range(spawned) \intersect start.done = {}
  /\ IsInjective(branch)

(* The durable counter is never below the workers started, at most one     *)
(* dispatch is reserved and not spent, and the chain's budget holds across *)
(* write failures and crashes (manifest.ts:160-165, run-parallel.ts:569).  *)
DispatchBound ==
  /\ start.dispatches + Len(spawned) <= disk.dispatches
  /\ disk.dispatches <= start.dispatches + Len(spawned) + 1
  /\ disk.dispatches <= MaxTasks

(* An interrupted wave is discarded whole and a wave that integrates does  *)
(* so for every task: between waves, and when the run ends by itself, the  *)
(* branch holds tasks that are done and no others (run-parallel.ts:638).   *)
WaveIsWhole ==
  pc \in {"top", "prepare", "reserve", "launch", "settle", "finish", "terminalize"}
  => /\ \A t \in Range(branch) : state[t] = "done"
     /\ \A t \in Tasks : state[t] = "done" /\ t \notin start.done =>
          t \in Range(branch) \/ worker[t].output.changed = {}

(* A worker starts from a commit that holds what every task it depends on, *)
(* directly or not, has merged (run-parallel.ts:588-589).                  *)
BaseHasDependencies ==
  \A t \in Tasks : Supervised(t) =>
    \A d \in Plan.dependsOn[t] :
      /\ state[d] = "done"
      /\ d \in Range(branch) => d \in Range(base[t])
      /\ \A e \in Plan.dependsOn[d] : e \in Range(branch) => e \in Range(base[t])

(* Two workers the loop awaits never declare a file in common, and one     *)
(* that declares none runs alone (dag.ts:29-35).                           *)
NoSharedFiles ==
  \A t, u \in Tasks : t # u /\ Supervised(t) /\ Supervised(u) =>
    /\ Disjoint(Plan, t, u)
    /\ Plan.files[t] # {} /\ Plan.files[u] # {}

(* No exception, signal or budget ends a run while it still awaits one of  *)
(* its workers (run-parallel.ts:484-488, 629-631).                         *)
NoSupervisedWorkerLeft ==
  pc \in {"integrate", "checkpoint", "secondary", "finish", "terminalize", "throw", "ended"}
    => AllSettled

(* A run that ends by itself has decided every task: none is left pending  *)
(* because of the order tasks fail and skip in (run-parallel.ts:562).      *)
EveryTaskDecided ==
  pc = "ended" /\ failure = "none" /\ ~interrupted /\ ~exhausted =>
    \A t \in Tasks : state[t] # "pending"

(* The run as its ledger: what it merged and recorded, reserved and        *)
(* started.  A crash leaves the ledger open.                               *)
Closed ==
  IF disk.status = "running" THEN "open"
  ELSE IF disk.status = "failed" \/ (disk.status = "interrupted" /\ ~disk.safe)
       THEN "inexact" ELSE "exact"

Ledger == INSTANCE RunLedger WITH
  integrated <- branch,
  recorded   <- disk.tip,
  reserved   <- disk.dispatches,
  started    <- start.dispatches + Len(spawned),
  closed     <- Closed

(* Every step of the loop is a step of the ledger or none: nothing is      *)
(* merged over an unrecorded merge, no worker starts without a dispatch on *)
(* record, and only an exact record is closed as one.                      *)
ImplementsLedger == Ledger!Spec

(* The run ends, whatever fails and whenever the signal comes: no abort    *)
(* boundary waits for a worker that is never awaited or killed.            *)
Terminates == <>(pc \in {"ended", "dead"})

(* run-parallel.ts:46-50, "when anything was merged the run ends           *)
(* review-pending, with worktrees and branches preserved for `run --apply` *)
(* / `run --abort`": merged work is never left under a status that both    *)
(* commands refuse.                                                        *)
MergedWorkStaysReviewable ==
  pc = "ended" /\ HasIntegration =>
    disk.status \in {"review_pending", "interrupted", "running"}

(* worker-sentinels.ts:9-14: --resume, --apply and --abort refuse while a  *)
(* worker of the session might still be running, which they learn from     *)
(* worker.json alone.                                                      *)
LiveWorkersAreRecorded ==
  pc \in {"ended", "dead"} => \A t \in Tasks : Alive(t) => t \in sentinels
-----------------------------------------------------------------------------
(***************************************************************************)
(* The inductive invariant behind the safety properties.                   *)
(***************************************************************************)
Launching   == {"prepare", "reserve", "launch"}
Integrating == {"integrate", "checkpoint", "secondary"}

(* The wave is one the scheduler made for the present state, and the       *)
(* launched tasks are those of it the loop is past.                        *)
WaveInv ==
  /\ pc \in Launching =>
       /\ pos \in DOMAIN wave /\ Len(launched) = pos - 1
       /\ \A i \in DOMAIN launched : launched[i] = wave[i]
       /\ IsInjective(wave)
       /\ \A i \in DOMAIN wave : IsRunnable(Plan, state, wave[i])
       /\ \A i, j \in DOMAIN wave : i # j => /\ Disjoint(Plan, wave[i], wave[j])
                                           /\ Plan.files[wave[i]] # {}
  /\ pc \in Integrating => pos \in DOMAIN launched
  /\ IsInjective(launched)
  /\ \A i, j \in DOMAIN launched : i # j => /\ Disjoint(Plan, launched[i], launched[j])
                                          /\ Plan.files[launched[i]] # {}

(* A worker the loop awaits is of a launched task that was runnable, and   *)
(* started from the branch as it still is; a launched task whose worker is *)
(* over has reported; and no worker is awaited past the wave.              *)
WorkerInv ==
  /\ pc \in {"reserve", "launch"} => base[Task] = branch
  /\ \A t \in Tasks : Supervised(t) =>
       /\ t \in Range(launched)
       /\ IsRunnable(Plan, state, t)
       /\ base[t] = branch
  /\ pc \in Launching \union {"settle"} \union Integrating =>
       \A t \in Range(launched) : Supervised(t) \/ worker[t].output \in Report
  /\ pc \notin Launching \union {"settle", "unwind", "dead"} => AllSettled

(* Where a task of the branch stands in the loop: done, or of this wave    *)
(* with its merge behind the loop and its status still to be set.          *)
Unsettled(t) ==
  \E j \in DOMAIN launched :
    /\ t = launched[j] /\ worker[t].output.status = "completed"
    /\ pc = "integrate" => j < pos
    /\ pc = "checkpoint" => j <= pos
    /\ pc = "secondary" => j >= pos

StateInv ==
  /\ \A t \in start.done : state[t] = "done"
  /\ Range(launched) \intersect start.done = {}
  /\ pc \in Launching \union {"settle", "integrate", "checkpoint"} =>
       \A t \in Range(launched) : state[t] = "pending"
  /\ pc \in {"setup", "top", "finish", "terminalize"} \union Launching \union {"settle"} =>
       \A t \in Range(branch) : state[t] = "done"
  /\ pc \in Integrating =>
       \A t \in Range(branch) : state[t] = "done" \/ Unsettled(t)
  /\ pc = "secondary" =>
       \A j \in DOMAIN launched : j >= pos => state[launched[j]] # "done"
  /\ IsInjective(branch)

(* What the loop counts as done has been merged, or changed nothing.       *)
MergedOrUnchanged(t) == t \in Range(branch) \/ worker[t].output.changed = {}

DoneInv ==
  /\ \A t \in Tasks : state[t] = "done" /\ t \notin start.done => MergedOrUnchanged(t)
  /\ pc \in Integrating =>
       \A j \in DOMAIN launched :
         /\ worker[launched[j]].output.status = "completed"
         /\ pc = "integrate" => j < pos
         /\ pc = "checkpoint" => j <= pos
         => MergedOrUnchanged(launched[j])

(* A task that was started is decided, or of this wave.                    *)
SpawnInv ==
  /\ IsInjective(spawned)
  /\ Range(spawned) \intersect start.done = {}
  /\ pc \in {"setup", "top"} => \A t \in Range(spawned) : state[t] # "pending"
  /\ pc \in Launching \union {"settle", "integrate", "checkpoint"} =>
       \A t \in Range(spawned) : state[t] # "pending" \/ t \in Range(launched)
  /\ pc = "secondary" =>
       \A t \in Range(spawned) :
         state[t] # "pending" \/ \E j \in DOMAIN launched : j >= pos /\ t = launched[j]

(* The count in the loop is the durable one, ahead of the workers started  *)
(* by the one reservation under way or lost to a signal.                   *)
DispatchInv ==
  /\ spent = held.dispatches /\ spent <= MaxTasks
  /\ pc = "reserve" => spent < MaxTasks
  /\ pc \in {"setup", "top", "prepare", "reserve"} \union Integrating =>
       spent = start.dispatches + Len(spawned)
  /\ pc = "launch" => spent = start.dispatches + Len(spawned) + 1
  /\ pc = "settle" /\ ~aborted => spent = start.dispatches + Len(spawned)
  /\ spent \in {start.dispatches + Len(spawned), start.dispatches + Len(spawned) + 1}

(* The handle and the file agree until a write has failed; the handle lags *)
(* behind the branch only between a merge and its checkpoint.              *)
HandleInv ==
  /\ pc \notin {"unwind", "throw", "ended", "dead"} => disk = held
  /\ pc \notin {"ended", "dead"} => held.status = "running" /\ ~held.safe
  /\ pc \notin {"throw", "ended", "dead"} => disk.status = "running" /\ ~disk.safe
  /\ held.tip = branch \/ (branch # <<>> /\ held.tip = Front(branch))
  /\ pc \notin {"checkpoint", "throw", "ended", "dead"} => held.tip = branch

(* The status on record of what is merged, and of what is running.         *)
RecordInv ==
  /\ pc \notin {"throw", "ended", "dead"} =>
       \A t \in Range(branch) :
         held.tasks[t] = "completed"
         \/ (pc = "checkpoint" /\ t = Merging /\ worker[t].output.status = "completed")
  /\ \A t \in Tasks : held.tasks[t] = "running" =>
       /\ pc \notin {"setup", "top", "secondary"}
       /\ pc \in {"prepare", "reserve"} => t \in Range(launched)
       /\ pc = "launch" => t \in Range(launched) \/ t = Task
       /\ pc = "settle" => t \in Range(launched) \/ aborted
       /\ pc \in {"integrate", "checkpoint"} =>
            \E j \in DOMAIN launched : j >= pos /\ t = launched[j]
       /\ pc \in {"finish", "terminalize"} => interrupted

(* At every await of the loop the wave, its workers, the branch, the       *)
(* loop's states, its count and the manifest agree as said above: this is  *)
(* what every step preserves.                                              *)
RunInv ==
  /\ TypeOK /\ WaveInv /\ WorkerInv /\ StateInv /\ DoneInv /\ SpawnInv
  /\ DispatchInv /\ HandleInv /\ RecordInv
  /\ ManifestLag /\ ExactWhenSafe /\ DispatchBound

(* Nothing waits for a task that will not be done; a wave without a launch *)
(* and a failure on its way have a reason; and a loop that is over without *)
(* one has no pending task left.                                           *)
DecidedInv ==
  /\ \A t \in Tasks : state[t] = "pending" =>
       \A d \in Plan.dependsOn[t] : state[d] \in {"pending", "done"}
  /\ pc = "settle" => launched # <<>> \/ interrupted \/ exhausted
  /\ pc \in {"unwind", "throw"} => failure # "none"
  /\ \/ pc \in {"finish", "terminalize"}
     \/ pc = "ended" /\ failure = "none"
     => \/ interrupted \/ exhausted
        \/ \A t \in Tasks : state[t] # "pending"

(* A write that was reported as failed may have taken effect, so the file  *)
(* is at, or one update ahead of, the handle; only a failing end has       *)
(* closed the ledger before the run is over.                               *)
FileAhead ==
  pc \notin {"ended", "dead"} =>
    /\ disk.tip \in {held.tip, branch}
    /\ disk.dispatches >= held.dispatches
    /\ Closed = "inexact" => disk.tip = held.tip /\ disk.dispatches = held.dispatches
=============================================================================
