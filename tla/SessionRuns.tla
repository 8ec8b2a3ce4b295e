----------------------------- MODULE SessionRuns -----------------------------
(***************************************************************************)
(* The commands of one session, one after another and at once: runs in     *)
(* worktrees (fresh, --resume, --from-review), plain runs, and the         *)
(* decisions --apply and --abort, over what they share: the manifests, the *)
(* integration branch, task branches and worktrees, the main worktree, the *)
(* workers' sentinels and the session lock.  packages/cli: commands/run.ts,*)
(* core/session-residue.ts, persistence/manifest.ts, commands/worktrees.ts.*)
(*                                                                         *)
(* A command moves from one of its writes to the next; between any two,    *)
(* another command, a worker or the user may act and the process may die.  *)
(* The loop of a run is reduced to what RunLedger says of it, which        *)
(* ParallelRun implements.  The lock excludes, as SessionLock shows.       *)
(***************************************************************************)
EXTENDS Naturals, Sequences, FiniteSets, SequencesExt, Functions

CONSTANTS
  Processes,    \* invocations that may be alive at once
  MaxRuns,      \* bound: the runs of the session
  MaxHead,      \* bound: the commits the user makes on the main worktree
  TasksOf,      \* the tasks of each revision of the plan, in the order they come
  Limits,       \* values given to --max-tasks
  Keeps,        \* whether --keep-worktrees may be given
  Kinds,        \* the commands that are given
  Faults        \* what may go wrong: a "crash", git or a worktree refused in
                \* a run ("throw") or in a decision ("git"), a failing "write" of
                \* the manifest or "record" of a worker, a user who "edit"s the
                \* main worktree

CONSTANTS NoManifest, NoIntegration, NoBranch, Nobody

Runs  == 1..MaxRuns
NoRun == 0
Plans == DOMAIN TasksOf
Tasks == UNION {TasksOf[p] : p \in Plans}
Integration == "_integration"      \* its worktree; the others are named by task

ASSUME BoundsAssumption == MaxRuns \in Nat \ {0} /\ MaxHead \in Nat
ASSUME ChoicesAssumption ==
  /\ Limits \subseteq Nat \ {0} /\ Keeps \subseteq BOOLEAN
  /\ Kinds \subseteq {"fresh", "resume", "review", "plain", "apply", "abort"}
  /\ Faults \subseteq {"crash", "throw", "write", "record", "git", "edit"}
ASSUME NamesAssumption == Integration \notin Tasks
ASSUME PlansAssumption == TasksOf \in Seq(SUBSET Tasks) /\ TasksOf # <<>>

VARIABLES
  manifest,     \* the manifest of every run, on disk
  branch,       \* the integration branch: a commit
  refs,         \* the tasks with a branch slad/<session>/<task>
  worktrees,    \* the registered worktrees of the session
  main,         \* the main worktree: its HEAD, what was squashed into it
  alive,        \* the tasks with a worker that its loop or a worker.json knows
  strays,       \* those with one that nothing knows any more
  sentinels,    \* the tasks with a worker.json
  lock,         \* the process that holds the session lock
  plan,         \* the approved plan of the session
  me,           \* every process: where it is and what it holds in memory
  history       \* of the runs, for the properties only

vars == <<manifest, branch, refs, worktrees, main, alive, strays, sentinels, lock,
          plan, me, history>>
git == <<branch, refs, worktrees>>
workers == <<alive, strays, sentinels>>

(* A commit: the HEAD it is based on, and the merges on top of it, each by *)
(* its task and run (two runs never make the same commit).                 *)
Merges  == [task: Tasks, run: Runs]
Works   == Seq(Merges)
Commits == [base: 0..MaxHead, work: Works]
At(head) == [base |-> head, work |-> <<>>]

TerminalStatus == {"completed", "failed", "cancelled", "applied", "aborted"}
OpenStatus     == {"starting", "running", "interrupted", "review_pending"}

(* What a manifest has of the integration is no younger than the branch.   *)
Integrations == {i \in [base: 0..MaxHead, tip: Commits] : i.base <= i.tip.base}

Manifests == [status: TerminalStatus \union OpenStatus, safe: BOOLEAN, plan: Plans,
              done: SUBSET Tasks, keep: BOOLEAN, dispatches: Nat, max: Limits,
              integration: Integrations \union {NoIntegration}]

ASSUME MarksAssumption ==
  /\ Nobody \notin Processes /\ NoBranch \notin Commits
  /\ NoIntegration \notin Integrations /\ NoManifest \notin Manifests

Exists(r)   == manifest[r] # NoManifest
Created     == {r \in Runs : Exists(r)}
IsOpen(r)   == Exists(r) /\ manifest[r].status \in OpenStatus
IsStale(r)  == Exists(r) /\ manifest[r].status \in {"starting", "running"}
Recorded(m) == m.integration # NoIntegration

Idle == [pc |-> "idle", kind |-> "none", target |-> NoRun, run |-> NoRun,
         held |-> NoManifest, next |-> NoManifest, from |-> NoIntegration,
         todo |-> {}, left |-> {}, launched |-> {}]

Init ==
  /\ manifest = [r \in Runs |-> NoManifest]
  /\ branch = NoBranch /\ refs = {} /\ worktrees = {}
  /\ main = [head |-> 0, committed |-> <<>>, staged |-> <<>>, dirty |-> FALSE]
  /\ alive = {} /\ strays = {} /\ sentinels = {}
  /\ lock = Nobody
  /\ plan = 1
  /\ me = [p \in Processes |-> Idle]
  /\ history = [parent   |-> [r \in Runs |-> NoRun],
                spawned  |-> [r \in Runs |-> 0],
                finished |-> {},
                last     |-> NoRun]

IsClean == main.staged = <<>> /\ ~main.dirty

Goto(p, pc) == me' = [me EXCEPT ![p].pc = pc]

(* The command ends, in the finally of runCommand and of the decisions.    *)
Leave(p) ==
  /\ me' = [me EXCEPT ![p] = Idle]
  /\ lock' = IF lock = p THEN Nobody ELSE lock

-----------------------------------------------------------------------------
(***************************************************************************)
(* The start of a command                                                  *)
(***************************************************************************)
BeginLocked(p, kind, target, keep, max) ==
  /\ me[p].pc = "idle" /\ kind \in Kinds \cap {"fresh", "resume", "review"}
  /\ lock = Nobody /\ Created # Runs
  /\ kind = "fresh" <=> target = NoRun
  /\ kind = "resume" => ~keep             \* it keeps what its parent keeps
  /\ target # NoRun => Exists(target)
  /\ lock' = p
  /\ me' = [me EXCEPT ![p] =
       [Idle EXCEPT !.pc = "guard", !.kind = kind, !.target = target,
                    !.held = [status |-> "starting", safe |-> FALSE, plan |-> plan,
                              done |-> {}, integration |-> NoIntegration,
                              keep |-> keep, dispatches |-> 0, max |-> max]]]
  /\ UNCHANGED <<manifest, git, main, workers, plan, history>>

(* A run that is not in worktrees takes no lock.                           *)
BeginPlain(p, max) ==
  /\ me[p].pc = "idle" /\ "plain" \in Kinds /\ Created # Runs
  /\ me' = [me EXCEPT ![p] =
       [Idle EXCEPT !.pc = "stale", !.kind = "plain", !.todo = Created,
                    !.held = [status |-> "starting", safe |-> FALSE, plan |-> plan,
                              done |-> {}, integration |-> NoIntegration,
                              keep |-> FALSE, dispatches |-> 0, max |-> max]]]
  /\ UNCHANGED <<manifest, git, main, workers, lock, plan, history>>

(* pendingIntegration                                                      *)
Pending(m, allowed) == Recorded(m) /\ m.status \in allowed

Undecided == {"review_pending", "interrupted"}

(* --apply and --abort read the manifest, and judge it, before they take   *)
(* the lock.                                                               *)
BeginDecision(p, kind, r) ==
  /\ me[p].pc = "idle" /\ kind \in Kinds \cap {"apply", "abort"}
  /\ Exists(r) /\ Pending(manifest[r], Undecided)
  /\ me' = [me EXCEPT ![p] = [Idle EXCEPT !.pc = "lock", !.kind = kind, !.target = r,
                                          !.run = r, !.held = manifest[r]]]
  /\ UNCHANGED <<manifest, git, main, workers, lock, plan, history>>

TakeLock(p) ==
  /\ me[p].pc = "lock"
  /\ IF lock = Nobody THEN lock' = p /\ Goto(p, me[p].kind) ELSE Leave(p)
  /\ UNCHANGED <<manifest, git, main, workers, plan, history>>

-----------------------------------------------------------------------------
(***************************************************************************)
(* The guards of a run                                                     *)
(***************************************************************************)
(* A branch nobody needs: where a run that is over found it.               *)
Inert ==
  \E r \in Created : /\ Recorded(manifest[r])
                     /\ branch = At(manifest[r].integration.base)
                     /\ manifest[r].status \in TerminalStatus

OpenManifests == {r \in Runs : IsOpen(r)}
HasResidue ==
  \/ OpenManifests # {}
  \/ refs # {} \/ (branch # NoBranch /\ ~Inert)
  \/ worktrees # {}

(* Mutant: a live worker is no obstacle. *)
NoBlocking == {}

Blocking == sentinels \cap alive

(* Sentinels of dead workers are cleared.  With --assume-workers-dead so   *)
(* are the others, whose workers the user has killed.                      *)
WorkersClear ==
  /\ sentinels' = {} /\ strays' = strays
  /\ alive' = IF Blocking = {} THEN alive ELSE alive \ Blocking
WorkersBlock ==
  Blocking # {} /\ sentinels' = Blocking /\ UNCHANGED <<alive, strays>>

(* Mutant: whatever the plan has become since. *)
AnyPlan(m, approved) == TRUE

(* Guard 6: the plan that was approved is still the one to run.            *)
SamePlan(m, approved) == m.plan = approved

(* Guards 2 to 9 of --resume.                                              *)
ResumeGuards(m, approved) ==
  /\ Recorded(m)
  /\ m.status = "interrupted" /\ m.safe
  /\ SamePlan(m, approved)
  /\ branch = m.integration.tip
  /\ refs \subseteq TasksOf[m.plan]
  /\ worktrees \ {Integration} \subseteq TasksOf[m.plan]
  /\ main.head = m.integration.base /\ IsClean

(* Guard 11: --max-tasks can only go up, and above what has been spent.    *)
BudgetGuard(m, max) == max >= m.max /\ max > m.dispatches

(* Mutant: what the parent has done is done again. *)
InheritedNothing(m, mine) == [mine EXCEPT !.keep = m.keep, !.dispatches = m.dispatches]

(* Mutant: the budget starts anew. *)
InheritedUnspent(m, mine) == [mine EXCEPT !.done = m.done, !.keep = m.keep]

(* What the manifest of a resumed run takes from its parent's.             *)
Inherited(m, mine) ==
  [mine EXCEPT !.done = m.done, !.keep = m.keep, !.dispatches = m.dispatches]

(* --from-review: a review pending, where it was left.                     *)
ReviewGuards(m) ==
  Pending(m, {"review_pending"}) /\ branch = m.integration.tip

Fresh(p) ==
  /\ me[p].pc = "guard" /\ me[p].kind = "fresh"
  /\ IF HasResidue THEN Leave(p)
     ELSE /\ me' = [me EXCEPT ![p].pc = "stale", ![p].todo = Created]
          /\ lock' = lock
  /\ UNCHANGED <<manifest, git, main, workers, plan, history>>

(* A resume leaves its parent as it is.                                    *)
Resume(p) ==
  LET parent == manifest[me[p].target]
      mine == me[p].held
      sound == ResumeGuards(parent, mine.plan) IN
  /\ me[p].pc = "guard" /\ me[p].kind = "resume"
  /\ \/ ~sound /\ Leave(p) /\ UNCHANGED workers
     \/ sound /\ WorkersBlock /\ Leave(p)
     \/ sound /\ WorkersClear /\ ~BudgetGuard(parent, mine.max) /\ Leave(p)
     \/ /\ sound /\ WorkersClear /\ BudgetGuard(parent, mine.max)
        /\ me' = [me EXCEPT ![p].pc = "create",
                            ![p].from = parent.integration,
                            ![p].held = Inherited(parent, mine)]
        /\ lock' = lock
  /\ UNCHANGED <<manifest, git, main, plan, history>>

Review(p) ==
  LET parent == manifest[me[p].target] IN
  /\ me[p].pc = "guard" /\ me[p].kind = "review"
  /\ \/ ~ReviewGuards(parent) /\ Leave(p) /\ UNCHANGED workers
     \/ ReviewGuards(parent) /\ WorkersBlock /\ Leave(p)
     \/ /\ ReviewGuards(parent) /\ WorkersClear
        /\ me' = [me EXCEPT ![p].pc = "stale", ![p].todo = Created,
                            ![p].from = parent.integration]
        /\ lock' = lock
  /\ UNCHANGED <<manifest, git, main, plan, history>>

-----------------------------------------------------------------------------
(***************************************************************************)
(* interruptStaleRunManifests: each manifest is read, and written back     *)
(* marked when no process is thought to be behind it.                      *)
(***************************************************************************)
(* Mutant: a status that manifests do not have. *)
MarkedUnrecoverable(m) == [m EXCEPT !.status = "unrecoverable", !.safe = FALSE]

(* Mutant: marked as if the run had been told to stop. *)
MarkedSafe(m) == [m EXCEPT !.status = "interrupted", !.safe = TRUE]

Unrecoverable(m) == [m EXCEPT !.status = "interrupted", !.safe = FALSE]

ReadStale(p, r) ==
  /\ me[p].pc = "stale" /\ r \in me[p].todo /\ IsStale(r)
  /\ me' = [me EXCEPT ![p].pc = "mark", ![p].todo = @ \ {r}, ![p].run = r,
                      ![p].next = Unrecoverable(manifest[r])]
  /\ UNCHANGED <<manifest, git, main, workers, lock, plan, history>>

Mark(p) ==
  /\ me[p].pc = "mark"
  /\ manifest' = [manifest EXCEPT ![me[p].run] = me[p].next]
  /\ me' = [me EXCEPT ![p].pc = "stale", ![p].run = NoRun, ![p].next = NoManifest]
  /\ UNCHANGED <<git, main, workers, lock, plan, history>>

NoneStale(p) ==
  /\ me[p].pc = "stale" /\ \A r \in me[p].todo : ~IsStale(r)
  /\ me' = [me EXCEPT ![p].pc = "create", ![p].todo = {}]
  /\ UNCHANGED <<manifest, git, main, workers, lock, plan, history>>

-----------------------------------------------------------------------------
(***************************************************************************)
(* The record, before anything exists                                      *)
(***************************************************************************)
(* The manifest of a plain run says running at once: nobody tells starting *)
(* and running apart.                                                      *)
Create(p) ==
  LET r == Cardinality(Created) + 1
      plain == me[p].kind = "plain"
      m == [me[p].held EXCEPT !.integration = NoIntegration,
                              !.status = IF plain THEN "running" ELSE "starting"] IN
  /\ me[p].pc = "create" /\ r \in Runs
  /\ manifest' = [manifest EXCEPT ![r] = m]
  /\ me' = [me EXCEPT ![p].pc = IF plain THEN "plain" ELSE "record",
                      ![p].run = r, ![p].held = m, ![p].next = m]
  /\ history' = [history EXCEPT !.parent[r] =
                   IF me[p].kind = "resume" THEN me[p].target ELSE NoRun]
  /\ UNCHANGED <<git, main, workers, lock, plan>>

(* Mutant: the integration is recorded when the run has ended. *)
RecordedLater(m, from, head) == [m EXCEPT !.status = "running"]

(* recordIntegration, then the status.                                     *)
WithIntegration(m, from, head) ==
  [m EXCEPT !.status = "running",
            !.integration = IF from # NoIntegration THEN from
                            ELSE [base |-> head, tip |-> At(head)]]

Record(p) ==
  LET m == WithIntegration(me[p].held, me[p].from, main.head) IN
  /\ me[p].pc = "record"
  /\ manifest' = [manifest EXCEPT ![me[p].run] = m]
  /\ me' = [me EXCEPT ![p].pc = "setup", ![p].held = m, ![p].next = m]
  /\ UNCHANGED <<git, main, workers, lock, plan, history>>

WithStatus(m, status) == [m EXCEPT !.status = status]

(* A run that ends with an exception, in the catch of runCommandLocked.    *)
EndFailed(p) ==
  /\ manifest' = [manifest EXCEPT ![me[p].run] = WithStatus(me[p].held, "failed")]
  /\ Leave(p)

(* The main worktree is clean, and an integration branch that exists is    *)
(* where this run continues.  The tasks' worktrees of the parent go.       *)
Setup(p) ==
  LET start == IF me[p].from # NoIntegration THEN me[p].from.tip ELSE At(main.head)
      mine == me[p].held
      recycled == IF me[p].from # NoIntegration
                  THEN TasksOf[manifest[me[p].target].plan] ELSE {} IN
  /\ me[p].pc = "setup"
  /\ IF IsClean /\ branch \in {NoBranch, start}
     THEN /\ branch' = start
          /\ worktrees' = (worktrees \ recycled) \union {Integration}
          /\ me' = [me EXCEPT ![p].pc = "loop",
                              ![p].left = TasksOf[mine.plan] \ mine.done]
          /\ history' = [history EXCEPT !.last = me[p].run]
          /\ UNCHANGED <<manifest, lock>>
     ELSE EndFailed(p) /\ UNCHANGED <<branch, worktrees, history>>
  /\ UNCHANGED <<refs, main, workers, plan>>

-----------------------------------------------------------------------------
(***************************************************************************)
(* The loop of a run, as RunLedger has it: reserve, start, merge, record   *)
(***************************************************************************)
Mine(p) == me[p].held

(* A durable write of the manifest of this run.                            *)
Write(p, m, pc) ==
  /\ manifest' = [manifest EXCEPT ![me[p].run] = m]
  /\ me' = [me EXCEPT ![p].pc = pc, ![p].held = m, ![p].next = m]

Reserved(m) == [m EXCEPT !.dispatches = @ + 1]

(* The worktree, which git refuses to add twice, and the reservation.      *)
Reserve(p, t) ==
  /\ me[p].pc = "loop"
  /\ t \in me[p].left \ me[p].launched /\ Mine(p).dispatches < Mine(p).max
  /\ t \notin worktrees
  /\ refs' = refs \union {t} /\ worktrees' = worktrees \union {t}
  /\ manifest' = [manifest EXCEPT ![me[p].run] = Reserved(Mine(p))]
  /\ me' = [me EXCEPT ![p].pc = "spawn", ![p].todo = {t},
                      ![p].held = Reserved(Mine(p)), ![p].next = Reserved(Mine(p))]
  /\ UNCHANGED <<branch, main, workers, lock, plan, history>>

Spawn(p) ==
  /\ me[p].pc = "spawn"
  /\ alive' = alive \union me[p].todo /\ UNCHANGED <<strays, sentinels>>
  /\ me' = [me EXCEPT ![p].pc = "loop", ![p].todo = {},
                      ![p].launched = @ \union me[p].todo]
  /\ history' = [history EXCEPT !.spawned[me[p].run] = @ + 1]
  /\ UNCHANGED <<manifest, git, main, lock, plan>>

(* Workers that are running and have no worker.json.                       *)
Unrecorded(p) == (me[p].launched \cap alive) \ sentinels

(* onWorkerStarted: the worker is running by then, and may have ended.  A  *)
(* tmux that does not tell its pid leaves it without a worker.json.        *)
WriteSentinel(p, t) ==
  /\ me[p].pc \in {"loop", "spawn"} /\ t \in Unrecorded(p)
  /\ sentinels' = sentinels \union {t}
  /\ UNCHANGED <<manifest, git, main, alive, strays, lock, plan, me, history>>

(* The run that awaits a worker removes its sentinel.                      *)
WorkerEnds(t) ==
  /\ \/ /\ t \in alive /\ alive' = alive \ {t} /\ strays' = strays
        /\ sentinels' = IF \E p \in Processes : t \in me[p].launched
                        THEN sentinels \ {t} ELSE sentinels
     \/ t \in strays /\ strays' = strays \ {t} /\ UNCHANGED <<alive, sentinels>>
  /\ UNCHANGED <<manifest, git, main, lock, plan, me, history>>

WorkerMoves(t) == WorkerEnds(t) \/ \E p \in Processes : WriteSentinel(p, t)

Settled(p) == me[p].launched \cap alive = {}

(* A manifest without the integration keeps the task's status alone.       *)
Checkpointed(m, done) ==
  IF Recorded(m) THEN [m EXCEPT !.done = @ \union done, !.integration.tip = branch']
                 ELSE [m EXCEPT !.done = @ \union done]

(* The task is merged, completes without a change, or fails.               *)
Integrate(p, t, outcome) ==
  /\ me[p].pc \in {"loop", "integrate"} /\ t \in me[p].launched /\ Settled(p)
  /\ branch' = IF outcome = "merged"
               THEN [branch EXCEPT !.work = Append(@, [task |-> t, run |-> me[p].run])]
               ELSE branch
  /\ LET done == IF outcome = "failed" THEN {} ELSE {t} IN
     /\ me' = [me EXCEPT ![p].pc = "checkpoint", ![p].launched = @ \ {t},
                         ![p].left = @ \ {t},
                         ![p].next = Checkpointed(Mine(p), done)]
     /\ history' = [history EXCEPT !.finished = @ \union
                      {[task |-> d, run |-> me[p].run] : d \in done}]
  /\ UNCHANGED <<manifest, refs, worktrees, main, workers, lock, plan>>

Checkpoint(p) ==
  /\ me[p].pc = "checkpoint"
  /\ Write(p, me[p].next, IF me[p].launched = {} THEN "loop" ELSE "integrate")
  /\ UNCHANGED <<git, main, workers, lock, plan, history>>

(* What the run says of itself when its loop has ended: with nothing above *)
(* the base of the chain there is nothing to review.                       *)
Final(m, aborted) ==
  IF branch.work = <<>>
  THEN [m EXCEPT !.status = IF aborted THEN "cancelled" ELSE "completed"]
  ELSE [m EXCEPT !.status = IF aborted THEN "interrupted" ELSE "review_pending",
                 !.safe = aborted,
                 !.integration = [base |-> branch.base, tip |-> branch]]

(* The loop ends: nothing is left that can run, or the signal was observed,*)
(* and then the wave is discarded and a reservation may be left unspent.   *)
Finish(p, aborted) ==
  /\ \/ me[p].pc = "loop" /\ (aborted \/ me[p].launched = {})
     \/ me[p].pc = "spawn" /\ aborted
  /\ Settled(p)
  /\ me' = [me EXCEPT ![p].pc = IF branch.work = <<>> /\ ~Mine(p).keep
                                THEN "clean" ELSE "close",
                      ![p].todo = {}, ![p].launched = {},
                      ![p].next = Final(Mine(p), aborted)]
  /\ UNCHANGED <<manifest, git, main, workers, lock, plan, history>>

(* The last write, then the lock.  A plain run ends as it likes.           *)
Close(p) ==
  /\ \/ me[p].pc = "close" /\ manifest' = [manifest EXCEPT ![me[p].run] = me[p].next]
     \/ /\ me[p].pc = "plain"
        /\ \E s \in {"completed", "failed", "cancelled"} :
             manifest' = [manifest EXCEPT ![me[p].run] = WithStatus(Mine(p), s)]
  /\ Leave(p)
  /\ UNCHANGED <<git, main, workers, plan, history>>

(* Git refuses something, or a worker.json cannot be written, and the      *)
(* launched workers are ended: not those whose record has failed, which    *)
(* were to listen to the signal after it.                                  *)
Throw(p) ==
  /\ me[p].pc \in {"loop", "spawn", "integrate"}
  /\ \E lost \in IF "record" \in Faults THEN SUBSET Unrecorded(p) ELSE {{}} :
       /\ \/ "throw" \in Faults \/ lost # {}
          \/ me[p].pc = "loop" /\ (me[p].left \cap worktrees) \ me[p].launched # {}
       /\ alive' = alive \ me[p].launched /\ sentinels' = sentinels \ me[p].launched
       /\ strays' = strays \union lost
  /\ EndFailed(p)
  /\ UNCHANGED <<git, main, plan, history>>

(* A checkpoint fails, with or without effect: the run is declared         *)
(* unrecoverable, unless that write fails too.                             *)
WriteFails(p) ==
  /\ "write" \in Faults /\ me[p].pc = "checkpoint"
  /\ \E m \in {manifest[me[p].run], me[p].next, Unrecoverable(Mine(p))} :
       manifest' = [manifest EXCEPT ![me[p].run] = m]
  /\ Leave(p)
  /\ UNCHANGED <<git, main, workers, plan, history>>

-----------------------------------------------------------------------------
(***************************************************************************)
(* --apply, --abort, and the removal of branches and worktrees             *)
(***************************************************************************)
(* Mutant: wherever HEAD has gone. *)
AppliesAnywhere(m) == branch = m.integration.tip /\ IsClean

AppliesCleanly(m) ==
  branch = m.integration.tip /\ main.head = m.integration.base /\ IsClean

(* The squash is staged; a git that refuses it leaves things as they were. *)
Apply(p) ==
  /\ me[p].pc = "apply"
  /\ \/ WorkersBlock /\ Leave(p) /\ UNCHANGED main
     \/ /\ WorkersClear
        /\ ~AppliesCleanly(Mine(p)) \/ "git" \in Faults
        /\ Leave(p) /\ UNCHANGED main
     \/ /\ WorkersClear /\ AppliesCleanly(Mine(p))
        /\ main' = [main EXCEPT !.staged = branch.work]
        /\ me' = [me EXCEPT ![p].pc = "decide",
                            ![p].next = WithStatus(Mine(p), "applied")]
        /\ lock' = lock
  /\ UNCHANGED <<manifest, git, plan, history>>

(* Mutant: whatever has been merged since. *)
AbortsAnything(m) == branch # NoBranch

TipIsRecorded(m) == branch = m.integration.tip

Abort(p) ==
  /\ me[p].pc = "abort"
  /\ \/ WorkersBlock /\ Leave(p)
     \/ WorkersClear /\ ~TipIsRecorded(Mine(p)) /\ Leave(p)
     \/ /\ WorkersClear /\ TipIsRecorded(Mine(p))
        /\ me' = [me EXCEPT ![p].pc = "clean",
                            ![p].next = WithStatus(Mine(p), "aborted")]
        /\ lock' = lock
  /\ UNCHANGED <<manifest, git, main, plan, history>>

(* The decision goes on record, from the manifest that was read at first.  *)
(* An apply cleans up after it, an abort has done so.                      *)
Decide(p) ==
  /\ me[p].pc = "decide"
  /\ manifest' = [manifest EXCEPT ![me[p].run] = me[p].next]
  /\ IF me[p].kind = "apply" /\ ~Mine(p).keep
     THEN Goto(p, "clean") /\ lock' = lock
     ELSE Leave(p)
  /\ UNCHANGED <<git, main, workers, plan, history>>

(* removeSessionWorktrees.  Git may refuse to remove a worktree, which     *)
(* nobody is told, and then refuses to delete the branch checked out in it.*)
Clean(p) ==
  /\ me[p].pc = "clean"
  /\ worktrees' = {} \/ ("git" \in Faults /\ worktrees' = worktrees)
  /\ Goto(p, "prune")
  /\ UNCHANGED <<manifest, branch, refs, main, workers, lock, plan, history>>

Prune(p) ==
  /\ me[p].pc = "prune"
  /\ refs' = refs \cap worktrees
  /\ branch' = IF Integration \in worktrees THEN branch ELSE NoBranch
  /\ CASE me[p].kind = "apply" -> Leave(p)
       [] me[p].kind = "abort" -> Goto(p, "decide") /\ lock' = lock
       [] OTHER                -> Goto(p, "close") /\ lock' = lock
  /\ UNCHANGED <<manifest, worktrees, main, workers, plan, history>>

-----------------------------------------------------------------------------
(***************************************************************************)
(* The user, and the end of a process                                      *)
(***************************************************************************)
Commit ==
  /\ ~IsClean /\ main.head < MaxHead
  /\ main' = [head |-> main.head + 1, committed |-> main.committed \o main.staged,
              staged |-> <<>>, dirty |-> FALSE]
  /\ UNCHANGED <<manifest, git, workers, lock, plan, me, history>>

(* An edit beside staged work is left out: the guards only ask IsClean.     *)
Edit ==
  /\ "edit" \in Faults /\ IsClean
  /\ main' = [main EXCEPT !.dirty = TRUE]
  /\ UNCHANGED <<manifest, git, workers, lock, plan, me, history>>

Discard ==
  /\ ~IsClean
  /\ main' = [main EXCEPT !.staged = <<>>, !.dirty = FALSE]
  /\ UNCHANGED <<manifest, git, workers, lock, plan, me, history>>

(* A new plan takes the next revision: none that was replaced comes back.   *)
ApprovePlan ==
  /\ plan < Len(TasksOf) /\ plan' = plan + 1
  /\ UNCHANGED <<manifest, git, main, workers, lock, me, history>>

(* Workers live on, with or without a record; the lock of a dead process   *)
(* is taken over.                                                          *)
Crash(p) ==
  /\ "crash" \in Faults /\ me[p].pc # "idle"
  /\ Leave(p)
  /\ alive' = alive \ Unrecorded(p) /\ strays' = strays \union Unrecorded(p)
  /\ UNCHANGED <<manifest, git, main, sentinels, plan, history>>

Begin(p) ==
  \/ \E kind \in Kinds, target \in Runs \union {NoRun}, keep \in Keeps, max \in Limits :
       BeginLocked(p, kind, target, keep, max)
  \/ \E max \in Limits : BeginPlain(p, max)
  \/ \E kind \in {"apply", "abort"}, r \in Runs : BeginDecision(p, kind, r)
  \/ TakeLock(p)

Start(p) ==
  \/ Fresh(p) \/ Resume(p) \/ Review(p)
  \/ Mark(p) \/ NoneStale(p) \/ (\E r \in Runs : ReadStale(p, r))
  \/ Create(p) \/ Record(p) \/ Setup(p)

Loop(p) ==
  \/ \E t \in Tasks : Reserve(p, t)
  \/ \E t \in Tasks, o \in {"merged", "unchanged", "failed"} : Integrate(p, t, o)
  \/ \E aborted \in BOOLEAN : Finish(p, aborted)
  \/ Spawn(p) \/ Checkpoint(p) \/ Close(p) \/ Throw(p) \/ WriteFails(p)

Decision(p) == Apply(p) \/ Abort(p) \/ Decide(p) \/ Clean(p) \/ Prune(p)

Next ==
  \/ \E p \in Processes : Begin(p) \/ Start(p) \/ Loop(p) \/ Decision(p) \/ Crash(p)
  \/ \E t \in Tasks : WorkerMoves(t)
  \/ Commit \/ Edit \/ Discard \/ ApprovePlan

Spec == Init /\ [][Next]_vars
-----------------------------------------------------------------------------
(***************************************************************************)
(* Properties                                                              *)
(***************************************************************************)
(* Every part of the session's state has the shape the code gives it.      *)
TypeOK ==
  /\ \A r \in Runs : Exists(r) => manifest[r] \in Manifests
  /\ branch = NoBranch \/ branch \in Commits
  /\ refs \subseteq Tasks /\ worktrees \subseteq Tasks \union {Integration}
  /\ main.head \in 0..MaxHead /\ main.committed \in Works /\ main.staged \in Works
  /\ alive \subseteq Tasks /\ strays \subseteq Tasks /\ sentinels \subseteq Tasks
  /\ lock \in Processes \union {Nobody} /\ plan \in Plans
  /\ \A p \in Processes :
       /\ me[p].run \in Runs \union {NoRun} /\ me[p].launched \subseteq Tasks
       /\ me[p].held = NoManifest \/ me[p].held \in Manifests
       /\ me[p].next = NoManifest \/ me[p].next \in Manifests

(* The runs a run continues by --resume, itself included: a chain.         *)
Chain(r) ==
  LET back[x \in Runs] ==
        {x} \union IF history.parent[x] = NoRun THEN {} ELSE back[history.parent[x]]
  IN  back[r]

SameChain(r, s) == Chain(r) \cap Chain(s) # {}

(* The workers that a run, and the runs it continues, have started.        *)
Spent(r) ==
  LET sum[x \in Runs] ==
        history.spawned[x]
          + IF history.parent[x] = NoRun THEN 0 ELSE sum[history.parent[x]]
  IN  sum[r]

Total(f, S) == FoldFunctionOnSet(+, 0, f, S)

(* No merge reaches the main worktree twice, whatever is applied, crashed  *)
(* in the middle, committed, discarded and applied again (run-parallel.ts: *)
(* "so the whole chain squashes exactly once").                            *)
AppliedOnce == IsInjective(main.committed \o main.staged)

(* No task is merged twice onto the branch by the runs of a chain: what    *)
(* the parent has merged is not executed again (run-parallel.ts:545).      *)
MergedOnce ==
  branch # NoBranch =>
    \A i, j \in DOMAIN branch.work :
      /\ i # j /\ branch.work[i].task = branch.work[j].task
      => ~SameChain(branch.work[i].run, branch.work[j].run)

(* A task that a resumed run skips was finished by a run of its chain, of  *)
(* the plan this run executes.                                             *)
SkipsAreEarned ==
  \A p \in Processes :
    me[p].pc \in {"create", "record", "setup", "loop"} /\ me[p].kind = "resume" =>
      \A t \in me[p].held.done :
        \E f \in history.finished :
          /\ f.task = t
          /\ manifest[f.run].plan = me[p].held.plan
          /\ f.run \in Chain(me[p].target) \union {me[p].run}

(* Whenever there is work on the branch, a manifest says so: the run that  *)
(* set it up has recorded a commit that is on it, and nothing is on record *)
(* that is not on the branch.  One thing takes the claim away: a run       *)
(* without the lock that has read the manifest before, and marks it.       *)
BranchIsClaimed ==
  /\ TypeOK
  /\ branch # NoBranch /\ branch.work # <<>> =>
       LET m == manifest[history.last] IN
       \/ Recorded(m) /\ IsPrefix(m.integration.tip.work, branch.work)
       \/ ~Recorded(m) /\ m = Unrecoverable(m)

(* The last run on the branch, when it calls itself ready for review or    *)
(* safe to resume, has exactly the branch on record, as long as there is   *)
(* a branch (run-parallel.ts and run.ts call it I0).                       *)
LastRecordExact ==
  LET r == history.last IN
  /\ r # NoRun /\ branch # NoBranch
  /\ manifest[r].status = "review_pending"
       \/ (manifest[r].status = "interrupted" /\ manifest[r].safe)
  => Recorded(manifest[r]) /\ manifest[r].integration.tip = branch

(* The dispatches an open run has on record, which is what the next one of *)
(* its chain starts from, are no fewer than the workers it and the runs    *)
(* before it have started, and never above its limit; only of a run that   *)
(* is marked unrecoverable is nothing said.                                *)
LineageBudget ==
  \A r \in OpenManifests :
    manifest[r].status # "interrupted" \/ manifest[r].safe =>
      /\ Spent(r) <= manifest[r].dispatches
      /\ manifest[r].dispatches <= manifest[r].max

(* Work leaves the integration branch only when an apply or an abort was   *)
(* asked for a run whose record is exactly that work.                      *)
WorkLeavesDecided ==
  [][branch # NoBranch /\ branch.work # <<>> =>
       \/ /\ branch' # NoBranch /\ branch'.base = branch.base
          /\ IsPrefix(branch.work, branch'.work)
       \/ \E p \in Processes : /\ me[p].kind \in {"apply", "abort"}
                               /\ me[p].held.integration.tip = branch]_vars

(* No worktree is removed under a worker that writes to it, of those that  *)
(* a loop or a worker.json knows: also the ones of a run that has died are *)
(* found before a command removes worktrees (run.ts: the guard refuses     *)
(* instead of racing it).                                                  *)
WorkersNotUndercut == [][(worktrees \ worktrees') \cap alive = {}]_vars

(* --- Stated by the documentation or the comments, and not so ------------ *)

(* The same of every worker: but the process is started before its         *)
(* worker.json is written (run-parallel.ts:375), and a death or a failure  *)
(* between the two leaves one that no guard can find.                      *)
NoStrayIsUndercut == [][(worktrees \ worktrees') \cap strays = {}]_vars

Quiet == \A p \in Processes : me[p].pc = "idle"

(* The refusal of a fresh run prints --apply, --abort and perhaps --resume *)
(* of every open run; an abort is accepted whenever one of them is.  It    *)
(* prints git commands for what no manifest claims.                        *)
WayOut ==
  \/ \E r \in OpenManifests : Pending(manifest[r], Undecided) /\ TipIsRecorded(manifest[r])
  \/ branch # NoBranch /\ \A r \in Created : ~Recorded(manifest[r])
  \/ refs \ UNION {TasksOf[manifest[r].plan] : r \in Created} # {}

(* "the refusal prints the exact command a human can run"                  *)
RefusalHasWayOut ==
  Quiet /\ IsClean /\ main.head = 0 /\ alive = {} /\ HasResidue => WayOut

(* "Hard crashes are diagnosed but not resumable: inspect with --review,   *)
(* then choose --apply or --abort yourself."                               *)
CrashedRunIsDecidable ==
  \A r \in Created :
    Quiet /\ IsOpen(r) /\ Recorded(manifest[r]) => Pending(manifest[r], Undecided)

(* "Statuses in which a run's outcome has already been decided"            *)
OutcomeDecidedOnce ==
  [][\A r \in Created : manifest[r].status \in TerminalStatus =>
                           manifest'[r].status = manifest[r].status]_vars

(* "Without this record-before-create, a class-B death would leave a       *)
(* branch no command recognizes": once every process is gone, the work on  *)
(* the branch is claimed by the run that set it up.                        *)
BranchIsRecognized ==
  Quiet /\ branch # NoBranch /\ branch.work # <<>> => Recorded(manifest[history.last])

(* "the chain keeps its original ownership policy and dispatch budget"     *)
ChainBudget ==
  \A r \in Created :
    Total(history.spawned, {s \in Created : SameChain(r, s)})
      <= CHOOSE n \in Limits : \A k \in Limits : k <= n

(* "When --review shows recovery.safe: true, continue exactly once with    *)
(* --resume": of the last run, on a main worktree nobody has touched.      *)
SafeMeansResumable ==
  LET r == history.last IN
  /\ Quiet /\ r # NoRun /\ alive = {} /\ branch # NoBranch
  /\ main.head = 0 /\ IsClean
  /\ manifest[r].status = "interrupted" /\ manifest[r].safe /\ manifest[r].plan = plan
  => ResumeGuards(manifest[r], plan)

(* "Recycles the *task* worktrees of a resume/follow-up: addTaskWorktree   *)
(* uses fixed paths and worktree add fails when the directory is already   *)
(* registered": no task waits for a worktree that an earlier run has left. *)
FollowUpCanLaunch ==
  \A p \in Processes :
    me[p].pc = "loop" => (me[p].left \ me[p].launched) \cap worktrees = {}
=============================================================================
