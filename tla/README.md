# A verification project for SLAD

SLAD (`src/`) turns an intent into explore, snapshot, plan, run and learn stages,
each done by a coding agent. Its most delicate part is `slad pipeline run
--parallel --worktrees`: waves of worker processes in git worktrees, merged one by
one into an integration branch, with a manifest on disk from which a later
`--resume`, `--review`, `--apply` or `--abort` can continue after a signal, a
failure or a crash. Around it stand the plan a person approves, the sequential
pipeline, the dialogs with a person, the cache and the shell. These modules model
all of that, TLC checks it on small instances, and TLAPS proves nearly all of its
safety for every instance.

Paths below are relative to `src/packages/`; `cli/` stands for `cli/src/`.

## The system

| Component | State it keeps | Operations | What makes it hard |
|---|---|---|---|
| Session lock, `cli/core/session-lock.ts` | `run.lock` with the holder's record and epoch; staging files `run.lock.<epoch>` | acquire, take over from a dead holder, release | several processes between any two file system calls; death anywhere |
| Scheduler, `cli/commands/dag.ts` | none (pure) | next wave, cascade of skips | order, file claims, transitive skips |
| Parallel run, `cli/commands/run-parallel.ts`, `run.ts` | status per task, wave, dispatch count, abort flag | waves, reservations, spawns, integration, terminalization | awaits overtaken by workers and signals; failing writes; crashes |
| Run manifest, `cli/persistence/manifest.ts` | `manifest.json` and the handle in memory | create, reserve, checkpoint, interrupt, complete, list, mark stale | atomic replace that can fail after it took effect; two writers |
| Worktrees, `cli/commands/worktrees.ts` | branches `slad/<session>/*`, worktrees, the main worktree | setup, add, commit, merge, apply, remove | merged work must never be lost or applied twice |
| Workers, `cli/core/worker-sentinels.ts` | processes, `worker.json` | spawn, record, end, inspect, clear | outlive the run that started them |
| Run commands, `cli/commands/run.ts`, `core/session-residue.ts` | the above, per session | fresh run, resume, follow-up, review, apply, abort | sequences of commands after crashes; guards that must neither lose work nor lock the user out |
| Plan preflight, `cli/core/plan-preflight.ts` | none (pure) | graph, files, ownership overlap, gate | cycles, spellings of one path |
| Plan approval, `cli/persistence/index.ts`, `cli/core/session.ts`, `cli/commands/plan.ts` | the session's plan file, its archive, the session file | write pending, approve, reject, import, read, save | nobody takes a lock; edits after a decision; torn files |
| Auto pipeline, `cli/commands/auto.ts` | outputs on record, its manifest | draft, resume what is left, publish, learn | what counts as done after failures, revisions and deaths |
| Stage runner, `pipeline/src/runner.ts` | value, cache, budget, abort signal, results | run stages, reuse, validate, charge, retry | failures between two effects; a cache of another version |
| Stage run, `pipeline/src/stages/run.ts` | status per task | sequential task execution | skips, limits, plans nobody validated |
| Dialogs, `cli/commands/explore.ts` and the like, `pipeline/src/slad.ts`, `hitl/src` | answers, last artifact of each stage | ask in rounds, leave questions on record, answer, take up again | answers that reach nobody; stages passed over |
| Cache, `cache/src` | entries and fingerprints of files | look up, compute, store | files that change during a lookup; torn entries |
| Provider calls, `model-providers/src` | child processes, attempts | run a CLI, time out, retry an answer | processes that do not end |
| Shell, `cli/commands/chat.ts`, `slash.ts` | prompt, a copy of the session | complete, run a command, ask | a copy that is stale; signals; children |
| Harness `harness/src`, tools `tools/src` | permission rules; registry | allow a task or a call; execute | |

Interaction: a run command takes the session lock, checks residue and workers,
writes a manifest, and calls the parallel loop, which asks the scheduler for waves
and calls back into the manifest before every spawn and after every merge; git and
worker processes are outside the process and survive it. `PROJECT.json` lists every
component with its status, and every hazard at its line.

## The modules

| Module | Models | Checked by | Proofs |
|---|---|---|---|
| `SessionLock` | `session-lock.ts`, every file system call a step | `MCSessionLock` | `SessionLockProofs` |
| `TaskDag` | `dag.ts`, and the plans `plan-preflight.ts` lets through | `MCTaskDag` | in `ParallelRunProofs` |
| `Preflight` | the graph, file and ownership checks of `plan-preflight.ts` | `MCTaskDag` | in `ParallelRunProofs` |
| `Scheduling` | a document through preflight, and its plan through the waves to the end | `MCTaskDag` | in `ParallelRunProofs` |
| `ParallelRun` | `runParallel` in worktree mode with the manifest writes of its callbacks and the terminalization in `run.ts` | `MCParallelRun` | `ParallelRunProofs` |
| `RunLedger` | what a run promises to the commands after it (abstract) | as a refinement of `ParallelRun` | |
| `SessionRuns` | the commands of one session (runs, resume, follow-up, plain runs, apply, abort) over manifests, branches, worktrees, workers and the main worktree | `MCSessionRuns` | `SessionRunsProofs` |
| `PlanApproval` | the life of a session's plan and of the session file under concurrent commands | `MCPlanApproval` | `PlanApprovalProofs` |
| `AutoPipeline` | one plan carried out by many commands: `auto`, `auto --resume`, sequential `run` | `MCAutoPipeline` | `AutoPipelineProofs` |
| `Pipeline` | the stage runner, the model calls under it, the run stage, the cache of stage outputs | `MCPipeline` | `PipelineProofs` |
| `ReusableCache` | `cache/src` as explore and plan use it | `MCReusableCache` | `ReusableCacheProofs` |
| `StageDialog` | questions and answers of the stages, and what a front end shows of them | `MCStageDialog` | `DialogProofs` |
| `CliProcess` | one supervised child process of the CLI provider | within `Chat` | in `DialogProofs` |
| `Chat` | the shell: prompt, palette, commands, signals | `MCChat` | `DialogProofs` |

Composition: `Scheduling` schedules with `TaskDag` what `Preflight` admits; `ParallelRun` calls
`TaskDag` and implements `RunLedger`; `SessionRuns` runs the loop in the ledger's steps; `Chat`
runs its commands over `CliProcess`. `PlanApproval` treats what a plan says as admitted or not,
which `Preflight` decides; `AutoPipeline` takes plans the preflight admits and leaves the order of
tasks within a command to `Pipeline`.

### SessionLock

A process is one CLI invocation. `pc[p]` is where it is in `acquireSessionLock`, its
command, or `releaseSessionLock`. `lock` is the file at `run.lock`: who created it, its
epoch, and whether the record is written (`O_EXCL` makes it empty). `staging` holds the
files `run.lock.<epoch>`. `seen[p]` is the record `p` read, `epoch[p]` its handle.
`clobbered` and `overruled` are history variables: the takeovers whose rename replaced a lock
other than the one they judged, and the live holders whose lock a forced takeover has replaced.
A pid is never reused. `--force-unlock` takes the lock of whoever carries the run id it names, dead
or alive, as the code does: line 166 compares run ids and asks for nothing else. All commands that
carry the same run id (`--apply R`, `--abort R`) share it, which `RunOf` says.

### TaskDag

Pure operators on a plan `[order, dependsOn, files, priority]` and a status per task. The
recursion of `cascade` is a bounded reachability, the sort by priority a concatenation of
three filtered sequences. `IsSafeWave` and `IsGreedyWave` say what is promised of a wave.

### ParallelRun

`pc` is the await the loop is at; every action ends at the next one, so that workers,
the user and the machine act in between.

| Action | Code |
|---|---|
| `Setup` | `setupIntegration` |
| `Top` | abort boundary 1, budget, `getNextWave(...).slice(...)` |
| `StopLaunching`, `AddWorktree`, `Reserve`, `Launch` | one round of the launch loop, run-parallel.ts:581-627 |
| `RecordWorker`, `WorkerEnds`, `RunnerRejects` | `defaultRunWorker` and `onWorkerStarted` |
| `Settle`, `Unwind` | `Promise.all` with abort boundary 2; `abortLaunchedWorkers` |
| `Integrate`, `Checkpoint` | commit, attribution, merge; the one manifest write after it |
| `Secondary` | task status and cascade, after every checkpoint of the wave |
| `Finish`, `Terminalize`, `Catch` | end of `runParallel`; run.ts:1017-1096; run.ts:1274-1308 |
| `Signal`, `Crash` | first SIGINT/SIGTERM; second one, SIGKILL or power cut |

The manifest is abstracted to its status, `safe` (`resumeSafe`), the status per task,
the recorded tip and the dispatch count. `held` is the handle in memory, `disk` the
file. A write either succeeds, fails without effect, or fails after the rename took
effect (the directory sync). A tip or a commit is the sequence of tasks merged into it.
What a worker leaves is a reported status and, of the files it changed and claimed,
only whether they are its own. `base`, `spawned` and `removed` are what the properties
need to look back on.

Abstracted: titles, prompts, artifacts, hooks and the status table; timestamps;
`recordIntegration` and `markRunInterrupted`, two writes with the same effect on what is
modelled, are one. Not modelled: the shared-worktree mode, whose integration has no merge.

### RunLedger

Merge, record, reserve, start, close. `ParallelRun` implements it with the branch as
`integrated`, the tip on disk as `recorded`, the count on disk as `reserved` and the
workers spawned in the chain as `started`. A close is exact when the run says
resumable, review pending or completed, and inexact when it says failed or not resumable.

### SessionRuns

`me[p]` is one invocation: `pc` is its next write, `held` the manifest it has in memory, `next`
the one it is about to write, `from` the integration it continues. Between two writes another
invocation, a worker or the user may act, and the process may die.

| Action | Code |
|---|---|
| `BeginLocked`, `BeginPlain`, `BeginDecision`, `TakeLock` | `runCommand`; the head of `applyRunAction` and `abortRunAction`, which read the manifest before they take the lock |
| `Fresh`, `Resume`, `Review` | the residue check; `resolveResume`, guards 2 to 11; the `--from-review` guards; with `workerGuard` |
| `ReadStale`, `Mark`, `NoneStale` | `interruptStaleRunManifests`, a read and a write for each manifest |
| `Create`, `Record`, `Setup` | `createRunManifest`, `recordIntegration`, `setupIntegration` |
| `Reserve`, `Spawn`, `WriteSentinel`, `WorkerEnds`, `Integrate`, `Checkpoint`, `Finish`, `Throw`, `WriteFails` | the loop, in the steps `RunLedger` has; `ParallelRun` has the rest |
| `Close` | the last write of a run, plain ones included, and the release of the lock |
| `Apply`, `Abort`, `Decide`, `Clean`, `Prune` | squash; the status; `removeSessionWorktrees`, whose errors are swallowed |
| `Commit`, `Edit`, `Discard`, `ApprovePlan`, `Crash` | the user and the machine |

A commit is its base and the merges on top of it, each by task and run, so that "applied twice"
and "merged twice" can be said. `starting` and `running` are kept apart nowhere in the code and
merged here; `partial` is a `completed` run. A task's status is `done` or not. `alive` are the
workers that are running, `sentinels` the tasks with a `worker.json`: it is written after the spawn, or
never, when tmux does not tell the pid. A run that dies between the two, or fails to write it, leaves a
worker that nothing knows; those are `strays`. The lock excludes and is freed by
a crash, which is `SessionLock`'s takeover where it holds to what it judged. `--assume-workers-dead` is used as its message demands,
after the workers have been killed. An auto run behaves as a plain run; the edits of both to the
main worktree are `Edit`. Left out: hooks (a refusing one ends the command as a guard does), the
backend, ownership and bypass guards, other sessions.

What `ParallelRun` assumes of an inherited start (`StartsAssumption`) is what this module shows of
every chain of runs: `MergedOnce`, `SkipsAreEarned` and `LineageBudget`, all three proved.

### Preflight

`findCycle` and the collection of ancestors are written as the depth-first searches they are, with
their marks, their stack and the map they fill, so that a cycle found late, or reached from a second
task only, is a case. Each search is a recursive function of how deep its calls are nested, which is
no deeper than there are tasks: `visit` marks one task more with each call, `collect` adds one to those it
is visiting. A path is the sequence of its segments with a mark for what makes it no literal path.

### Scheduling

`doc` is the document a provider wrote, any that the schemas admit; `outcome` and `members` are the
loop's `state` and `wave`. `WaveEnds(bad)` is the end of a wave whose tasks in `bad` fail: statuses and
cascade in the order of the wave (run-parallel.ts:725-732), then the next wave. A cycle, being needed
through others (`LeadsTo`, as the least set closed under dependence) and the file a path leads to
(`Reached`, step by step) are reference definitions that share nothing with the searches.
`MCTaskDag` has the documents of small instances.

### PlanApproval

`me[p]` is one command: it reads the session once (`arts`), and every read and write of the plan
file after that is a step. A file is `[v, rev, origin, body, status, hash]`, where the hash of a
body is the body. Evolve stands for explore and snapshot as well, which read and save the session
as it does. `history` remembers decisions and executions for the properties.

| Action | Code |
|---|---|
| `Begin` | the head of each command: `getOrCreateSession`, `loadSessionStrict` |
| `Think`, `Import` | `generatePlanOutput`; `importExternalPlanFromFile` with its preflight |
| `ReadPrevious`, `Archive`, `Put` | `writePendingPlan`, a read and two writes |
| `Gate`, `DecideRead`, `DecideWrite` | the preflight of `plan --approve`; `decidePlan`, which reads the file again |
| `Start`, `AutoGate`, `AutoAgain`, `Work` | the gate of run; auto's gate and the second reading of `resolveAutoResume`; the tasks |
| `Save` | `saveSession(appendArtifact(...))` over whatever the file says by then |
| `Edit`, `Crash` | the user's editor; a death, which may tear the session file |

### AutoPipeline

`cmd` is the command under way with the stages it has left and the results it has not published;
`outputs` are the run artifacts on record, known by the task they name, which a model may get wrong.
`Draft`, `DraftPlan`, `RunTask`, `RunStageEnds`, `PublishAuto` or `PublishRun` (two writes, in the
order each command has), `Advance`, `Learn`, `End` follow `autoCommand` and the sequential part of
`runCommandLocked`; `StageFails` is a hook or a write that takes the stage down with what its tasks
had reported; `Replan` and `Approve` are the person. One command at a time.

### Pipeline

One action per step of `runPipeline`: entering a stage (`NextStage`), refusal at its input
(`Refuse`), hit or miss, model calls with retries through the budget (`Call`, `AskAgain`,
`ModelFails`, `ModelAnswers`), the task loop of the run stage (`SkipAll`, `SkipTask`, `Deny`,
`StartTask`, `EndTask`, `TasksOver`), `Store` and `Emit`. Throwing hooks are in `Fail` and
`Complete`: a stage may be reported completed and then failed; those of the harness around a task
(`beforeTask`, `onTaskStart`, `afterTask`, `onTaskComplete`) are outside of the task's `try` and fail the
stage from `StartTask` and `TaskEnds`. A result has the task that was executed and the `id` the model put
into its answer, which the code does not compare. `mode` is the runner's `schemaValidation`: `Admitted` lets
pass whatever a run in the mode "warn" would. Runs follow each other over one cache, which may hold what
another version of a schema admitted, or a run that only warned.

### ReusableCache

Every system call of a lookup is a step: stat, read, get, the second stat and read of
`evaluateReusableCacheEntry`, truncate and fill. Two users and a person who writes or removes the
file act in between. An answer is known by the prompt it was given to: for
explore the text of the wiki, for plan the snapshot (with the session's context, which the key has too) and
what the project's context says, which the key has not.

### StageDialog

`cmd` is a stage's command in its dialog: rounds, calls, whether there is a terminal, the session it has
read, which answers its model has been told. explore, snapshot, plan and evolve put the session's answers
into their prompts and may ask back (`Call`); run, learn and all of auto go through the stages of the
pipeline, which are told of no answer (`PipeCall`). `last` is each stage's last artifact as `slad.ts`
reads it: a plan is an envelope, which shows neither a status nor questions. `session` is the session file. A front
end (not in the repository) answers through `upsertSessionAnswers`, also while a command is under way,
whose save then writes back what it had read.

### CliProcess and Chat

`CliProcess` has the child, which leads a process group, one helper of that group which may hold the
pipe, the timeout and the two signals of `terminate`. `Chat` has the prompt with its suggestions,
key by key, the palette, agent mode, the commands as begin, call and return, and another terminal
that changes sessions. `open` are the sessions with a run on record as running, `unwritten` those of
them whose manifest a write has failed on; `safeCall` catches what the command throws, so that such a run
is left behind. What `status`, `stats`, `version`, `model` and `new` throw is caught by nobody and ends the shell. A catalog says by command what names it and which texts find it, `MCChat` a part
of the real one with what the real search finds. `SearchAvailable` filters it in its order.

## The runs

| Run | Instance | Shows |
|---|---|---|
| `session_lock` | 4 processes, 2 hosts, 2 sharing a run id, all mortal, 1 forcing, over the dead and the living (223,736 states), fair | `MutualExclusion` up to `clobbered` and `overruled`, `LockHasKeeper`; every invocation is answered |
| `lock_one_holder` | 3 processes, no crash | violated: a taker renames over a fresh lock |
| `task_dag` | all schedulable plans of 3 tasks, 2 files, 2 priorities; all graphs with unknown, own, doubled and cyclic dependencies; all spellings of a path of up to 3 segments (163,191 states) | waves and cascades, cycles, blockers and owners against reference definitions |
| `parallel_run` | 5 tasks, waves of up to 3, budget 6, fresh and resumed (61,631 states), fair | the inductive invariant and with it all its parts, exact endings, every task decided, the refinement of the ledger; the run ends |
| `session_chain` | 1 process, 3 runs, a plan of 2 tasks and its revision (1,790,986 states) | chains of fresh, resumed and follow-up runs, killed anywhere: nothing merged twice, skips are earned, the budget is kept |
| `session_race` | 2 processes, 2 runs, all commands, kills, exceptions, failing writes, of a `worker.json` too, refusals of git (1,769,598 states) | applied once, exact record, work is claimed and leaves by decision, no worktree goes from under a worker that is known |
| `plan_approval` | 3 processes, 2 at once, 3 bodies, 1 edit, every command (1,044,178 states) | only what is approved is run, what is on record exists, nothing is lost without an overlap |
| `pipeline` | 3 stages, 2 inputs that share a cache key, 5 graphs of 3 tasks, misnamed reports, 5 calls, 2 runs on one cache, enforcing or warning (898,644 states), fair | order, budget, results, validity, an end |
| `reusable_cache` | 3 invocations, 2 at once, 2 contents, 2 snapshots, 2 edits (1,276,088 states) | fresh texts, explore's answers for their prompts, plans for their snapshots |
| `stage_dialog` | 2 questions, 3 rounds, 2 commands (134,020 states) | bounded dialogs, answers kept and told, no stage but plan passed over |
| `auto_pipeline` | 3 plans of up to 3 tasks, 2 revisions, 2 tasks a command, 2 troubles (246,369 states), fair | resume does what is left, in order; completed means all; the plan gets done |
| `chat` | 10 commands, 2 sessions, 1 act of another terminal, failing manifest writes (272,012 states), fair | the session held is the active one; a quiet prompt; every command returns |

Bounds. Four lock processes give a holder, two takers and a newcomer, which is what the
takeover race takes; two hosts tell a pid that proves death from one that proves nothing.
Three tasks give every shape of a dependency chain, fork and join, and of a skip that
crosses another; two files give disjoint, overlapping and empty claims. The five-task
plan has two tasks that run together, one kept apart by a file, one without files, and a
join; its budget of six is reached from the resumed start (two dispatches spent).
`Outputs` has one member per verdict the attribution can give: merged, phantom, trespass,
not completed. Nothing else is bounded there: the lifetime of a run is finite.
Three runs of a session give a parent, its child and a grandchild or a second child; two give every
race, since the lock leaves one locked command beside one that has not taken it yet or never does.
`MaxRuns` bounds the runs of a session, `MaxHead` the commits of the user. `Revised` has plans that
share a task, `FollowUp` plans that share none.
Two commands at once (`MaxAtOnce`), and a third after one of them, give every pair of interleaved
read-modify-writes and a reader of what they left; three bodies are two admissible ones and one that
is not. `MaxCalls` and `MaxCost` are reached by one run of `Pipeline`: a price of 3 under a limit of 4
is the overshoot. `MaxEdits` of two puts an edit on both sides of a fingerprint. Two commands of
`MaxCommands`, with a person who answers before, between and during them, ask and take up again. `MaxTrouble` of two is a failure and a death, or
two failures of the same task; `MaxTasks` of 2 under plans of 3 makes every plan take two commands.
`MaxSessions` and `MaxForeign` let another terminal replace the session or extend it.
Instances over permutable constants are checked up to symmetry, except where liveness is.

Fairness. `SessionLock`: weak fairness per process; every step is a call that returns, the
retry loop has a deadline, and the command between acquire and release ends. `ParallelRun`:
weak fairness of the loop, whose awaits are file and git operations that complete, and of
each worker, which its timeout kills at the latest. `Pipeline`: weak fairness of the runner, whose
calls settle. `AutoPipeline`: weak fairness of the command under way, strong fairness of
`auto --resume`: the person gives it again and again while there is an approved plan, since each
command may execute `MaxTasks` tasks only. `Chat`: weak fairness of the shell and of the timers and
the close event; no process has to end by itself. A signal, a crash, a failure or an edit is never
forced.

Deadlock is not checked where a protocol really stops (every process has exited, the run
has ended, the bounded commands are used up); in `auto_pipeline` it is.

## What is proved

### The lock

`SessionLockProofs`, for any set of processes, hosts and forcing or mortal subsets:
`LockInv == TypeOK /\ JudgedDead /\ LockMatchesHandle /\ OwnersHaveTheLock` is inductive, one
lemma per action. `MutualExclusion` is not inductive by itself: it needs that a taker past its
judgement has judged a process that stays dead or that it was told to force (`JudgedDead`), that the file agrees with the
handle of its creator (`LockMatchesHandle`: the epoch comparison of a release is then exact for
the owner), and that while nothing was clobbered or overruled every owner's lock is the one on disk.

Assumptions: `NoFile` is not a lock record; `Forcing` and `Mortal` are sets of processes.

### The scheduler and the preflight

`ParallelRunProofs` has the proofs of `TaskDag`, `Preflight`, `Scheduling` and `ParallelRun`. Of the scheduler

* `NextWaveIsRight`: whatever the plan, the statuses and the limit, the wave `dag.ts` forms is of
  runnable tasks that share no file, and greedy: a runnable task is left out only for members that
  go before it.
* `CascadeIsExact`: in an acyclic plan the cascade takes exactly the pending tasks that need what
  failed or was skipped. This makes `TasksAreDecided` (`EveryTaskDecided`) provable.

Of the preflight

* `FindCycleIsExact`: for every list of tasks, whatever names they repeat or get wrong, `findCycle` returns a
  cycle exactly when there is one, and what it returns is one. While it has found none, the tasks on its
  stack are the ones it is visiting and each depends on the next, and what is done depends on
  done tasks only: no mark hides a cycle (`Searching`, `Found`). That its calls are not nested deeper than there are
  tasks is part of it: each `visit` has one new task less.
* `BlockersAreExact`: preflight blocks exactly the documents that are incomplete, or have a graph the
  scheduler could not finish, an unknown first task, or a path that is not literal.
* `AncestorsAreExact`: without cycles, the memoized map of `checkOwnershipOverlap` is what each task
  needs through others, in whatever order it is filled.

Of the two together, for any documents, outcomes and limit: `PreflightStaysExact`, `WavesAreRight`,
`SchedulesDecideAll`, `OwnersStayKnown`, which are the four properties of the run `task_dag`. The
invariant, `ScheduleInv`, says of a document that was let through that its statuses are coherent
(`Coherent`: what is done or failed needs only what is done, what is skipped needs something failed or
skipped, and what is pending needs neither), that the wave is the next one for them, and that `failed`
has what they say. Without it an empty wave may leave tasks pending for ever. TLC has checked it on the
instance of `task_dag`.

All of these are about folds and recursive functions, and the library's induction theorems cannot be
used here. The proofs go by least counterexample instead: the prefixes (or depths) for which the claim
fails are a set of naturals; it has a least element (`Least`, from the well-foundedness of `<`), which is
not 0, and the step from its predecessor contradicts it.

Assumptions: `DocsAssumption` (documents are what the schemas of `packages/shared` admit) and a limit
of at least 1.

### The parallel run

For every plan, limit, set of worker outcomes and inherited start: all the safety properties of a run and
the refinement of the ledger.

* `RunInv` is inductive (`Invariance`; TLC checks it in the run `parallel_run` too). Its parts say where
  everything stands at each await: `WaveInv` (the launched tasks are the part of the wave the
  loop is past; the wave is runnable, disjoint and without repetition), `WorkerInv` (an awaited
  worker is of a launched task, runnable since, and started from the branch as it still is),
  `StateInv` and `DoneInv` (a task on the branch is done or of this wave with its merge behind
  the loop; a done task is on the branch or changed nothing), `SpawnInv` (a started task is
  decided or of this wave), `DispatchInv` (the loop's count is the durable one, ahead of the
  workers by the one reservation under way), `HandleInv` (the handle and the file agree until a
  write fails, and lag only between a merge and its checkpoint), `RecordInv` (the status on
  record of what is merged and of what is running).
* None of the properties is inductive alone. `ExactlyOnce` needs that a wave is of pending tasks
  and that everything started or merged is either no longer pending or of this wave;
  `ExactWhenSafe` needs `RecordInv` at the two places a run ends by itself; `ManifestLag` and
  `DispatchBound` need that the handle is exact whenever a new merge or reservation starts, since
  a failing write may or may not have taken effect.
* `RunImplementsLedger`: `Spec => Ledger!Spec`. Beside `RunInv` it needs `FileAhead`: up to the
  end of the run the file is at, or one update ahead of, the handle, so that the catch's write,
  made from the handle, can only take back an update that was reported as failed.

`TasksAreDecided` has an invariant of its own, `DecidedInv`: nothing pending needs a task that will
not be done, and a loop that ended without a reason has nothing runnable left; then, as the plan is
acyclic, nothing is pending. TLC has checked it together with `RunInv` on the instance of
`parallel_run`.

Layout: facts about sequences, the folds, the wave, the cascade, the preflight, the schedule, the initial
state of a run, what each manifest update writes, one lemma per action with one step per part of the invariant, then the theorems.

Assumptions: `PlanAssumption` (what preflight lets through, and that a priority is one of the schema's
three), `LimitsAssumption` (the schema's bounds, `schemas.ts:985`), `OutputsAssumption`, and
`StartsAssumption` (what a resume validates of its parent: the tip consists of tasks that are done,
once each, and the budget is not overspent). Nothing is assumed of the scheduler.

### The commands of a session

`SessionRunsProofs`, for any number of processes, runs, tasks, plans, limits and faults. The invariant
is in layers; each is inductive given the ones before it, so that a later proof has a small state to
think of. `Holds(me[p])` says that a command is past the lock, and the parts named `...At` are about
what such a command has in memory.

| Layer | Says | Gives |
|---|---|---|
| `BaseInv` | types; runs are numbered as they are created, and continue earlier ones; one command holds the lock; the branch is where its place says | `WorkLeavesDecided` |
| `WorkersInv` | a worker alive, strays excepted, has its worktree and is known to the loop that has launched it or by its `worker.json`; only a loop, or a guard that is about to look, has any | `WorkersNotUndercut` |
| `ReadyInv` | a record becomes ready by the last write of its command only, and that write is exact | `LastRecordExact` |
| `WorkInv` | merges on the branch are distinct, by runs there are, and not in what was applied to the same HEAD; what a run may still merge is nowhere yet | `AppliedOnce` |
| `DoneInv` | all that a chain has on the branch is done in the record of its last run, and what is left to a run is not done | `MergedOnce` |
| `EarnedInv` | what a record, or a command's memory of one, has as done was finished by a run of its chain, of its plan | `SkipsAreEarned` |
| `RecordsApart` | runs whose branch is not set up yet, and plain ones, have each a record of its own, which is not the last run's | `ClaimInv` |
| `ClaimInv` | the last run's record has a tip that is a prefix of the branch, or is the mark of a run without the lock; what that one read before it marks is known | `BranchIsClaimed` |
| `BudgetInv` | a record has counted what its chain has spawned, up to the reservation under way | `LineageBudget` |

Each of these properties, taken alone, is broken by a step from a state that cannot be reached: a second
command past the lock, a record whose branch is elsewhere, a handle older than its file. A plain run takes no lock and may take
the claim away with what it had read (`BranchIsRecognized` below): `BranchIsClaimed` says that this
mark is the only thing that does, for all kinds of commands.

Assumptions: the bounds are naturals, the choices are those of the model, a plan is a set of tasks, and
the marks (`NoManifest` and the like) are not what they stand in for.

### The plan, the pipelines, the cache and the dialogs

* `PlanApprovalProofs`, for any number of commands at once: `RunIsApproved`, `PlanOnRecordExists`,
  `AloneLosesNothing`. `DecisionInv`: a file that says `approved` carries the hash of a body whose approval stands,
  whatever the body on file has become, so that `readPlan`, which compares the two, lets only that body
  count as approved. `RecordInv`: what a command holds of the session lists no plan before its file is there.
  `AloneInv` is for commands that have not overlapped: each has in memory what the files say. A session
  file torn by a death is excused (no command reads it), and of commands that overlap nothing is claimed:
  the later write wins (`RecordsStay` below).
  Assumptions: the kinds, bodies and bounds, and that `NoPlan` is no envelope.
* `AutoPipelineProofs`: `RunsWhatIsLeft`, `CompletedMeansAll`, `NeitherIsAhead`. `AutoInv`: the stages
  left are the end of one of the code's lists, and the tasks a command has left, those it has finished
  and those on record make up its plan. `AheadInv` is for `NeitherIsAhead`, which bounds both sides: between two
  writes of an output an auto's session is one task ahead of its manifest at most and never behind it,
  and of a run's results all before the one under way are saved.
  Assumption: plans are acyclic, as `plan-preflight.ts` has made sure.
* `PipelineProofs`, for every list of stages, graph, price and limit: `TasksInOrder`, `WithinBudget`,
  `ResultsInOrder`, `InvalidStaysOut`. `PipeInv` has a part for each of money, values, tasks and
  results: calls are within their limit and the cost within one call of its own; a value that goes on in a run
  that enforces is valid, whatever the cache had; a task is done or failed exactly when it was executed and reported,
  after what it needs, whatever id the report carries; the results are those of the stages up to this one. Assumptions: stages are a sequence of names, `run` is
  not cacheable, limits and prices are naturals, marks are no inputs.
* `ReusableCacheProofs`, for any number of users: `WikiIsFresh`, `OutputIsForPrompt`. `CacheInv`: while
  the file has the time an entry was made at, it says what the entry says; and a lookup between two of
  its system calls knows of each whether the file has changed since. Assumption: the time of a
  file grows with every write (`clock`), which is the model's, and the marks are no contents.
* `DialogProofs`, of the stages, for any questions and rounds: `DialogIsBounded`, `AnswersAreHeard`,
  `NothingPassedOver`. `DialogInv`: calls are at most one ahead of rounds, what was said between commands
  is in the session on file and in the one that the command under way has read, and its model was told. What
  is on record as open is so by its status, but for a plan, from which `NothingPassedOver` follows by cases
  over what `artifactHasHumanBlock` asks.
* `DialogProofs`, of the shell, for any catalog, texts, number of sessions and acts of another terminal:
  `HeldIsCurrent`, `PromptIsQuiet`. `ShellInv` has four parts. `Highlights`: the highlight is on a suggestion
  for the session held, at every place of the shell, so that it is when the prompt comes back. `Holds`: there is
  no way back to having no session, so that the refresh, which keeps the old copy when there is none, never
  keeps a stale one. `Waits`: a call that is not waited for has neither a child nor a pipe, which a timeout
  does not change, since the promise is settled by the close event alone. `Runs`: a run that is open, and whose
  manifest could be written, is that of the command which waits for a call, or was left by a signal. TLC has checked it on the instance of `chat`. Assumptions: the catalog is a sequence of commands
  whose insertions can stand at the prompt, as what one more key makes of a text can.

### Only model-checked

Every invariant and every action property of a passing run is proved. Liveness is not
(`EveryInvocationAnswered`, `Terminates`, `Ends`, `PlanGetsDone`, `CommandReturns`): fairness and ENABLED are
out of the prover's reach.

## What the code does against its own words

One run expects a violation; `PROJECT.json` "findings" quotes the lines it contradicts: a takeover
renames over a lock other than the one it judged, and two hold a session (`lock_one_holder`). More
properties are stated in the modules, each beside a comment that says the code does not have it, and
fail as well; they have no run of their own. Each is shown by adding it to the instance named here.

| Property | Instance | What the code does |
|---|---|---|
| `SessionLock!ReleasesOwnLock` | `LockOneHolder.cfg` with `Mortal <- OneHostProcs` | a release unlinks the lock a taker has put there since its check |
| `SessionLock!RacingMeansTaking` | the same, `SPECIFICATION FairSpec` | the staging file of a taker that died refuses all later ones |
| `ParallelRun!LiveWorkersAreRecorded` | `MCParallelRun.cfg` with `Plan <- ForkPlan`, `Tasks <- Ids` | a worker lives without its `worker.json` if the run dies after the spawn |
| `ParallelRun!MergedWorkStaysReviewable` | the same | an exception other than a failed durable write closes the run as failed with its merged work, which no command accepts |
| `SessionRuns!NoStrayIsUndercut` | `SessionRace.cfg` | an apply or an abort removes the worktree under a worker whose `worker.json` was never written |
| `SessionRuns!ChainBudget` | one process, 3 runs, `TwoTasks`, limit 2, fresh and resume | a parent is resumed twice, each time with its own dispatch count |
| `SessionRuns!SafeMeansResumable` | one process, 2 runs, `FollowUp`, fresh, review and resume | the parent's task branches make guard 8b refuse a follow-up recorded as safe |
| `SessionRuns!FollowUpCanLaunch` | one process, 3 runs, `FollowUp`, fresh and review | a follow-up meets the worktree of a task only its sibling had |
| `SessionRuns!RefusalHasWayOut` | one process, 2 runs, `OneTask`, fresh, review and abort | aborting a follow-up that merged nothing takes its parent's branch, and every command refuses the parent |
| `SessionRuns!CrashedRunIsDecidable` | one process, 1 run, fresh, apply and abort, with kills | a killed run is still `running`, which apply and abort refuse |
| `SessionRuns!OutcomeDecidedOnce` | two processes, 1 run, kept worktrees, apply and abort | an abort that read the manifest before an apply writes `aborted` over `applied` |
| `SessionRuns!BranchIsRecognized` | two processes, 2 runs, fresh and plain, with kills | a plain run writes back a manifest it has read and takes back the integration recorded since |
| `PlanApproval!AutoRunsApproved` | `PlanApproval.cfg` | `auto --resume` judges one reading of the plan and executes another |
| `PlanApproval!RecordsStay` | `PlanApproval.cfg` | of two commands that overlap, the later save takes back the artifact the earlier one has recorded |
| `Pipeline!ReportsNameTheirTask` | `Pipeline.cfg` | an output is recorded under the task id the model gave it, not that of the task it was asked about |
| `ReusableCache!PlanIsForPrompt` | `ReusableCache.cfg` | a plan made before the project's context was edited is served after it |
| `StageDialog!AnswersStay` | `StageDialog.cfg` | a command's save writes over an answer given since it had read the session |
| `StageDialog!PlanIsNotPassedOver` | `StageDialog.cfg` | a plan that waits for a person is saved as an envelope, which counts as done |
| `AutoPipeline!OutputsAreOfThisPlan` | `AutoPipeline.cfg` | outputs of an earlier revision count for tasks of the same name |
| `Chat!WholeNameRunsIt` | `MCChat.cfg` | Enter on the whole name of a command runs the first suggestion that contains it |
| `Chat!NoRunIsOpen` | `MCChat.cfg` | a failing write of the manifest leaves its run on record as running when the prompt is back |
| `Chat!FirstSignalUnwinds` | `MCChat.cfg` | the shell's own handler ends the process under a run, whose manifest stays `running` |
| `CliProcess!GroupIsEnded` | `MCChat.cfg` | once the group leader has exited, no signal goes to what is left of its group |

Known of the code, and not a property: `fixJsonString` in `model-providers/src/adapter.ts` removes
`//` and what follows it inside of strings too, which is a matter of text; a resumed auto with
`--dry-run` and an approved plan drafts again and supersedes it (`StagesLeft`); run, learn and auto
tell their models of no answer (`AnswersAreHeard` leaves them out); a decision on a plan falls on
whatever revision is on file by then; a call the timeout wrapper has given up goes on beside its retry.

## Not modelled

* The shared-worktree mode of the parallel loop (`run-parallel.ts:693-723`): it merges nothing and
  records statuses alone.
* Tools, the rules of the harness, the HTTP adapters, prompts, rendering, argument parsing, discovery
  of agents and of the project, the wiki's text, telemetry and memory: pure functions on text, or input
  and output without a protocol.
* `slad.ts:319-645` (checkpoints, reports and telemetry summaries of the automatic pipeline): exported,
  and used by no command of this repository.
* Examples and the demo.

## Plan

Done: the lock, the scheduler and the preflight, the parallel run with its ledger, the commands of a
session, the plan's life, the sequential pipeline, the cache, the dialogs, the shell; and proofs of all
their safety properties. What would come next, in this order:

1. `SessionRuns` as an implementation of `RunLedger` for each chain of runs, which its steps follow
   already, and with it `StartsAssumption` as a theorem about `ParallelRun!Starts`.
2. The shared-worktree mode of `ParallelRun`; an abstract pipeline that `Pipeline` and
   `AutoPipeline` both implement.
