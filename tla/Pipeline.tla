------------------------------ MODULE Pipeline ------------------------------
(***************************************************************************)
(* The stage runner and the stages it runs: packages/pipeline/runner.ts,   *)
(* stages/*.ts and agent.ts, the model adapter's generateObject with its   *)
(* retries, the budget around the provider, the harness before and after   *)
(* a task, and the cache of stage outputs.                                 *)
(*                                                                         *)
(* Runs follow each other over one cache.  The value that flows through a  *)
(* run is known by the input it was made from.                             *)
(***************************************************************************)
EXTENDS Integers, Sequences, FiniteSets

CONSTANTS
  Stages,       \* the ids of the stages, in order
  Cacheable,    \* those whose output is cached
  Inputs,       \* what a run may be started with
  KeyOf,        \* the part of an input that the cache key of a stage keeps
  Tasks,        \* the tasks of a plan
  Misnomers,    \* the ids that a model may answer with instead of a task's own
  Order,        \* the order in which the plan lists them
  Graphs,       \* what dependsOn may be: a dependency may be of no task
  MaxTasks,     \* maxTasks of the run stage
  MaxCalls,     \* policies.budget.maxModelCalls
  MaxCost,      \* policies.budget.maxUsd
  Prices,       \* what a call may cost
  Retries,      \* maxRetries of generateObject
  Modes,        \* what schemaValidation may be: "enforce", "warn"
  MaxRuns,      \* bound: the runs
  Old,          \* the input of what is cached already
  None

ASSUME StagesAssumption ==
  /\ Stages \in Seq(STRING)
  /\ "run" \notin Cacheable /\ Cacheable \subseteq {Stages[i] : i \in DOMAIN Stages}
ASSUME MarksAssumption == {Old, None} \cap Inputs = {} /\ Old # None
ASSUME ModesAssumption == Modes \subseteq {"enforce", "warn"} /\ Modes # {}
ASSUME BudgetAssumption ==
  {MaxTasks, MaxCalls, MaxCost, Retries, MaxRuns} \cup Prices \subseteq Nat /\ MaxRuns # 0

VARIABLES
  run,          \* the number of this run
  mode,         \* its schemaValidation
  stage,        \* the index of its stage
  pc,           \* where the runner is
  value,        \* the input that the current value was made from, and whether it is valid
  attempt,      \* attempts of generateObject for this stage, or this task
  budget,       \* calls refused or made, calls made, and their cost
  task,         \* the task being executed
  state,        \* of every task: pending, done, failed or skipped
  results,      \* the outputs of the run stage: the id and the status that a model
                \* answered, and (history) the task that it had been given
  graph,        \* dependsOn
  stageResults, \* stageResults of this run
  published,    \* the stages whose artifacts the listener of this run was given
  cache,        \* by key: the input its value was made from, and its validity
  aborted,
  lenient       \* history: this run or one before it only warned

vars == <<run, mode, stage, pc, value, attempt, budget, task, state, results, graph,
          stageResults, published, cache, aborted, lenient>>

runVars == <<run, mode, lenient>>

Id == Stages[stage]
Key(s, v) == <<s, KeyOf[s][v]>>
Keys == {Key(s, v) : s \in Cacheable, v \in Inputs \cup {Old}}

Reset ==
  /\ stage' = 1 /\ pc' = "next" /\ attempt' = 0 /\ task' = None /\ results' = <<>>
  /\ budget' = [count |-> 0, made |-> 0, cost |-> 0]
  /\ state' = [t \in Tasks |-> "pending"]
  /\ stageResults' = <<>> /\ published' = {} /\ aborted' = FALSE
  /\ \E v \in Inputs : value' = [of |-> v, valid |-> TRUE]
  /\ graph' \in Graphs

(* A cache may hold what an older version of a schema admitted, and this   *)
(* one does not.                                                           *)
Init ==
  /\ run = 1 /\ mode \in Modes /\ lenient = (mode = "warn")
  /\ stage = 1 /\ pc = "next" /\ attempt = 0 /\ task = None /\ results = <<>>
  /\ budget = [count |-> 0, made |-> 0, cost |-> 0]
  /\ state = [t \in Tasks |-> "pending"]
  /\ stageResults = <<>> /\ published = {} /\ aborted = FALSE
  /\ value \in [of : Inputs, valid : {TRUE}]
  /\ graph \in Graphs
  /\ cache \in [Keys -> [of : {Old, None}, valid : {FALSE}]]

Goto(where) == pc' = where

(* A mutant: the loop goes on after the failure.                           *)
FailAndGoOn ==
  /\ stageResults' = Append(stageResults, <<Id, "failed">>)
  /\ Goto("next")

(* The catch of the runner's loop: a result, and the run has failed; when  *)
(* onStageError throws, its promise is rejected.                           *)
Fail ==
  /\ stageResults' = Append(stageResults, <<Id, "failed">>)
  /\ pc' \in {"failed", "rejected"}

(***************************************************************************)
(* The loop over the stages.                                               *)
(***************************************************************************)
(* The signal is looked at here only.  onStageStart is outside of the try: *)
(* when it throws, the promise of the run is rejected and has no result.   *)
NextStage ==
  /\ pc = "next"
  /\ \/ stage > Len(Stages) /\ Goto("completed")
     \/ stage <= Len(Stages) /\ aborted /\ Goto("cancelled")
     \/ stage <= Len(Stages) /\ ~aborted /\ pc' \in {"enter", "rejected"}
  /\ UNCHANGED <<runVars, stage, value, attempt, budget, task, state, results, graph,
                 stageResults, published, cache, aborted>>

(* The harness refuses a permission, or the input does not validate and    *)
(* the mode is not "warn".                                                 *)
Refuse ==
  /\ pc = "enter" /\ Fail
  /\ UNCHANGED <<runVars, stage, value, attempt, budget, task, state, results, graph,
                 published, cache, aborted>>

Advance ==
  /\ Goto("next") /\ stage' = stage + 1 /\ attempt' = 0

(* onStageComplete has been called, after the result was pushed.           *)
Complete(status) ==
  \/ stageResults' = Append(stageResults, <<Id, status>>) /\ Advance
  \/ /\ stageResults' = stageResults \o <<<<Id, status>>, <<Id, "failed">>>>
     /\ pc' \in {"failed", "rejected"} /\ UNCHANGED <<stage, attempt>>

Hit == Id \in Cacheable /\ cache[Key(Id, value.of)].of # None

(* A mutant: a hit is taken as it is.                                      *)
CacheHitUnchecked ==
  /\ pc = "enter" /\ Hit
  /\ value' = cache[Key(Id, value.of)] /\ Complete("cached")
  /\ UNCHANGED <<runVars, budget, task, state, results, graph, published, cache, aborted>>

(* validateBoundary: what does not validate goes on in the mode "warn".    *)
Admitted(valid) == valid \/ mode = "warn"

(* A hit is validated; it gives no artifact to the listener.               *)
CacheHit ==
  /\ pc = "enter" /\ Hit
  /\ LET entry == cache[Key(Id, value.of)] IN
       IF Admitted(entry.valid)
       THEN value' = entry /\ Complete("cached")
       ELSE Fail /\ UNCHANGED <<value, stage, attempt>>
  /\ UNCHANGED <<runVars, budget, task, state, results, graph, published, cache, aborted>>

CacheMiss ==
  /\ pc = "enter" /\ ~Hit
  /\ Goto(IF Id = "run" THEN "tasks" ELSE "call")
  /\ UNCHANGED <<runVars, stage, value, attempt, budget, task, state, results, graph,
                 stageResults, published, cache, aborted>>

(***************************************************************************)
(* A call of the model through the budget: it is counted, then refused     *)
(* when there have been too many or when the cost so far has reached its   *)
(* limit; what it costs is known when it has been answered.                *)
(***************************************************************************)
(* A mutant: the call at the limit is let through.                         *)
RefusedLate ==
  \/ budget.count > MaxCalls
  \/ MaxCost > 0 /\ budget.cost >= MaxCost

Refused ==
  \/ budget.count + 1 > MaxCalls
  \/ MaxCost > 0 /\ budget.cost >= MaxCost

Call(reply) ==
  IF Refused
  THEN reply = "error" /\ budget' = [budget EXCEPT !.count = @ + 1]
  ELSE \E price \in Prices :
         budget' = [count |-> budget.count + 1, made |-> budget.made + 1,
                    cost |-> budget.cost + price]

(* generateObject: an answer that does not parse is asked for again.       *)
GivesUp == attempt = Retries

ModelFails ==
  /\ pc = "call"
  /\ \/ Call("error")
     \/ GivesUp /\ Call("unparsable")
  /\ Fail
  /\ UNCHANGED <<runVars, stage, value, attempt, task, state, results, graph, published,
                 cache, aborted>>

AskAgain ==
  /\ pc \in {"call", "task"} /\ ~GivesUp /\ Call("unparsable")
  /\ attempt' = attempt + 1
  /\ UNCHANGED <<runVars, stage, pc, value, task, state, results, graph, stageResults,
                 published, cache, aborted>>

(* The stage has its output, and the runner validates it.                  *)
ModelAnswers ==
  /\ pc = "call" /\ Call("ok")
  /\ \E valid \in BOOLEAN :
       /\ value' = [of |-> value.of, valid |-> valid]
       /\ IF Admitted(valid) THEN Goto("emit") /\ UNCHANGED stageResults ELSE Fail
  /\ UNCHANGED <<runVars, stage, attempt, task, state, results, graph, published, cache,
                 aborted>>

(***************************************************************************)
(* The run stage.                                                          *)
(***************************************************************************)
State(d) == IF d \in Tasks THEN state[d] ELSE "pending"
DepsIn(t, states) == \E d \in graph[t] : State(d) \in states

AtLimit == Len(results) >= MaxTasks

(* Mutants: what was skipped does not skip what depends on it, and a       *)
(* dependency that failed is as good as done.                              *)
SkippableByFailure(t) == state[t] = "pending" /\ DepsIn(t, {"failed"})
RunnableAnyway(t)     == state[t] = "pending" /\ ~DepsIn(t, {"pending"})

Skippable(t) == state[t] = "pending" /\ DepsIn(t, {"failed", "skipped"})
Runnable(t)  == state[t] = "pending" /\ ~DepsIn(t, {"failed", "skipped", "pending"})

(* A pass begins anew after every task that it executed, so the next is    *)
(* the first that can be; what is skipped on the way leaves it the same,   *)
(* and is skipped here at any time before the end.                         *)
Before(t, u) == \E i, j \in DOMAIN Order : i < j /\ Order[i] = t /\ Order[j] = u
Ready(t) ==
  /\ pc = "tasks" /\ ~AtLimit /\ Runnable(t)
  /\ \A u \in Tasks : Before(u, t) => ~Runnable(u)

SkipAll ==
  /\ pc = "tasks" /\ AtLimit
  /\ state' = [t \in Tasks |-> IF state[t] = "pending" THEN "skipped" ELSE state[t]]
  /\ Goto("over")
  /\ UNCHANGED <<runVars, stage, value, attempt, budget, task, results, graph, stageResults,
                 published, cache, aborted>>

SkipTask(t) ==
  /\ pc = "tasks" /\ ~AtLimit /\ Skippable(t)
  /\ state' = [state EXCEPT ![t] = "skipped"]
  /\ UNCHANGED <<runVars, stage, pc, value, attempt, budget, task, results, graph,
                 stageResults, published, cache, aborted>>

(* The output is pushed as it is, under the id that is in it.              *)
Report(t, id, status) ==
  /\ state' = [state EXCEPT ![t] = IF status = "completed" THEN "done" ELSE "failed"]
  /\ results' = Append(results, [task |-> t, id |-> id, status |-> status])

(* A hook of the harness denies the task.                                  *)
Deny(t) ==
  /\ Ready(t) /\ Report(t, t, "failed")
  /\ UNCHANGED <<runVars, stage, pc, value, attempt, budget, task, graph, stageResults,
                 published, cache, aborted>>

(* beforeTask and onTaskStart are outside of the try of the task: what     *)
(* they throw takes the stage down, with all that its tasks have reported. *)
StartTask(t) ==
  /\ Ready(t) /\ attempt' = 0
  /\ \/ task' = t /\ Goto("task") /\ UNCHANGED stageResults
     \/ Fail /\ UNCHANGED task
  /\ UNCHANGED <<runVars, stage, value, budget, state, results, graph, published, cache,
                 aborted>>

(* afterTask and onTaskComplete, too, are outside of it.                   *)
TaskEnds(id, status) ==
  \/ Report(task, id, status) /\ Goto("tasks") /\ UNCHANGED stageResults
  \/ Fail /\ UNCHANGED <<state, results>>

(* Whatever the call throws is the task's failure; a blocked one has       *)
(* failed too.  An answer is not asked whose it is: it may carry any id.   *)
EndTask ==
  /\ pc = "task"
  /\ \/ /\ Call("ok")
        /\ \E id \in {task} \cup Misnomers, status \in {"completed", "blocked"} : TaskEnds(id, status)
     \/ Call("error") /\ TaskEnds(task, "failed")
     \/ GivesUp /\ Call("unparsable") /\ TaskEnds(task, "failed")
  /\ task' = None
  /\ UNCHANGED <<runVars, stage, value, attempt, graph, published, cache, aborted>>

TasksOver ==
  /\ pc = "tasks" /\ ~AtLimit /\ \A t \in Tasks : state[t] # "pending"
  /\ Goto("over")
  /\ UNCHANGED <<runVars, stage, value, attempt, budget, task, state, results, graph,
                 stageResults, published, cache, aborted>>

(* The outputs have been parsed one by one: the list of them validates.    *)
RunOutput ==
  /\ pc = "over" /\ Goto("emit") /\ value' = [value EXCEPT !.valid = TRUE]
  /\ UNCHANGED <<runVars, stage, attempt, budget, task, state, results, graph,
                 stageResults, published, cache, aborted>>

(***************************************************************************)
(* A stage's output was admitted: it is cached, published, and complete.   *)
(***************************************************************************)
Store ==
  cache' = IF Id \in Cacheable THEN [cache EXCEPT ![Key(Id, value.of)] = value] ELSE cache

Emit ==
  /\ pc = "emit" /\ Store
  /\ \/ published' = published \cup {Id} /\ Complete("completed")
     \/ Fail /\ UNCHANGED <<published, stage, attempt>>
  /\ UNCHANGED <<runVars, value, budget, task, state, results, graph, aborted>>

(***************************************************************************)
(* Around the runs.                                                        *)
(***************************************************************************)
Ended == pc \in {"completed", "cancelled", "failed", "rejected"}

Abort ==
  /\ ~aborted /\ ~Ended /\ aborted' = TRUE
  /\ UNCHANGED <<runVars, stage, pc, value, attempt, budget, task, state, results, graph,
                 stageResults, published, cache>>

NextRun ==
  /\ Ended /\ run < MaxRuns /\ run' = run + 1 /\ Reset
  /\ mode' \in Modes /\ lenient' = (lenient \/ mode' = "warn")
  /\ UNCHANGED cache

Runner ==
  \/ NextStage \/ Refuse \/ CacheHit \/ CacheMiss
  \/ ModelFails \/ AskAgain \/ ModelAnswers
  \/ SkipAll \/ TasksOver \/ RunOutput \/ EndTask \/ Emit
  \/ \E t \in Tasks : SkipTask(t) \/ Deny(t) \/ StartTask(t)

Next == Runner \/ Abort \/ NextRun

Spec == Init /\ [][Next]_vars

(* The event loop goes on with a run whose calls are answered.             *)
FairSpec == Spec /\ WF_vars(Runner)

(***************************************************************************)
(* What has to be true.                                                    *)
(***************************************************************************)
(* The variables keep to their sets.                                       *)
TypeOK ==
  /\ run \in 1..MaxRuns /\ mode \in Modes /\ lenient \in BOOLEAN
  /\ stage \in 1..(Len(Stages) + 1) /\ attempt \in 0..Retries
  /\ value \in [of : Inputs \cup {Old}, valid : BOOLEAN]
  /\ state \in [Tasks -> {"pending", "done", "failed", "skipped"}]
  /\ task \in Tasks \cup {None}
  /\ cache \in [Keys -> [of : Inputs \cup {Old, None}, valid : BOOLEAN]]
  /\ published \subseteq {Stages[i] : i \in DOMAIN Stages}

(* When the run stage is over, every task that was not executed was        *)
(* skipped: below a task that failed or was skipped, or because of         *)
(* maxTasks.                                                               *)
NoTaskForgotten ==
  pc = "over" =>
    /\ Len(results) <= MaxTasks
    /\ \A t \in Tasks :
         \/ \E i \in DOMAIN results : results[i].task = t
         \/ /\ state[t] = "skipped"
            /\ AtLimit \/ DepsIn(t, {"failed", "skipped"})

(* A task is only executed when all it depends on is done (run.ts:68-75),  *)
(* none is executed twice, whatever was denied, blocked or skipped, and    *)
(* none is forgotten.  This is said of the tasks that were executed: the   *)
(* outputs are not known to be theirs, see ReportsNameTheirTask.           *)
TasksInOrder ==
  /\ NoTaskForgotten
  /\ task # None => \A d \in graph[task] : State(d) = "done"
  /\ \A i, j \in DOMAIN results : results[i].task = results[j].task => i = j
  /\ \A i \in DOMAIN results : results[i].status = "completed" =>
       \A d \in graph[results[i].task] :
         \E j \in 1..(i - 1) : results[j].task = d /\ results[j].status = "completed"

(* Not so: that an output carries the id of the task that it is about.     *)
(* run.ts:110-139 pushes what the model answered without comparing the     *)
(* two, so that the list may name a task twice, or not at all.             *)
ReportsNameTheirTask ==
  \A i \in DOMAIN results : results[i].id = results[i].task

(* A plan the preflight lets through: no unknown dependency, no cycle.     *)
Sound ==
  /\ \A t \in Tasks : graph[t] \subseteq Tasks
  /\ \E rank \in [Tasks -> 0..Cardinality(Tasks)] :
       \A t \in Tasks : \A d \in graph[t] : rank[d] < rank[t]

(* Retries count against the budget too: no call is made beyond the number *)
(* allowed, and the cost passes its limit by less than one call.           *)
WithinBudget ==
  /\ TypeOK
  /\ budget.made <= MaxCalls
  /\ MaxCost > 0 /\ budget.cost > 0 => \E p \in Prices : budget.cost < MaxCost + p

(* Every stage that a run completed, and did not take from the cache, has  *)
(* had its artifact published in that run.                                 *)
CompletedIsPublished ==
  \A i \in DOMAIN stageResults :
    stageResults[i][2] = "completed" => stageResults[i][1] \in published

(* Stages have their results in their order, a completed run one of each,  *)
(* and only the last result is a failure.  A stage has two results when    *)
(* its listener fails after its completion (runner.ts:183-198).  And what  *)
(* is reported completed has been published.                               *)
ResultsInOrder ==
  LET n == Len(stageResults)
      Of(i) == stageResults[i][1]
      Status(i) == stageResults[i][2]
  IN /\ \A i \in 1..n : Status(i) # "failed" => Of(i) = Stages[i]
     /\ \A i \in 1..n : Status(i) = "failed" =>
          i = n /\ Of(i) = Id /\ pc \in {"failed", "rejected"}
     /\ pc = "completed" => n = Len(Stages)
     /\ pc = "failed" => n > 0 /\ Status(n) = "failed"
     /\ CompletedIsPublished

(* A run that enforces its schemas hands on, publishes and completes with  *)
(* valid values only, whatever the runs before it have left in the cache:  *)
(* a cached value is validated when it is hit (workflow-con-slad.md:313-   *)
(* 314).  And as long as every run enforces them, what does not validate   *)
(* is not cached either; a run that only warns (runner.ts:240-247) does    *)
(* cache it.                                                               *)
InvalidStaysOut ==
  /\ mode = "enforce" /\ pc \in {"next", "emit", "completed"} => value.valid
  /\ ~lenient => \A k \in Keys : cache[k].of \in Inputs => cache[k].valid

(* A run over a sound plan ends, whatever fails on the way.                *)
Ends == (pc = "enter" /\ Sound) ~> Ended
=============================================================================
