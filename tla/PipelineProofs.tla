----------------------------- MODULE PipelineProofs -----------------------------
(***************************************************************************)
(* Proofs about Pipeline, for any stages, tasks, graphs, inputs and limits.*)
(*                                                                         *)
(* The invariant has a part for each thing a run keeps: its budget, the    *)
(* value that flows through it with the cache, the tasks of the run stage, *)
(* and the results of its stages.  Each is shown to be kept by each action *)
(* on its own.                                                             *)
(***************************************************************************)
EXTENDS Pipeline, SequenceTheorems, TLAPS

Ids == {Stages[i] : i \in DOMAIN Stages}

Inside == {"enter", "call", "tasks", "task", "over", "emit"}
Going  == {"next"} \cup Inside
Pcs    == Going \cup {"completed", "cancelled", "failed", "rejected"}

(* No call is made that the budget refuses, whatever has been refused.     *)
BudgetInv ==
  /\ attempt \in 0..Retries
  /\ budget \in [count : Nat, made : Nat, cost : Nat]
  /\ budget.made <= budget.count /\ budget.made <= MaxCalls
  /\ MaxCost > 0 /\ budget.cost > 0 => \E p \in Prices : budget.cost < MaxCost + p

(* A value that goes on is valid in a run that enforces it, and so is what *)
(* is cached by this version while no run has only warned.                 *)
ValueInv ==
  /\ pc \in Pcs /\ run \in 1..MaxRuns
  /\ mode \in Modes /\ lenient \in BOOLEAN /\ (mode = "warn" => lenient)
  /\ value \in [of : Inputs \cup {Old}, valid : BOOLEAN]
  /\ cache \in [Keys -> [of : Inputs \cup {Old, None}, valid : BOOLEAN]]
  /\ \A k \in Keys : ~lenient /\ cache[k].of \in Inputs => cache[k].valid
  /\ mode = "enforce" /\ pc \notin {"failed", "rejected"} => value.valid

(* The states of the tasks and what has been reported of them.             *)
Reported(t) == \E i \in DOMAIN results : results[i].task = t

Outputs ==
  [task : Tasks, id : Tasks \cup Misnomers, status : {"completed", "blocked", "failed"}]

(* An output says that the task it was made for is complete.               *)
IsDone(r, d) == r.task = d /\ r.status = "completed"

ReportsFit ==
  /\ state \in [Tasks -> {"pending", "done", "failed", "skipped"}]
  /\ results \in Seq(Outputs)
  /\ Len(results) <= MaxTasks
  /\ \A t \in Tasks : state[t] \in {"done", "failed"} <=> Reported(t)
  /\ \A t \in Tasks : state[t] = "done" =>
       \E i \in DOMAIN results : IsDone(results[i], t)
  /\ \A i, j \in DOMAIN results : results[i].task = results[j].task => i = j

Ordered ==
  \A i \in DOMAIN results : results[i].status = "completed" =>
    \A d \in graph[results[i].task] :
      \E j \in 1..(i - 1) : IsDone(results[j], d)

SkippedFit ==
  \A t \in Tasks : state[t] = "skipped" => AtLimit \/ DepsIn(t, {"failed", "skipped"})

AtTask ==
  /\ pc = "task" => task \in Tasks /\ Runnable(task) /\ ~AtLimit
  /\ pc # "task" => task = None
  /\ pc = "over" => \A t \in Tasks : state[t] # "pending"

TaskInv == ReportsFit /\ Ordered /\ SkippedFit /\ AtTask

(* The results of the stages before the present one.                       *)
Good(i) ==
  /\ stageResults[i][1] = Stages[i] /\ stageResults[i][2] \in {"completed", "cached"}
  /\ stageResults[i][2] = "completed" => stageResults[i][1] \in published

Clean == Len(stageResults) = stage - 1 /\ \A i \in 1..(stage - 1) : Good(i)

(* The present one failed, perhaps after it was complete.                  *)
Broken ==
  \E n \in {stage, stage + 1} :
    /\ Len(stageResults) = n /\ \A i \in 1..(n - 1) : Good(i)
    /\ stageResults[n] = <<Id, "failed">>

ResultInv ==
  /\ stage \in 1..(Len(Stages) + 1)
  /\ stageResults \in Seq(Ids \X {"completed", "cached", "failed"})
  /\ published \subseteq Ids
  /\ pc \in Inside \cup {"failed"} => stage <= Len(Stages)
  /\ pc \in Going \cup {"completed", "cancelled"} => Clean
  /\ pc = "failed" => Broken
  /\ pc = "rejected" => stage <= Len(Stages) /\ (Clean \/ Broken)
  /\ pc = "completed" => stage > Len(Stages)

PipeInv == BudgetInv /\ ValueInv /\ TaskInv /\ ResultInv

(***************************************************************************)
(* The parts that a step leaves alone.                                     *)
(***************************************************************************)
LEMMA LimitsAreNat ==
  /\ MaxTasks \in Nat /\ MaxCalls \in Nat /\ MaxCost \in Nat /\ Retries \in Nat
  /\ MaxRuns \in Nat /\ MaxRuns # 0 /\ Prices \subseteq Nat
  BY BudgetAssumption

LEMMA BudgetKept ==
  ASSUME BudgetInv, budget' = budget, attempt' \in {attempt, 0} PROVE BudgetInv'
  BY LimitsAreNat DEF BudgetInv

(* A call counts, is made only below the limits, and costs a price.        *)
LEMMA BudgetOfCall ==
  ASSUME BudgetInv, NEW reply, Call(reply),
         attempt' \in {attempt, 0} \/ (~GivesUp /\ attempt' = attempt + 1)
  PROVE  BudgetInv'
<1>1. /\ attempt \in 0..Retries /\ Retries \in Nat /\ MaxCalls \in Nat /\ MaxCost \in Nat
      /\ Prices \subseteq Nat
      /\ budget \in [count : Nat, made : Nat, cost : Nat]
      /\ budget.count \in Nat /\ budget.made \in Nat /\ budget.cost \in Nat
      /\ budget.made <= budget.count /\ budget.made <= MaxCalls
  BY LimitsAreNat DEF BudgetInv
<1>2. attempt' \in 0..Retries
  BY <1>1 DEF GivesUp
<1>3. CASE Refused
  <2>1. budget' = [budget EXCEPT !.count = @ + 1]
    BY <1>3 DEF Call
  <2>2. /\ budget' \in [count : Nat, made : Nat, cost : Nat]
        /\ budget'.count = budget.count + 1 /\ budget'.made = budget.made
        /\ budget'.cost = budget.cost
    BY <1>1, <2>1
  <2> QED BY <1>1, <1>2, <2>2 DEF BudgetInv
<1>4. CASE ~Refused
  <2>1. PICK price \in Prices :
          budget' = [count |-> budget.count + 1, made |-> budget.made + 1,
                     cost |-> budget.cost + price]
    BY <1>4 DEF Call
  <2>2. budget.count + 1 <= MaxCalls /\ (MaxCost > 0 => budget.cost < MaxCost)
    BY <1>1, <1>4 DEF Refused
  <2>3. price \in Nat
    BY <1>1
  <2>4. /\ budget' \in [count : Nat, made : Nat, cost : Nat]
        /\ budget'.count = budget.count + 1 /\ budget'.made = budget.made + 1
        /\ budget'.cost = budget.cost + price
    BY <1>1, <2>1, <2>3
  <2>5. budget'.made <= budget'.count /\ budget'.made <= MaxCalls
    BY <1>1, <2>2, <2>4
  <2>6. MaxCost > 0 => budget'.cost < MaxCost + price
    BY <1>1, <2>2, <2>3, <2>4
  <2> QED BY <1>2, <2>4, <2>5, <2>6 DEF BudgetInv
<1> QED BY <1>3, <1>4

LEMMA ValueKept ==
  ASSUME ValueInv, UNCHANGED <<runVars, value, cache>>, pc' \in Pcs,
         pc \in {"failed", "rejected"} => pc' \in {"failed", "rejected"}
  PROVE  ValueInv'
  BY DEF ValueInv, runVars

(* What is said of the tasks apart from where the runner is.               *)
LEMMA TasksStand ==
  ASSUME ReportsFit, Ordered, SkippedFit, UNCHANGED <<state, results, graph>>
  PROVE  /\ ReportsFit' /\ Ordered' /\ SkippedFit'
         /\ AtLimit <=> AtLimit'
         /\ \A t \in Tasks : Runnable(t) <=> Runnable(t)'
<1>1. AtLimit <=> AtLimit'
  BY DEF AtLimit
<1>2. \A t \in Tasks : Reported(t) <=> Reported(t)'
  BY DEF Reported
<1>3. \A t \in Tasks : DepsIn(t, {"failed", "skipped"}) <=> DepsIn(t, {"failed", "skipped"})'
  BY DEF DepsIn, State
<1>4. \A t \in Tasks : Runnable(t) <=> Runnable(t)'
  BY DEF Runnable, DepsIn, State
<1>5. ReportsFit'
  BY <1>2 DEF ReportsFit
<1>6. Ordered'
  BY DEF Ordered
<1>7. SkippedFit'
  BY <1>1, <1>3 DEF SkippedFit
<1> QED BY <1>1, <1>4, <1>5, <1>6, <1>7

LEMMA TasksKept ==
  ASSUME TaskInv, UNCHANGED <<state, results, graph, task>>,
         pc # "task", pc' # "task", pc' = "over" => pc = "over"
  PROVE  TaskInv'
<1>1. ReportsFit' /\ Ordered' /\ SkippedFit'
  BY TasksStand DEF TaskInv
<1>2. AtTask'
  BY DEF TaskInv, AtTask
<1> QED BY <1>1, <1>2 DEF TaskInv

LEMMA CleanKept ==
  ASSUME Clean, UNCHANGED <<stage, stageResults>>, published \subseteq published' PROVE Clean'
  BY DEF Clean, Good

LEMMA ResultsKept ==
  ASSUME ResultInv, UNCHANGED <<stage, stageResults, published>>,
         pc \in Going, pc' \in Going \cup {"cancelled"},
         pc' \in Inside => stage <= Len(Stages)
  PROVE  ResultInv'
<1>1. Clean'
  BY CleanKept DEF ResultInv
<1> QED BY <1>1 DEF ResultInv, Going, Inside

LEMMA InsideIsGoing == \A x \in Inside : x \in Going /\ x \in Pcs
                                         /\ x \notin {"failed", "rejected", "next"}
  BY DEF Inside, Going, Pcs

(* The stage the runner is at, while it is at one.                         *)
LEMMA StageFacts ==
  ASSUME ResultInv, pc \in Inside
  PROVE  /\ Stages \in Seq(STRING) /\ Len(Stages) \in Nat
         /\ stage \in 1..Len(Stages) /\ Id = Stages[stage] /\ Id \in Ids
         /\ stageResults \in Seq(Ids \X {"completed", "cached", "failed"})
         /\ Clean /\ Len(stageResults) = stage - 1
<1>1. Stages \in Seq(STRING) /\ Len(Stages) \in Nat /\ DOMAIN Stages = 1..Len(Stages)
  BY StagesAssumption
<1>2. stage \in 1..Len(Stages)
  BY <1>1 DEF ResultInv
<1> QED BY <1>1, <1>2 DEF ResultInv, Id, Ids, Clean, Going

LEMMA FailBreaks ==
  ASSUME ResultInv, pc \in Inside, Fail, stage' = stage,
         published \subseteq published', published' \subseteq Ids
  PROVE  ResultInv' /\ pc' \in {"failed", "rejected"}
<1>1. /\ Len(Stages) \in Nat /\ stage \in 1..Len(Stages) /\ Id \in Ids /\ Clean
      /\ stageResults \in Seq(Ids \X {"completed", "cached", "failed"})
      /\ Len(stageResults) = stage - 1
  BY StageFacts
<1> DEFINE r == <<Id, "failed">>
<1>2. r \in Ids \X {"completed", "cached", "failed"}
  BY <1>1
<1>3. stageResults' = Append(stageResults, r) /\ pc' \in {"failed", "rejected"}
  BY DEF Fail
<1> HIDE DEF r
<1>4. /\ stageResults' \in Seq(Ids \X {"completed", "cached", "failed"})
      /\ Len(stageResults') = stage /\ stageResults'[stage] = r
      /\ \A i \in 1..(stage - 1) : stageResults'[i] = stageResults[i]
  BY <1>1, <1>2, <1>3
<1>5. Id' = Id
  BY DEF Id
<1>6. \A i \in 1..(stage - 1) : Good(i)'
  BY <1>1, <1>4 DEF Clean, Good
<1>7. Broken'
  BY <1>4, <1>5, <1>6 DEF Broken, r
<1> QED BY <1>1, <1>3, <1>4, <1>7 DEF ResultInv, Going, Inside

LEMMA CompleteGoesOn ==
  ASSUME ResultInv, pc \in Inside, NEW status \in {"completed", "cached"}, Complete(status),
         published \subseteq published', published' \subseteq Ids,
         status = "completed" => Id \in published'
  PROVE  ResultInv' /\ pc' \in {"next", "failed", "rejected"} /\ attempt' \in {attempt, 0}
<1>1. /\ Len(Stages) \in Nat /\ stage \in 1..Len(Stages) /\ Id \in Ids /\ Clean
      /\ stageResults \in Seq(Ids \X {"completed", "cached", "failed"})
      /\ Len(stageResults) = stage - 1 /\ Id = Stages[stage]
  BY StageFacts
<1>0. PICK k \in Nat : k = stage
  BY <1>1
<1> DEFINE r == <<Id, status>>
           f == <<Id, "failed">>
<1>2. /\ r \in Ids \X {"completed", "cached", "failed"} /\ f \in Ids \X {"completed", "cached", "failed"}
      /\ r[1] = Id /\ r[2] = status
  BY <1>1
<1>3. CASE stageResults' = Append(stageResults, r) /\ Advance
  <2>1. pc' = "next" /\ stage' = stage + 1 /\ attempt' = 0
    BY <1>3 DEF Advance, Goto
  <2> HIDE DEF r
  <2>2. /\ stageResults' \in Seq(Ids \X {"completed", "cached", "failed"})
        /\ Len(stageResults') = stage /\ stageResults'[stage] = r
        /\ \A i \in 1..(stage - 1) : stageResults'[i] = stageResults[i]
    BY <1>1, <1>2, <1>3
  <2>3. \A i \in 1..(stage - 1) : Good(i)'
    BY <1>1, <2>2 DEF Clean, Good
  <2>4. Good(k)'
    <3>1. \A i : i = k => /\ stageResults'[i][1] = Stages[i] /\ stageResults'[i][2] \in {"completed", "cached"}
                          /\ stageResults'[i][2] = "completed" => stageResults'[i][1] \in published'
      BY <1>0, <1>1, <1>2, <2>2
    <3> QED BY <3>1 DEF Good
  <2>5. \A i \in 1..stage : Good(i)'
    BY <1>0, <1>1, <2>3, <2>4
  <2>6. Clean'
    BY <1>1, <2>1, <2>2, <2>5 DEF Clean
  <2> QED BY <1>1, <2>1, <2>2, <2>6 DEF ResultInv, Inside
<1>4. CASE stageResults' = stageResults \o <<r, f>> /\ pc' \in {"failed", "rejected"} /\ UNCHANGED <<stage, attempt>>
  <2> DEFINE both == <<r, f>>
  <2>1. /\ both \in Seq(Ids \X {"completed", "cached", "failed"}) /\ Len(both) = 2
        /\ both[1] = r /\ both[2] = f
    BY <1>2
  <2>2. stageResults' = stageResults \o both
    BY <1>4
  <2> HIDE DEF both, r, f
  <2>3. /\ stageResults' \in Seq(Ids \X {"completed", "cached", "failed"})
        /\ Len(stageResults') = stage + 1
        /\ \A i \in 1..(stage + 1) : stageResults'[i] = IF i <= stage - 1 THEN stageResults[i]
                                                       ELSE both[i - (stage - 1)]
    <3>1. /\ stageResults \o both \in Seq(Ids \X {"completed", "cached", "failed"})
          /\ Len(stageResults \o both) = Len(stageResults) + Len(both)
          /\ \A i \in 1..(Len(stageResults) + Len(both)) :
               (stageResults \o both)[i] = IF i <= Len(stageResults) THEN stageResults[i]
                                           ELSE both[i - Len(stageResults)]
      BY <1>1, <2>1, ConcatProperties
    <3>2. Len(stageResults) = stage - 1 /\ Len(stageResults) + Len(both) = stage + 1
      BY <1>1, <2>1
    <3> QED BY <2>2, <3>1, <3>2
  <2>4. stageResults'[stage] = r /\ stageResults'[stage + 1] = f
        /\ \A i \in 1..(stage - 1) : stageResults'[i] = stageResults[i]
    <3>1. stage - (stage - 1) = 1 /\ (stage + 1) - (stage - 1) = 2
          /\ stage \in 1..(stage + 1) /\ stage + 1 \in 1..(stage + 1)
          /\ ~(stage <= stage - 1) /\ ~(stage + 1 <= stage - 1)
      BY <1>1
    <3>2. \A i \in 1..(stage - 1) : i \in 1..(stage + 1) /\ i <= stage - 1
      BY <1>1
    <3> QED BY <2>1, <2>3, <3>1, <3>2
  <2>5. \A i \in 1..(stage - 1) : Good(i)'
    BY <1>1, <2>4 DEF Clean, Good
  <2>6. Good(k)'
    <3>1. \A i : i = k => /\ stageResults'[i][1] = Stages[i] /\ stageResults'[i][2] \in {"completed", "cached"}
                          /\ stageResults'[i][2] = "completed" => stageResults'[i][1] \in published'
      BY <1>0, <1>1, <1>2, <2>4
    <3> QED BY <3>1 DEF Good
  <2>7. \A i \in 1..((stage + 1) - 1) : Good(i)'
    BY <1>0, <1>1, <2>5, <2>6
  <2>8. Id' = Id /\ stage' = stage /\ pc' \in {"failed", "rejected"} /\ attempt' = attempt
    BY <1>4 DEF Id
  <2>9. Broken'
    BY <2>3, <2>4, <2>7, <2>8 DEF Broken, f
  <2> QED BY <1>1, <2>3, <2>8, <2>9 DEF ResultInv, Going, Inside
<1> QED BY <1>3, <1>4 DEF Complete

(***************************************************************************)
(* The runner.                                                             *)
(***************************************************************************)
LEMMA NextStageStep ==
  ASSUME PipeInv, NextStage PROVE PipeInv'
<1>1. /\ pc = "next" /\ pc' \in {"completed", "cancelled", "enter", "rejected"}
      /\ UNCHANGED <<runVars, stage, value, attempt, budget, task, state, results, graph,
                     stageResults, published, cache>>
  BY DEF NextStage, Goto
<1>2. BudgetInv' /\ ValueInv' /\ TaskInv'
  BY <1>1, BudgetKept, ValueKept, TasksKept DEF PipeInv, Pcs, Going, Inside
<1>3. Clean /\ Clean'
  BY <1>1, CleanKept DEF PipeInv, ResultInv, Going
<1>4. CASE pc' = "completed" /\ stage > Len(Stages)
  <2>1. pc' = "completed" /\ stage' = stage /\ stage > Len(Stages) /\ ResultInv
    BY <1>1, <1>4 DEF PipeInv
  <2>2. pc' \notin Inside \cup {"failed", "rejected"}
    BY <2>1 DEF Inside
  <2> QED BY <1>1, <1>2, <1>3, <2>1, <2>2 DEF PipeInv, ResultInv
<1>5. CASE pc' \in {"cancelled", "enter", "rejected"} /\ stage <= Len(Stages)
  <2>1. pc' \notin {"completed", "failed"} /\ stage' = stage /\ stage <= Len(Stages) /\ ResultInv
    BY <1>1, <1>5 DEF PipeInv
  <2> QED BY <1>1, <1>2, <1>3, <2>1 DEF PipeInv, ResultInv
<1> QED BY <1>1, <1>4, <1>5 DEF NextStage, Goto

LEMMA RefuseStep ==
  ASSUME PipeInv, Refuse PROVE PipeInv'
<1>1. /\ pc = "enter" /\ Fail
      /\ UNCHANGED <<runVars, stage, value, attempt, budget, task, state, results, graph,
                     published, cache>>
  BY DEF Refuse
<1>2. ResultInv' /\ pc' \in {"failed", "rejected"}
  BY <1>1, FailBreaks DEF PipeInv, Inside, ResultInv
<1>3. BudgetInv' /\ ValueInv' /\ TaskInv'
  BY <1>1, <1>2, BudgetKept, ValueKept, TasksKept DEF PipeInv, Pcs
<1> QED BY <1>2, <1>3 DEF PipeInv

LEMMA KeyIsKey ==
  ASSUME ValueInv, Id \in Cacheable PROVE Key(Id, value.of) \in Keys
  BY DEF ValueInv, Keys

LEMMA CacheHitStep ==
  ASSUME PipeInv, CacheHit PROVE PipeInv'
<1>1. /\ pc = "enter" /\ pc \in Inside /\ Id \in Cacheable
      /\ UNCHANGED <<runVars, budget, task, state, results, graph, published, cache>>
  BY DEF CacheHit, Hit, Inside
<1> DEFINE entry == cache[Key(Id, value.of)]
<1>2. entry \in [of : Inputs \cup {Old, None}, valid : BOOLEAN] /\ entry.of # None
  BY <1>1, KeyIsKey DEF PipeInv, ValueInv, CacheHit, Hit
<1>3. CASE Admitted(entry.valid)
  <2>1. value' = entry /\ Complete("cached")
    BY <1>3 DEF CacheHit
  <2>2. /\ entry \in [of : Inputs \cup {Old}, valid : BOOLEAN]
        /\ mode = "enforce" => entry.valid
    BY <1>2, <1>3 DEF Admitted
  <2> HIDE DEF entry
  <2>3. ResultInv' /\ pc' \in {"next", "failed", "rejected"} /\ attempt' \in {attempt, 0}
    BY <1>1, <2>1, CompleteGoesOn DEF PipeInv, ResultInv
  <2>4. BudgetInv' /\ TaskInv'
    BY <1>1, <2>3, BudgetKept, TasksKept DEF PipeInv
  <2>5. ValueInv'
    BY <1>1, <2>1, <2>2, <2>3 DEF PipeInv, ValueInv, Pcs, Going, runVars
  <2> QED BY <2>3, <2>4, <2>5 DEF PipeInv
<1>4. CASE ~Admitted(entry.valid)
  <2>1. Fail /\ UNCHANGED <<value, stage, attempt>>
    BY <1>4 DEF CacheHit
  <2>2. ResultInv' /\ pc' \in {"failed", "rejected"}
    BY <1>1, <2>1, FailBreaks DEF PipeInv, ResultInv
  <2>3. BudgetInv' /\ ValueInv' /\ TaskInv'
    BY <1>1, <2>1, <2>2, BudgetKept, ValueKept, TasksKept DEF PipeInv, Pcs
  <2> QED BY <2>2, <2>3 DEF PipeInv
<1> QED BY <1>3, <1>4

(* The runner goes on inside of a stage, and only its place changes.       *)
LEMMA Walks ==
  ASSUME PipeInv, pc \in Inside \ {"task"}, pc' \in Inside \ {"task", "over"},
         UNCHANGED <<runVars, stage, value, attempt, budget, task, state, results, graph,
                     stageResults, published, cache>>
  PROVE  PipeInv'
<1>1. BudgetInv' /\ ValueInv' /\ TaskInv'
  BY BudgetKept, ValueKept, TasksKept, InsideIsGoing DEF PipeInv
<1>2. ResultInv'
  BY ResultsKept, StageFacts, InsideIsGoing DEF PipeInv, Going
<1> QED BY <1>1, <1>2 DEF PipeInv

LEMMA CacheMissStep ==
  ASSUME PipeInv, CacheMiss PROVE PipeInv'
  BY Walks DEF CacheMiss, Goto, Inside

LEMMA RunOutputStep ==
  ASSUME PipeInv, RunOutput PROVE PipeInv'
<1>1. /\ pc = "over" /\ pc' = "emit" /\ value' = [value EXCEPT !.valid = TRUE]
      /\ UNCHANGED <<runVars, stage, attempt, budget, task, state, results, graph,
                     stageResults, published, cache>>
  BY DEF RunOutput, Goto
<1>2. BudgetInv' /\ TaskInv'
  BY <1>1, BudgetKept, TasksKept DEF PipeInv
<1>3. ResultInv'
  BY <1>1, ResultsKept, StageFacts, InsideIsGoing DEF PipeInv, Going, Inside
<1>4. ValueInv'
  <2>1. value' \in [of : Inputs \cup {Old}, valid : BOOLEAN] /\ value'.valid
    BY <1>1 DEF PipeInv, ValueInv
  <2> QED BY <1>1, <2>1 DEF PipeInv, ValueInv, Pcs, Going, Inside, runVars
<1> QED BY <1>2, <1>3, <1>4 DEF PipeInv

LEMMA ModelFailsStep ==
  ASSUME PipeInv, ModelFails PROVE PipeInv'
<1>1. /\ pc = "call" /\ pc \in Inside /\ Fail
      /\ UNCHANGED <<runVars, stage, value, attempt, task, state, results, graph, published, cache>>
  BY DEF ModelFails, Inside
<1>2. BudgetInv'
  BY <1>1, BudgetOfCall DEF PipeInv, ModelFails
<1>3. ResultInv' /\ pc' \in {"failed", "rejected"}
  BY <1>1, FailBreaks DEF PipeInv, ResultInv
<1>4. ValueInv' /\ TaskInv'
  BY <1>1, <1>3, ValueKept, TasksKept DEF PipeInv, Pcs
<1> QED BY <1>2, <1>3, <1>4 DEF PipeInv

LEMMA ModelAnswersStep ==
  ASSUME PipeInv, ModelAnswers PROVE PipeInv'
<1>1. /\ pc = "call" /\ pc \in Inside
      /\ UNCHANGED <<runVars, stage, attempt, task, state, results, graph, published, cache>>
  BY DEF ModelAnswers, Inside
<1>2. BudgetInv'
  BY <1>1, BudgetOfCall DEF PipeInv, ModelAnswers
<1>3. PICK valid \in BOOLEAN :
        /\ value' = [of |-> value.of, valid |-> valid]
        /\ IF Admitted(valid) THEN Goto("emit") /\ UNCHANGED stageResults ELSE Fail
  BY DEF ModelAnswers
<1>4. value' \in [of : Inputs \cup {Old}, valid : BOOLEAN] /\ value'.valid = valid
  BY <1>3 DEF PipeInv, ValueInv
<1>5. CASE Admitted(valid)
  <2>1. pc' = "emit" /\ stageResults' = stageResults
    BY <1>3, <1>5 DEF Goto
  <2>2. ResultInv'
    BY <1>1, <2>1, ResultsKept, StageFacts, InsideIsGoing DEF PipeInv, Going, Inside
  <2>3. TaskInv'
    BY <1>1, <2>1, TasksKept DEF PipeInv
  <2>4. ValueInv'
    BY <1>1, <1>4, <1>5, <2>1 DEF PipeInv, ValueInv, Pcs, Going, Inside, Admitted, runVars
  <2> QED BY <1>2, <2>2, <2>3, <2>4 DEF PipeInv
<1>6. CASE ~Admitted(valid)
  <2>1. ResultInv' /\ pc' \in {"failed", "rejected"}
    BY <1>1, <1>3, <1>6, FailBreaks DEF PipeInv, ResultInv
  <2>2. TaskInv'
    BY <1>1, <2>1, TasksKept DEF PipeInv
  <2>3. ValueInv'
    BY <1>1, <1>4, <2>1 DEF PipeInv, ValueInv, Pcs, runVars
  <2> QED BY <1>2, <2>1, <2>2, <2>3 DEF PipeInv
<1> QED BY <1>5, <1>6

LEMMA EmitStep ==
  ASSUME PipeInv, Emit PROVE PipeInv'
<1>1. /\ pc = "emit" /\ pc \in Inside /\ Store
      /\ UNCHANGED <<runVars, value, budget, task, state, results, graph>>
  BY DEF Emit, Inside
<1>2. Id \in Ids /\ published \subseteq Ids
  BY <1>1, StageFacts DEF PipeInv, ResultInv
<1>3. /\ value \in [of : Inputs \cup {Old}, valid : BOOLEAN]
      /\ mode = "enforce" => value.valid
  BY <1>1 DEF PipeInv, ValueInv
<1>4. /\ cache' \in [Keys -> [of : Inputs \cup {Old, None}, valid : BOOLEAN]]
      /\ \A k \in Keys : ~lenient /\ cache'[k].of \in Inputs => cache'[k].valid
  <2>1. value \in [of : Inputs \cup {Old, None}, valid : BOOLEAN] /\ (~lenient => value.valid)
    BY <1>3, ModesAssumption DEF PipeInv, ValueInv
  <2>2. CASE Id \in Cacheable
    <3>1. cache' = [cache EXCEPT ![Key(Id, value.of)] = value]
      BY <1>1, <2>2 DEF Store
    <3>2. Key(Id, value.of) \in Keys
      BY <2>2, KeyIsKey DEF PipeInv
    <3> QED BY <1>3, <2>1, <3>1, <3>2 DEF PipeInv, ValueInv
  <2>3. CASE Id \notin Cacheable
    BY <1>1, <2>3 DEF Store, PipeInv, ValueInv
  <2> QED BY <2>2, <2>3
<1>5. ResultInv' /\ pc' \in {"next", "failed", "rejected"} /\ attempt' \in {attempt, 0}
  <2>1. CASE published' = published \cup {Id} /\ Complete("completed")
    <3>1. published \subseteq published' /\ published' \subseteq Ids /\ Id \in published'
      BY <1>2, <2>1
    <3> QED BY <1>1, <2>1, <3>1, CompleteGoesOn DEF PipeInv
  <2>2. CASE Fail /\ UNCHANGED <<published, stage, attempt>>
    BY <1>1, <1>2, <2>2, FailBreaks DEF PipeInv
  <2> QED BY <2>1, <2>2 DEF Emit
<1>6. BudgetInv' /\ TaskInv'
  BY <1>1, <1>5, BudgetKept, TasksKept DEF PipeInv
<1>7. ValueInv'
  BY <1>1, <1>3, <1>4, <1>5 DEF PipeInv, ValueInv, Pcs, Going, runVars
<1> QED BY <1>5, <1>6, <1>7 DEF PipeInv

(***************************************************************************)
(* The run stage.                                                          *)
(***************************************************************************)
LEMMA AskAgainStep ==
  ASSUME PipeInv, AskAgain PROVE PipeInv'
<1>1. /\ pc \in {"call", "task"} /\ ~GivesUp /\ Call("unparsable") /\ attempt' = attempt + 1
      /\ UNCHANGED <<runVars, stage, pc, value, task, state, results, graph, stageResults,
                     published, cache>>
  BY DEF AskAgain
<1>2. BudgetInv'
  BY <1>1, BudgetOfCall DEF PipeInv
<1>3. ValueInv'
  BY <1>1 DEF PipeInv, ValueInv, runVars
<1>4. ResultInv'
  BY <1>1, ResultsKept, StageFacts, InsideIsGoing DEF PipeInv, Inside
<1>5. TaskInv'
  <2>1. /\ ReportsFit' /\ Ordered' /\ SkippedFit' /\ (AtLimit <=> AtLimit')
        /\ \A t \in Tasks : Runnable(t) <=> Runnable(t)'
    BY <1>1, TasksStand DEF PipeInv, TaskInv
  <2>2. task \in Tasks => (Runnable(task) => Runnable(task)')
    BY <1>1 DEF Runnable, DepsIn, State
  <2>3. AtTask'
    BY <1>1, <2>1, <2>2 DEF PipeInv, TaskInv, AtTask
  <2> QED BY <2>1, <2>3 DEF TaskInv
<1> QED BY <1>2, <1>3, <1>4, <1>5 DEF PipeInv

(* Only the tasks change, inside of the run stage.                         *)
LEMMA TasksOnly ==
  ASSUME PipeInv, TaskInv', pc \in Inside, pc' \in Inside, attempt' \in {attempt, 0},
         UNCHANGED <<runVars, stage, value, budget, stageResults, published, cache>>
  PROVE  PipeInv'
<1>1. BudgetInv' /\ ValueInv'
  BY BudgetKept, ValueKept, InsideIsGoing DEF PipeInv
<1>2. ResultInv'
  BY ResultsKept, StageFacts, InsideIsGoing DEF PipeInv, Going
<1> QED BY <1>1, <1>2 DEF PipeInv

(* What a task waits for stays as it is when no failed one changes.        *)
LEMMA SkippedStays ==
  ASSUME NEW t \in Tasks, DepsIn(t, {"failed", "skipped"}), graph' = graph,
         \A d \in Tasks : state[d] \in {"failed", "skipped"} => state'[d] \in {"failed", "skipped"}
  PROVE  DepsIn(t, {"failed", "skipped"})'
<1>1. PICK d \in graph[t] : State(d) \in {"failed", "skipped"}
  BY DEF DepsIn
<1>2. State(d)' \in {"failed", "skipped"}
  BY <1>1 DEF State
<1> QED BY <1>1, <1>2 DEF DepsIn

LEMMA SkipAllStep ==
  ASSUME PipeInv, SkipAll PROVE PipeInv'
<1>1. /\ pc = "tasks" /\ AtLimit /\ pc' = "over"
      /\ state' = [t \in Tasks |-> IF state[t] = "pending" THEN "skipped" ELSE state[t]]
      /\ UNCHANGED <<runVars, stage, value, attempt, budget, task, results, graph, stageResults,
                     published, cache>>
  BY DEF SkipAll, Goto
<1>2. TaskInv
  BY DEF PipeInv
<1>3. /\ state' \in [Tasks -> {"pending", "done", "failed", "skipped"}]
      /\ \A t \in Tasks : state'[t] # "pending"
      /\ \A t \in Tasks : state'[t] \in {"done", "failed"} <=> state[t] \in {"done", "failed"}
      /\ \A t \in Tasks : state'[t] = "done" <=> state[t] = "done"
  BY <1>1, <1>2 DEF TaskInv, ReportsFit
<1>4. AtLimit' /\ \A t \in Tasks : Reported(t) <=> Reported(t)'
  BY <1>1 DEF AtLimit, Reported
<1>5. ReportsFit'
  BY <1>1, <1>2, <1>3, <1>4 DEF TaskInv, ReportsFit
<1>6. Ordered' /\ SkippedFit'
  BY <1>1, <1>2, <1>4 DEF TaskInv, Ordered, SkippedFit
<1>7. AtTask'
  BY <1>1, <1>2, <1>3 DEF TaskInv, AtTask
<1>8. TaskInv'
  BY <1>5, <1>6, <1>7 DEF TaskInv
<1> QED BY <1>1, <1>8, TasksOnly DEF Inside

LEMMA SkipTaskStep ==
  ASSUME PipeInv, NEW u \in Tasks, SkipTask(u) PROVE PipeInv'
<1>1. /\ pc = "tasks" /\ pc' = "tasks" /\ Skippable(u)
      /\ state' = [state EXCEPT ![u] = "skipped"]
      /\ UNCHANGED <<runVars, stage, value, attempt, budget, task, results, graph, stageResults,
                     published, cache>>
  BY DEF SkipTask
<1>2. TaskInv
  BY DEF PipeInv
<1>3. state[u] = "pending" /\ DepsIn(u, {"failed", "skipped"})
  BY <1>1 DEF Skippable
<1>4. /\ state' \in [Tasks -> {"pending", "done", "failed", "skipped"}]
      /\ \A t \in Tasks : state'[t] \in {"done", "failed"} <=> state[t] \in {"done", "failed"}
      /\ \A t \in Tasks : state'[t] = "done" <=> state[t] = "done"
      /\ \A t \in Tasks : state[t] \in {"failed", "skipped"} => state'[t] \in {"failed", "skipped"}
      /\ \A t \in Tasks : state'[t] = "skipped" <=> t = u \/ state[t] = "skipped"
  BY <1>1, <1>2, <1>3 DEF TaskInv, ReportsFit
<1>5. (AtLimit <=> AtLimit') /\ \A t \in Tasks : Reported(t) <=> Reported(t)'
  BY <1>1 DEF AtLimit, Reported
<1>6. \A t \in Tasks : DepsIn(t, {"failed", "skipped"}) => DepsIn(t, {"failed", "skipped"})'
  BY <1>1, <1>4, SkippedStays
<1>7. ReportsFit'
  BY <1>1, <1>2, <1>4, <1>5 DEF TaskInv, ReportsFit
<1>8. Ordered' /\ SkippedFit'
  BY <1>1, <1>2, <1>3, <1>4, <1>5, <1>6 DEF TaskInv, Ordered, SkippedFit
<1>9. AtTask'
  BY <1>1, <1>2 DEF TaskInv, AtTask
<1>10. TaskInv'
  BY <1>7, <1>8, <1>9 DEF TaskInv
<1> QED BY <1>1, <1>10, TasksOnly DEF Inside

(* A task is reported after what it depends on, and once.                  *)
LEMMA ReportKeeps ==
  ASSUME TaskInv, NEW u \in Tasks, NEW status \in {"completed", "blocked", "failed"},
         NEW id \in Tasks \cup Misnomers,
         Runnable(u), ~AtLimit, Report(u, id, status), graph' = graph,
         pc' \notin {"task", "over"}, task' = None
  PROVE  TaskInv'
<1> DEFINE r == [task |-> u, id |-> id, status |-> status]
           n == Len(results)
<1>1. /\ state \in [Tasks -> {"pending", "done", "failed", "skipped"}]
      /\ results \in Seq(Outputs)
      /\ n \in Nat /\ n < MaxTasks /\ MaxTasks \in Nat /\ DOMAIN results = 1..n
  BY LimitsAreNat DEF TaskInv, ReportsFit, AtLimit
<1>2. /\ state' = [state EXCEPT ![u] = IF status = "completed" THEN "done" ELSE "failed"]
      /\ results' = Append(results, r)
      /\ r \in Outputs /\ r.task = u /\ r.status = status
  BY DEF Report, Outputs
<1>3. state[u] = "pending" /\ ~Reported(u)
  BY DEF Runnable, TaskInv, ReportsFit
<1>4. \A d \in graph[u] : \E j \in 1..n : IsDone(results[j], d)
  <2> SUFFICES ASSUME NEW d \in graph[u] PROVE \E j \in 1..n : IsDone(results[j], d)
    OBVIOUS
  <2>1. State(d) \notin {"failed", "skipped", "pending"}
    BY DEF Runnable, DepsIn
  <2>2. d \in Tasks /\ state[d] = "done"
    BY <1>1, <2>1 DEF State
  <2> QED BY <1>1, <2>2 DEF TaskInv, ReportsFit
<1> HIDE DEF r
<1>5. /\ results' \in Seq(Outputs)
      /\ Len(results') = n + 1 /\ DOMAIN results' = 1..(n + 1) /\ results'[n + 1] = r
      /\ \A i \in 1..n : results'[i] = results[i]
  BY <1>1, <1>2
<1>6. /\ state' \in [Tasks -> {"pending", "done", "failed", "skipped"}]
      /\ state'[u] = IF status = "completed" THEN "done" ELSE "failed"
      /\ \A t \in Tasks \ {u} : state'[t] = state[t]
  BY <1>1, <1>2
<1>7. \A t : Reported(t)' <=> Reported(t) \/ t = u
  <2>1. \A i \in DOMAIN results' : i \in 1..n \/ i = n + 1
    BY <1>1, <1>5
  <2>2. \A i \in 1..n : i \in DOMAIN results'
    BY <1>1, <1>5
  <2>3. n + 1 \in DOMAIN results' /\ results'[n + 1].task = u
    BY <1>1, <1>2, <1>5
  <2> QED BY <1>1, <1>5, <2>1, <2>2, <2>3 DEF Reported
<1>8. \A t \in Tasks : state'[t] \in {"done", "failed"} <=> Reported(t)'
  BY <1>6, <1>7 DEF TaskInv, ReportsFit
<1>9. \A t \in Tasks : state'[t] = "done" => \E i \in DOMAIN results' : IsDone(results'[i], t)
  <2>0. /\ \A i \in 1..n : i \in DOMAIN results /\ i \in DOMAIN results'
        /\ \A i \in DOMAIN results : i \in 1..n
    BY <1>1, <1>5
  <2>a. ASSUME NEW t \in Tasks, state[t] = "done"
        PROVE  \E i \in DOMAIN results' : IsDone(results'[i], t)
    <3>1. PICK i \in DOMAIN results : IsDone(results[i], t)
      BY <2>a DEF TaskInv, ReportsFit
    <3>2. i \in DOMAIN results' /\ results'[i] = results[i]
      BY <1>5, <2>0
    <3> QED BY <3>1, <3>2
  <2>1. CASE status = "completed"
    <3>1. n + 1 \in DOMAIN results' /\ IsDone(results'[n + 1], u)
      BY <1>1, <1>2, <1>5, <2>1 DEF IsDone
    <3>2. \A t \in Tasks : state'[t] = "done" => t = u \/ state[t] = "done"
      BY <1>6
    <3> QED BY <2>a, <3>1, <3>2
  <2>2. CASE status # "completed"
    <3>1. \A t \in Tasks : state'[t] = "done" => state[t] = "done"
      BY <1>6, <2>2
    <3> QED BY <2>a, <3>1
  <2> QED BY <2>1, <2>2
<1>10. \A i, j \in DOMAIN results' : results'[i].task = results'[j].task => i = j
  <2>1. \A i \in 1..n : results'[i].task # u
    BY <1>1, <1>3, <1>5 DEF Reported
  <2>2. results'[n + 1].task = u
    BY <1>2, <1>5
  <2>3. \A i \in DOMAIN results' : i \in 1..n \/ i = n + 1
    BY <1>1, <1>5
  <2>4. \A i, j \in 1..n : results'[i].task = results'[j].task => i = j
    BY <1>1, <1>5 DEF TaskInv, ReportsFit
  <2> QED BY <2>1, <2>2, <2>3, <2>4
<1>11. \A i \in DOMAIN results' : results'[i].status = "completed" =>
         \A d \in graph[results'[i].task] :
           \E j \in 1..(i - 1) : IsDone(results'[j], d)
  <2>1. ASSUME NEW i \in 1..n, results'[i].status = "completed", NEW d \in graph[results'[i].task]
        PROVE  \E j \in 1..(i - 1) : IsDone(results'[j], d)
    <3>1. \E j \in 1..(i - 1) : IsDone(results[j], d)
      BY <1>1, <1>5, <2>1 DEF TaskInv, Ordered
    <3>2. \A j \in 1..(i - 1) : j \in 1..n
      BY <1>1
    <3> QED BY <1>5, <3>1, <3>2
  <2>2. ASSUME NEW d \in graph[u]
        PROVE  \E j \in 1..((n + 1) - 1) : IsDone(results'[j], d)
    <3>1. (n + 1) - 1 = n
      BY <1>1
    <3>2. PICK j \in 1..n : IsDone(results[j], d)
      BY <1>4
    <3> QED BY <1>5, <3>1, <3>2
  <2>3. \A i \in DOMAIN results' : i \in 1..n \/ i = n + 1
    BY <1>1, <1>5
  <2>4. results'[n + 1].task = u
    BY <1>2, <1>5
  <2> QED BY <2>1, <2>2, <2>3, <2>4
<1>12. \A t \in Tasks : state'[t] = "skipped" => AtLimit' \/ DepsIn(t, {"failed", "skipped"})'
  <2>1. AtLimit => AtLimit'
    BY <1>1, <1>5 DEF AtLimit
  <2>2. \A d \in Tasks : state[d] \in {"failed", "skipped"} => state'[d] \in {"failed", "skipped"}
    BY <1>3, <1>6
  <2>3. \A t \in Tasks : DepsIn(t, {"failed", "skipped"}) => DepsIn(t, {"failed", "skipped"})'
    BY <2>2, SkippedStays
  <2> QED BY <1>6, <2>1, <2>3 DEF TaskInv, SkippedFit
<1>13. Len(results') <= MaxTasks
  BY <1>1, <1>5
<1>14. ReportsFit'
  BY <1>5, <1>6, <1>8, <1>9, <1>10, <1>13 DEF ReportsFit
<1>15. Ordered' /\ SkippedFit'
  BY <1>11, <1>12 DEF Ordered, SkippedFit
<1>16. AtTask'
  BY DEF AtTask
<1> QED BY <1>14, <1>15, <1>16 DEF TaskInv

LEMMA DenyStep ==
  ASSUME PipeInv, NEW t \in Tasks, Deny(t) PROVE PipeInv'
<1>1. /\ pc = "tasks" /\ pc' = "tasks" /\ Runnable(t) /\ ~AtLimit /\ Report(t, t, "failed")
      /\ UNCHANGED <<runVars, stage, value, attempt, budget, task, graph, stageResults,
                     published, cache>>
  BY DEF Deny, Ready
<1>2. task' = None
  BY <1>1 DEF PipeInv, TaskInv, AtTask
<1>3. TaskInv'
  BY <1>1, <1>2, ReportKeeps DEF PipeInv
<1> QED BY <1>1, <1>3, TasksOnly DEF Inside

(* The stage is taken down by a hook: its tasks stay as they are.          *)
LEMMA TasksAbandoned ==
  ASSUME TaskInv, UNCHANGED <<state, results, graph>>, task' = None, pc' \notin {"task", "over"}
  PROVE  TaskInv'
<1>1. ReportsFit' /\ Ordered' /\ SkippedFit'
  BY TasksStand DEF TaskInv
<1>2. AtTask'
  BY DEF AtTask
<1> QED BY <1>1, <1>2 DEF TaskInv

LEMMA StartTaskStep ==
  ASSUME PipeInv, NEW u \in Tasks, StartTask(u) PROVE PipeInv'
<1>1. /\ pc = "tasks" /\ pc \in Inside /\ Runnable(u) /\ ~AtLimit /\ attempt' = 0
      /\ UNCHANGED <<runVars, stage, value, budget, state, results, graph, published, cache>>
  BY DEF StartTask, Ready, Inside
<1>2. CASE task' = u /\ pc' = "task" /\ UNCHANGED stageResults
  <2>1. /\ ReportsFit' /\ Ordered' /\ SkippedFit' /\ (AtLimit <=> AtLimit')
        /\ \A t \in Tasks : Runnable(t) <=> Runnable(t)'
    BY <1>1, TasksStand DEF PipeInv, TaskInv
  <2>2. Runnable(task)'
    BY <1>1, <1>2 DEF Runnable, DepsIn, State
  <2>3. AtTask'
    BY <1>1, <1>2, <2>1, <2>2 DEF AtTask
  <2>4. TaskInv'
    BY <2>1, <2>3 DEF TaskInv
  <2> QED BY <1>1, <1>2, <2>4, TasksOnly DEF Inside
<1>3. CASE Fail /\ UNCHANGED task
  <2>1. ResultInv' /\ pc' \in {"failed", "rejected"}
    BY <1>1, <1>3, FailBreaks DEF PipeInv, ResultInv
  <2>2. task' = None
    BY <1>1, <1>3 DEF PipeInv, TaskInv, AtTask
  <2>3. TaskInv'
    BY <1>1, <2>1, <2>2, TasksAbandoned DEF PipeInv
  <2>4. BudgetInv' /\ ValueInv'
    BY <1>1, <2>1, BudgetKept, ValueKept DEF PipeInv, Pcs
  <2> QED BY <2>1, <2>3, <2>4 DEF PipeInv
<1> QED BY <1>2, <1>3 DEF StartTask, Goto

LEMMA EndTaskStep ==
  ASSUME PipeInv, EndTask PROVE PipeInv'
<1>1. /\ pc = "task" /\ pc \in Inside /\ task' = None
      /\ UNCHANGED <<runVars, stage, value, attempt, graph, published, cache>>
      /\ task \in Tasks /\ Runnable(task) /\ ~AtLimit
  BY DEF EndTask, Inside, PipeInv, TaskInv, AtTask
<1>a. \E reply : \E id \in Tasks \cup Misnomers, status \in {"completed", "blocked", "failed"} :
        Call(reply) /\ TaskEnds(id, status)
  BY <1>1 DEF EndTask
<1>2. PICK reply : \E id \in Tasks \cup Misnomers, status \in {"completed", "blocked", "failed"} :
        Call(reply) /\ TaskEnds(id, status)
  BY <1>a
<1>b. PICK id \in Tasks \cup Misnomers, status \in {"completed", "blocked", "failed"} :
        TaskEnds(id, status)
  BY <1>2
<1>3. BudgetInv'
  BY <1>1, <1>2, BudgetOfCall DEF PipeInv
<1>4. CASE Report(task, id, status) /\ pc' = "tasks" /\ UNCHANGED stageResults
  <2>1. TaskInv'
    BY <1>1, <1>4, ReportKeeps DEF PipeInv
  <2>2. ValueInv'
    BY <1>1, <1>4, ValueKept DEF PipeInv, Pcs, Going, Inside
  <2>3. ResultInv'
    BY <1>1, <1>4, ResultsKept, StageFacts, InsideIsGoing DEF PipeInv, Going, Inside
  <2> QED BY <1>3, <2>1, <2>2, <2>3 DEF PipeInv
<1>5. CASE Fail /\ UNCHANGED <<state, results>>
  <2>1. ResultInv' /\ pc' \in {"failed", "rejected"}
    BY <1>1, <1>5, FailBreaks DEF PipeInv, ResultInv
  <2>2. TaskInv'
    BY <1>1, <1>5, <2>1, TasksAbandoned DEF PipeInv
  <2>3. ValueInv'
    BY <1>1, <2>1, ValueKept DEF PipeInv, Pcs
  <2> QED BY <1>3, <2>1, <2>2, <2>3 DEF PipeInv
<1> QED BY <1>b, <1>4, <1>5 DEF TaskEnds, Goto

LEMMA TasksOverStep ==
  ASSUME PipeInv, TasksOver PROVE PipeInv'
<1>1. /\ pc = "tasks" /\ pc' = "over" /\ \A t \in Tasks : state[t] # "pending"
      /\ UNCHANGED <<runVars, stage, value, attempt, budget, task, state, results, graph,
                     stageResults, published, cache>>
  BY DEF TasksOver, Goto
<1>2. ReportsFit' /\ Ordered' /\ SkippedFit'
  BY <1>1, TasksStand DEF PipeInv, TaskInv
<1>3. AtTask'
  BY <1>1 DEF PipeInv, TaskInv, AtTask
<1>4. TaskInv'
  BY <1>2, <1>3 DEF TaskInv
<1> QED BY <1>1, <1>4, TasksOnly DEF Inside

(***************************************************************************)
(* Around the runs.                                                        *)
(***************************************************************************)
LEMMA Stays ==
  ASSUME PipeInv, UNCHANGED <<runVars, stage, pc, value, attempt, budget, task, state, results, graph,
                              stageResults, published, cache>>
  PROVE  PipeInv'
<1>1. BudgetInv' /\ ValueInv'
  BY DEF PipeInv, BudgetInv, ValueInv, runVars
<1>2. TaskInv'
  <2>1. /\ ReportsFit' /\ Ordered' /\ SkippedFit' /\ (AtLimit <=> AtLimit')
        /\ \A t \in Tasks : Runnable(t) <=> Runnable(t)'
    BY TasksStand DEF PipeInv, TaskInv
  <2>2. Runnable(task) => Runnable(task)'
    BY DEF Runnable, DepsIn, State
  <2>3. AtTask'
    BY <2>1, <2>2 DEF PipeInv, TaskInv, AtTask
  <2> QED BY <2>1, <2>3 DEF TaskInv
<1>3. ResultInv'
  <2>1. (Clean => Clean') /\ (Broken => Broken')
    BY DEF Clean, Broken, Good, Id
  <2> QED BY <2>1 DEF PipeInv, ResultInv
<1> QED BY <1>1, <1>2, <1>3 DEF PipeInv

LEMMA AbortStep ==
  ASSUME PipeInv, Abort PROVE PipeInv'
  BY Stays DEF Abort

(* A run that begins holds nothing but its input.                          *)
LEMMA FreshTasks ==
  ASSUME state = [t \in Tasks |-> "pending"], results = <<>>, task = None, pc = "next"
  PROVE  TaskInv
<1>1. /\ results \in Seq(Outputs) /\ Len(results) = 0
      /\ DOMAIN results = {}
  OBVIOUS
<1>2. \A t \in Tasks : ~Reported(t)
  BY <1>1 DEF Reported
<1> QED BY <1>1, <1>2, LimitsAreNat DEF TaskInv, ReportsFit, Ordered, SkippedFit, AtTask

LEMMA FreshResults ==
  ASSUME stage = 1, stageResults = <<>>, published = {}, pc = "next"
  PROVE  ResultInv
<1>1. Len(Stages) \in Nat /\ stageResults \in Seq(Ids \X {"completed", "cached", "failed"})
      /\ Len(stageResults) = 0
  BY StagesAssumption
<1>2. Clean
  BY <1>1 DEF Clean
<1> QED BY <1>1, <1>2 DEF ResultInv, Inside, Going

LEMMA InvInit ==
  ASSUME Init PROVE PipeInv
<1>1. BudgetInv
  BY LimitsAreNat DEF Init, BudgetInv
<1>2. TaskInv /\ ResultInv
  BY FreshTasks, FreshResults DEF Init
<1>3. ValueInv
  <2>1. \A k \in Keys : cache[k].of \notin Inputs
    BY MarksAssumption DEF Init
  <2>2. cache \in [Keys -> [of : Inputs \cup {Old, None}, valid : BOOLEAN]]
    BY DEF Init
  <2>3. value \in [of : Inputs \cup {Old}, valid : BOOLEAN] /\ value.valid
    BY DEF Init
  <2>4. run \in 1..MaxRuns /\ pc = "next" /\ mode \in Modes
    BY LimitsAreNat DEF Init
  <2>5. lenient \in BOOLEAN /\ (mode = "warn" => lenient)
    BY Zenon DEF Init
  <2> QED BY <2>1, <2>2, <2>3, <2>4, <2>5 DEF ValueInv, Pcs, Going
<1> QED BY <1>1, <1>2, <1>3 DEF PipeInv

LEMMA NextRunStep ==
  ASSUME PipeInv, NextRun PROVE PipeInv'
<1>1. /\ Reset /\ cache' = cache /\ run < MaxRuns /\ run' = run + 1
      /\ mode' \in Modes /\ lenient' = (lenient \/ mode' = "warn")
  BY DEF NextRun
<1>2. BudgetInv'
  BY <1>1, LimitsAreNat DEF BudgetInv, Reset
<1>3. TaskInv'
  <2>1. /\ state' = [t \in Tasks |-> "pending"] /\ results' = <<>> /\ task' = None /\ pc' = "next"
    BY <1>1 DEF Reset
  <2>2. /\ results' \in Seq(Outputs) /\ Len(results') = 0
        /\ DOMAIN results' = {}
    BY <2>1
  <2>3. \A t \in Tasks : ~Reported(t)'
    BY <2>2 DEF Reported
  <2> QED BY <2>1, <2>2, <2>3, LimitsAreNat DEF TaskInv, ReportsFit, Ordered, SkippedFit, AtTask
<1>4. ResultInv'
  <2>1. /\ stage' = 1 /\ stageResults' = <<>> /\ published' = {} /\ pc' = "next"
    BY <1>1 DEF Reset
  <2>2. Len(Stages) \in Nat /\ stageResults' \in Seq(Ids \X {"completed", "cached", "failed"})
        /\ Len(stageResults') = 0
    BY <2>1, StagesAssumption
  <2>3. Clean'
    BY <2>1, <2>2 DEF Clean
  <2> QED BY <2>1, <2>2, <2>3 DEF ResultInv, Inside, Going
<1>5. ValueInv'
  <2>1. value' \in [of : Inputs \cup {Old}, valid : BOOLEAN] /\ value'.valid /\ pc' = "next"
    BY <1>1 DEF Reset
  <2>2. run' \in 1..MaxRuns
    BY <1>1, LimitsAreNat DEF PipeInv, ValueInv
  <2> QED BY <1>1, <2>1, <2>2 DEF PipeInv, ValueInv, Pcs, Going
<1> QED BY <1>2, <1>3, <1>4, <1>5 DEF PipeInv

LEMMA InvNext ==
  ASSUME PipeInv, [Next]_vars PROVE PipeInv'
<1>1. CASE UNCHANGED vars
  BY <1>1, Stays DEF vars, runVars
<1>2. CASE Abort \/ NextRun
  BY <1>2, AbortStep, NextRunStep
<1>3. CASE Runner
  BY <1>3, NextStageStep, RefuseStep, CacheHitStep, CacheMissStep, ModelFailsStep, AskAgainStep,
     ModelAnswersStep, SkipAllStep, TasksOverStep, RunOutputStep, EndTaskStep, EmitStep,
     SkipTaskStep, DenyStep, StartTaskStep DEF Runner
<1> QED BY <1>1, <1>2, <1>3 DEF Next

(* What a run keeps fits together at every place of the runner (runner.ts, *)
(* agent.ts, stages/run.ts).                                               *)
THEOREM PipeInvariant == Spec => []PipeInv
BY InvInit, InvNext, PTL DEF Spec

(* No task runs before what it depends on, none is executed twice, none is *)
(* forgotten, whatever ids the answers carry (stages/run.ts:68-75).        *)
THEOREM TasksKeepTheirOrder == Spec => []TasksInOrder
<1>1. PipeInv => TasksInOrder
  <2> SUFFICES ASSUME TaskInv PROVE TasksInOrder
    BY DEF PipeInv
  <2>1. NoTaskForgotten
    <3> SUFFICES ASSUME pc = "over" PROVE /\ Len(results) <= MaxTasks
                   /\ \A t \in Tasks : Reported(t) \/ (state[t] = "skipped" /\ (AtLimit \/ DepsIn(t, {"failed", "skipped"})))
      BY DEF NoTaskForgotten, Reported
    <3> QED BY DEF TaskInv, ReportsFit, SkippedFit, AtTask
  <2>2. task # None => \A d \in graph[task] : State(d) = "done"
    <3> SUFFICES ASSUME task # None, NEW d \in graph[task] PROVE State(d) = "done"
      OBVIOUS
    <3>1. State(d) \notin {"failed", "skipped", "pending"}
      BY DEF TaskInv, AtTask, Runnable, DepsIn
    <3> QED BY <3>1 DEF State, TaskInv, ReportsFit
  <2>3. /\ \A i, j \in DOMAIN results : results[i].task = results[j].task => i = j
        /\ \A i \in DOMAIN results : results[i].status = "completed" =>
             \A d \in graph[results[i].task] :
               \E j \in 1..(i - 1) : results[j].task = d /\ results[j].status = "completed"
    BY DEF TaskInv, ReportsFit, Ordered, IsDone
  <2> QED BY <2>1, <2>2, <2>3 DEF TasksInOrder
<1> QED BY <1>1, PipeInvariant, PTL

(* Whatever is retried, no call is made beyond the number allowed, and the *)
(* cost passes its limit by less than one call (budget around the provider).*)
THEOREM BudgetIsKept == Spec => []WithinBudget
<1>1. PipeInv => TypeOK
  BY DEF PipeInv, BudgetInv, ValueInv, TaskInv, ReportsFit, AtTask, ResultInv, TypeOK, Ids
<1>2. PipeInv => WithinBudget
  BY <1>1 DEF PipeInv, BudgetInv, WithinBudget
<1> QED BY <1>2, PipeInvariant, PTL

(* The results of a run are of its stages, in their order, and a failure   *)
(* is the last; what is reported completed has been published (runner.ts). *)
THEOREM ResultsKeepTheirOrder == Spec => []ResultsInOrder
<1>1. PipeInv => Clean \/ Broken
  BY DEF PipeInv, ValueInv, ResultInv, Pcs
<1>2. PipeInv => ResultsInOrder
  <2> SUFFICES ASSUME PipeInv PROVE ResultsInOrder
    OBVIOUS
  <2> DEFINE n == Len(stageResults)
  <2>1. /\ n \in Nat /\ DOMAIN stageResults = 1..n /\ stage \in Nat /\ Len(Stages) \in Nat
        /\ stage <= Len(Stages) + 1
    BY StagesAssumption DEF PipeInv, ResultInv
  <2>2. CASE Clean
    <3>1. n = stage - 1 /\ \A i \in 1..n : Good(i)
      BY <2>2 DEF Clean
    <3>2. \A i \in 1..n : stageResults[i][2] # "failed" /\ stageResults[i][1] = Stages[i]
      BY <3>1 DEF Good
    <3>3. CompletedIsPublished
      BY <2>1, <3>1 DEF CompletedIsPublished, Good
    <3>4. pc = "completed" => n = Len(Stages)
      BY <2>1, <3>1 DEF PipeInv, ResultInv
    <3>5. pc = "failed" => FALSE
      <4> SUFFICES ASSUME pc = "failed" PROVE FALSE
        OBVIOUS
      <4>1. PICK k \in {stage, stage + 1} : n = k
        BY DEF PipeInv, ResultInv, Broken
      <4> QED BY <2>1, <3>1, <4>1
    <3> QED BY <3>2, <3>3, <3>4, <3>5 DEF ResultsInOrder
  <2>3. CASE Broken /\ ~Clean
    <3>1. PICK k \in {stage, stage + 1} :
            /\ n = k /\ stageResults[k] = <<Id, "failed">>
            /\ \A i \in 1..(k - 1) : Good(i)
      BY <2>3 DEF Broken
    <3>2. pc \in {"failed", "rejected"}
      BY <2>3 DEF PipeInv, ValueInv, ResultInv, Pcs
    <3>3. n > 0
      BY <2>1, <3>1 DEF PipeInv, ResultInv
    <3>4. stageResults[n][1] = Id /\ stageResults[n][2] = "failed"
      BY <3>1
    <3>5. \A i \in 1..n : i = n \/ i \in 1..(k - 1)
      BY <2>1, <3>1
    <3>6. \A i \in 1..n : stageResults[i][2] = "failed" => i = n
      BY <3>1, <3>5 DEF Good
    <3>7. \A i \in 1..n : stageResults[i][2] # "failed" => stageResults[i][1] = Stages[i]
      BY <3>1, <3>4, <3>5 DEF Good
    <3>8. CompletedIsPublished
      BY <2>1, <3>1, <3>4, <3>5 DEF CompletedIsPublished, Good
    <3> QED BY <3>2, <3>3, <3>4, <3>6, <3>7, <3>8 DEF ResultsInOrder
  <2> QED BY <1>1, <2>2, <2>3
<1> QED BY <1>2, PipeInvariant, PTL

(* A run that enforces its schemas hands on nothing that does not validate,*)
(* and nothing of the kind is cached unless a run has only warned          *)
(* (runner.ts, packages/cache).                                            *)
THEOREM InvalidNeverEnters == Spec => []InvalidStaysOut
<1>1. PipeInv => InvalidStaysOut
  BY DEF PipeInv, ValueInv, InvalidStaysOut
<1> QED BY <1>1, PipeInvariant, PTL
=============================================================================
