------------------------------- MODULE TaskDag -------------------------------
(***************************************************************************)
(* The scheduler of a parallel run (packages/cli/src/commands/dag.ts):     *)
(* which pending tasks form the next wave, and which are skipped when one  *)
(* fails.  Pure functions of a plan and the status of its tasks.           *)
(*                                                                         *)
(* A plan is a record: order, the sequence of its task ids; dependsOn and  *)
(* files, functions to sets; priority, 0 (high), 1 (medium) or 2 (low).    *)
(***************************************************************************)
EXTENDS Naturals, SequencesExt

TaskStatus == {"pending", "done", "skipped", "failed"}

TasksOf(plan) == Range(plan.order)

(* Pending, and every dependency is done.                                  *)
IsRunnable(plan, state, t) ==
  /\ state[t] = "pending"
  /\ \A d \in plan.dependsOn[t] : state[d] = "done"

(* The runnable tasks of one priority, in the order of the plan.           *)
OfPriority(plan, state, n) ==
  FoldLeft(LAMBDA ready, t : IF plan.priority[t] = n /\ IsRunnable(plan, state, t)
                             THEN Append(ready, t) ELSE ready,
           <<>>, plan.order)

(* The runnable tasks by priority, the order of the plan breaking ties.    *)
ParallelRunnableTasks(plan, state) ==
  OfPriority(plan, state, 0) \o OfPriority(plan, state, 1) \o OfPriority(plan, state, 2)

Disjoint(plan, t, u) == plan.files[t] \intersect plan.files[u] = {}

(* Mutant: nothing keeps others from joining a task without files. *)
JoinsAnyDisjoint(plan, wave, t, maxParallel) ==
  /\ Len(wave) < maxParallel
  /\ plan.files[t] = {} => wave = <<>>
  /\ \A u \in Range(wave) : Disjoint(plan, t, u)

(* A task joins while there is room and it claims no file of the wave; one *)
(* that declares no files owns everything and runs alone.                  *)
Joins(plan, wave, t, maxParallel) ==
  /\ Len(wave) < maxParallel
  /\ plan.files[t] = {} => wave = <<>>
  /\ \A u \in Range(wave) : plan.files[u] # {} /\ Disjoint(plan, t, u)

NextWave(plan, state, maxParallel) ==
  FoldLeft(LAMBDA wave, t : IF Joins(plan, wave, t, maxParallel)
                            THEN Append(wave, t) ELSE wave,
           <<>>, ParallelRunnableTasks(plan, state))

(* Mutant: a dependent is reached only when all it depends on is. *)
CascadeOfAll(plan, state, id) ==
  LET reach[n \in 0..Len(plan.order)] ==
        IF n = 0 THEN {id}
        ELSE reach[n-1] \union
             {t \in TasksOf(plan) : /\ state[t] = "pending"
                                    /\ plan.dependsOn[t] # {}
                                    /\ plan.dependsOn[t] \subseteq reach[n-1]}
  IN  reach[Len(plan.order)] \ {id}

(* The tasks cascade() reaches from `id`: dependents that are pending, and *)
(* their dependents in turn.  A chain of them is no longer than the plan.  *)
Cascade(plan, state, id) ==
  LET reach[n \in 0..Len(plan.order)] ==
        IF n = 0 THEN {id}
        ELSE reach[n-1] \union
             {t \in TasksOf(plan) : /\ state[t] = "pending"
                                    /\ plan.dependsOn[t] \intersect reach[n-1] # {}}
  IN  reach[Len(plan.order)] \ {id}

(* Mutant: only the direct dependents are skipped. *)
SkipDirectDependents(plan, state, id) ==
  [t \in DOMAIN state |->
     IF state[t] = "pending" /\ id \in plan.dependsOn[t] THEN "skipped" ELSE state[t]]

AutoSkipDependents(plan, state, id) ==
  [t \in DOMAIN state |->
     IF state[t] = "pending" /\ t \in Cascade(plan, state, id)
     THEN "skipped" ELSE state[t]]

(* findCycle (core/plan-preflight.ts): no task reaches itself through its  *)
(* dependencies, i.e. the tasks can be ranked with dependencies below.     *)
Acyclic(plan) ==
  LET below[n \in 0..Len(plan.order)] ==
        IF n = 0 THEN {}
        ELSE {t \in TasksOf(plan) : plan.dependsOn[t] \subseteq below[n-1]}
  IN  below[Len(plan.order)] = TasksOf(plan)

(* What preflight lets through: some task, no duplicate id, no unknown or   *)
(* self dependency, no cycle (checkTaskGraph).                             *)
WellFormedPlan(plan) ==
  /\ plan.order # <<>>
  /\ IsInjective(plan.order)
  /\ \A t \in TasksOf(plan) : /\ plan.dependsOn[t] \subseteq TasksOf(plan)
                              /\ t \notin plan.dependsOn[t]
  /\ Acyclic(plan)

-----------------------------------------------------------------------------
(* Promised of a wave.                                                     *)

(* Before, in the order getParallelRunnableTasks sorts by.                 *)
Precedes(plan, t, u) ==
  LET at(x) == CHOOSE i \in DOMAIN plan.order : plan.order[i] = x
  IN  \/ plan.priority[t] < plan.priority[u]
      \/ plan.priority[t] = plan.priority[u] /\ at(t) < at(u)

(* Tasks that can run, each once and no more than allowed, of which no two *)
(* claim the same file, and one without declared files has the wave to     *)
(* itself: concurrent workers do not own each other's files.               *)
IsSafeWave(plan, state, max, wave) ==
  /\ IsInjective(wave) /\ Len(wave) <= max
  /\ \A t \in Range(wave) : t \in TasksOf(plan) /\ IsRunnable(plan, state, t)
  /\ \A i, j \in DOMAIN wave : i # j =>
       /\ Disjoint(plan, wave[i], wave[j])
       /\ plan.files[wave[i]] # {}

(* t cannot join: members that go before it leave no room, or one of them  *)
(* claims a file of t, or one of the two must run alone.                   *)
IsKeptOut(plan, max, wave, t) ==
  \/ Len(wave) = max /\ \A u \in Range(wave) : Precedes(plan, u, t)
  \/ \E u \in Range(wave) :
       /\ Precedes(plan, u, t)
       /\ ~Disjoint(plan, t, u) \/ plan.files[t] = {} \/ plan.files[u] = {}

(* The wave is the greedy one: nothing that can run is left out for less.  *)
IsGreedyWave(plan, state, max, wave) ==
  \A t \in TasksOf(plan) \ Range(wave) :
    IsRunnable(plan, state, t) => IsKeptOut(plan, max, wave, t)
=============================================================================
