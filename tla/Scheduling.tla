------------------------------ MODULE Scheduling ------------------------------
(***************************************************************************)
(* Preflight and the scheduler one after the other.  A document is drawn;  *)
(* if preflight finds no blocker its plan is scheduled: wave after wave    *)
(* ends, any of its tasks done or failed.  ParallelRun has the loop that   *)
(* does it, with its workers, failures and records; here is what the pure  *)
(* functions owe each other, for any documents.                            *)
(***************************************************************************)
EXTENDS Preflight, FiniteSets

CONSTANTS
  Names,        \* the ids that a document uses
  Segments,     \* what may stand between two slashes of a path
  Docs,         \* the documents that are drawn
  MaxAtOnce     \* limit of a wave

(* A task and a document as the schemas of packages/shared have them; the  *)
(* order of priorities is that of dag.ts.                                  *)
Types == {"research", "implementation", "test", "docs", "review"}

Path ==
  [padded: BOOLEAN, mark: {"none", "backslash", "glob", "home"}, segs: Seq(Segments) \ {<<>>}]

PlanTask ==
  [id: Names, dependsOn: Seq(Names), files: Seq(Path), priority: {0, 1, 2}, type: Types]

PlanOutput ==
  [status: {"completed", "awaiting_human"}, first: Names \union {None}, tasks: Seq(PlanTask)]

ASSUME DocsAssumption == \A d \in Docs : d \in PlanOutput
ASSUME MaxAtOnceAssumption == MaxAtOnce \in Nat \ {0}

VARIABLES
  doc,          \* the document
  outcome,      \* the status of every task of its plan
  members,      \* the wave
  failed        \* the tasks that have failed

scheduleVars == <<doc, outcome, members, failed>>

(* The plan of the document, as the scheduler has it.                      *)
DocPlan == PlanOf(doc)

ScheduleInit ==
  /\ doc \in Docs
  /\ failed = {}
  /\ IF Blockers(doc) = {}
     THEN /\ outcome = [t \in IdsOf(doc.tasks) |-> "pending"]
          /\ members = NextWave(DocPlan, outcome, MaxAtOnce)
     ELSE outcome = <<>> /\ members = <<>>

(* What the end of task t makes of the statuses, when those in bad fail: a *)
(* failure skips what depends on it (run-parallel.ts:726-729).             *)
Ended(plan, bad, s, t) ==
  IF t \in bad THEN AutoSkipDependents(plan, [s EXCEPT ![t] = "failed"], t)
  ELSE [s EXCEPT ![t] = "done"]

(* The tasks of a wave, one after the other.                               *)
AfterWave(plan, bad, state, wave) ==
  FoldLeft(LAMBDA s, t : Ended(plan, bad, s, t), state, wave)

WaveEnds(bad) ==
  /\ members # <<>>
  /\ outcome' = AfterWave(DocPlan, bad, outcome, members)
  /\ members' = NextWave(DocPlan, outcome', MaxAtOnce)
  /\ failed' = failed \union bad
  /\ UNCHANGED doc

ScheduleNext == \E bad \in SUBSET Range(members) : WaveEnds(bad)

ScheduleSpec == ScheduleInit /\ [][ScheduleNext]_scheduleVars

-----------------------------------------------------------------------------
(* Preflight has let the document through.                                 *)
Admitted == DOMAIN outcome # {}

(* As drawn: nothing of it has run.                                        *)
Fresh == \A t \in DOMAIN outcome : outcome[t] = "pending"

(* Members of a wave never own each other's files, and a wave leaves out   *)
(* nothing that could join it (dag.ts:29-35).                              *)
WaveIsRight ==
  Admitted => /\ IsSafeWave(DocPlan, outcome, MaxAtOnce, members)
              /\ IsGreedyWave(DocPlan, outcome, MaxAtOnce, members)

(* Task u is in every set that has what t depends on, and with a task what *)
(* that one depends on: a chain of dependencies leads from t to u.         *)
LeadsTo(tasks, t, u) ==
  \A S \in SUBSET IdsOf(tasks) :
    (Others(tasks, t) \subseteq S /\ \A x \in S : Others(tasks, x) \subseteq S) => u \in S

(* A wave is empty only when every task has been decided, and a task is    *)
(* skipped exactly when it needs, through others, one that failed: the     *)
(* cascade of failures leaves no task pending for ever and takes none that *)
(* could still run (dag.ts:58-79 with run-parallel.ts:562).                *)
EmptyWaveMeansDecided ==
  Admitted =>
    /\ members = <<>> => \A t \in IdsOf(doc.tasks) : outcome[t] # "pending"
    /\ \A t \in IdsOf(doc.tasks) :
         outcome[t] = "skipped" <=> \E u \in failed : LeadsTo(doc.tasks, t, u)

(* A cycle of a document: at least two tasks, each of which depends on the *)
(* next, and the last on the first.                                        *)
IsCycle(tasks, cycle) ==
  /\ Len(cycle) > 2 /\ cycle[1] = Last(cycle) /\ IsInjective(Front(cycle))
  /\ \A i \in 1..(Len(cycle) - 1) : cycle[i+1] \in Others(tasks, cycle[i])

(* The graph of a document as a plan, own and unknown names left out.      *)
GraphOf(tasks) ==
  [order     |-> [i \in DOMAIN tasks |-> tasks[i].id],
   dependsOn |-> [id \in IdsOf(tasks) |-> Others(tasks, id)]]

(* A path in the one spelling that preflight accepts.                      *)
IsLiteral(raw) ==
  /\ ~raw.padded /\ raw.mark = "none"
  /\ Range(raw.segs) \intersect {Blank, Here, Up} = {}

(* What findCycle returns is a cycle of the document, and it returns one   *)
(* if there is any; preflight blocks a document exactly when it is         *)
(* incomplete, its graph is not one the scheduler can finish, its          *)
(* recommended task does not exist, or a path has another spelling than    *)
(* the literal one (plan-preflight.ts:235-331, 335-338).  A recommended    *)
(* task nothing is said of can be the first to run.                        *)
PreflightIsExact ==
  LET tasks == doc.tasks
      cycle == FindCycle(tasks)
  IN  Fresh =>
      /\ cycle = <<>> <=> Acyclic(GraphOf(tasks))
      /\ cycle # <<>> => IsCycle(tasks, cycle)
      /\ Blockers(doc) = {} <=>
           /\ doc.status = "completed"
           /\ WellFormedPlan(DocPlan)
           /\ doc.first \in IdsOf(tasks) \union {None}
           /\ \A i \in DOMAIN tasks : \A raw \in Range(tasks[i].files) : IsLiteral(raw)
      /\ (Blockers(doc) = {} /\ GraphWarnings(doc) = {}) =>
           DocPlan.dependsOn[doc.first] = {}

(* The file a spelling leads to from the workspace, step by step.          *)
Reached(raw) ==
  FoldLeft(LAMBDA at, s : IF s \in {Blank, Here} THEN at
                          ELSE IF s = Up THEN SubSeq(at, 1, Len(at) - 1)
                          ELSE Append(at, s), <<>>, raw.segs)

ReachedBy(task) == {Reached(raw) : raw \in Range(task.files)}

(* Warned of both, or of one of them, or nothing expected of one.          *)
WarnedOf(tasks, overlaps, t, u) ==
  \/ {t.id, u.id} \in overlaps
  \/ \E x \in {t, u} :
       \/ x.files = <<>> /\ x.type \in {"research", "review"}
       \/ [code |-> "task.files.none", task |-> x.id] \in FileWarnings(tasks)

(* In a document preflight lets through the literal comparison of the      *)
(* scheduler is enough: tasks that reach the same file under whatever      *)
(* spelling are never in one wave, and the user was warned of them unless  *)
(* one needs the other; nor is a task kept out of a wave with room         *)
(* without a warning about it (plan-preflight.ts:335-338, 448-451).        *)
OwnersAreKnown ==
  LET tasks == doc.tasks
      overlaps == Overlaps(tasks)
  IN  Admitted =>
        /\ \A i, j \in DOMAIN tasks :
             LET t == tasks[i]
                 u == tasks[j]
             IN  (i # j /\ ReachedBy(t) \intersect ReachedBy(u) # {}) =>
                   /\ ~({t.id, u.id} \subseteq Range(members))
                   /\ {t.id, u.id} \in overlaps <=>
                        ~LeadsTo(tasks, t.id, u.id) /\ ~LeadsTo(tasks, u.id, t.id)
        /\ \A i \in DOMAIN tasks :
             (/\ tasks[i].id \notin Range(members) /\ Len(members) < MaxAtOnce
              /\ IsRunnable(DocPlan, outcome, tasks[i].id)) =>
               \E j \in DOMAIN tasks : /\ tasks[j].id \in Range(members)
                                       /\ WarnedOf(tasks, overlaps, tasks[i], tasks[j])
=============================================================================
