---------------------------- MODULE AutoPipeline ----------------------------
(***************************************************************************)
(* A session's plan, carried out over many commands: auto drafts it, auto  *)
(* --resume goes on with what no output on record says is completed, run   *)
(* executes all of it.  packages/cli: commands/auto.ts and the sequential  *)
(* path of commands/run.ts.                                                *)
(*                                                                         *)
(* One command at a time (PlanApproval has several at once).  The order of *)
(* the tasks among themselves is left to Pipeline; what is kept of a       *)
(* record is what the code looks up in it: the outputs of tasks, by the    *)
(* name each gives itself, and whether there is a complete learn artifact. *)
(***************************************************************************)
EXTENDS Naturals, Sequences, FiniteSets

CONSTANTS
  Graphs,       \* the plans: a function from tasks to their dependencies
  MaxTasks,     \* --max-tasks: the tasks a command executes
  MaxPlans,     \* bound: the revisions of the plan
  MaxTrouble,   \* bound: failures, deaths and misnamed outputs, together
  NoPlan

Tasks == UNION {DOMAIN g : g \in Graphs}

(* The preflight admits no plan with an unknown or a cyclic dependency.    *)
ASSUME GraphsAssumption ==
  \A g \in Graphs :
    /\ DOMAIN g # {}
    /\ \E rank \in [DOMAIN g -> 1..Cardinality(DOMAIN g)] :
         \A t \in DOMAIN g : \A d \in g[t] : d \in DOMAIN g /\ rank[d] < rank[t]
ASSUME BoundsAssumption ==
  MaxTasks \in Nat \ {0} /\ MaxPlans \in Nat \ {0} /\ MaxTrouble \in Nat

VARIABLES
  plan,         \* the plan on record, its revision, whether it is approved
  outputs,      \* of tasks, on record; rev is the plan each was made under
  learnt,       \* whether a complete learn artifact is on record
  manifest,     \* of the last command that had one
  cmd,          \* the command under way
  trouble       \* so far

vars == <<plan, outputs, learnt, manifest, cmd, trouble>>

Idle == [kind |-> "idle", stages |-> <<>>, todo |-> <<>>, results |-> <<>>,
         at |-> 0, half |-> FALSE]

Init ==
  /\ plan = NoPlan /\ outputs = {} /\ learnt = FALSE
  /\ manifest = [kind |-> "none", status |-> "completed", rev |-> 0,
                 goal |-> <<>>, tasks |-> <<>>]
  /\ cmd = Idle /\ trouble = 0

Revision == IF plan = NoPlan THEN 0 ELSE plan.rev

(* Something goes wrong, within the bound.                                 *)
Trouble == trouble < MaxTrouble /\ trouble' = trouble + 1

(***************************************************************************)
(* What there is left to do of a plan.                                     *)
(***************************************************************************)
(* readCompleteRunOutputs: of every plan there was.                        *)
CompleteOutputs == {o \in outputs : o.ok}

Done(t) == \E o \in CompleteOutputs : o.task = t

(* A mutant: any output will do.                                           *)
CompletedTasksAny(g) == {t \in DOMAIN g : \E o \in outputs : o.task = t}

(* completedRunTaskIds                                                     *)
CompletedTasks(g) == {t \in DOMAIN g : Done(t)}

(* A mutant: what was completed is done again.                             *)
PendingTasksAll(g) == g

(* planPendingRunTasks: a dependency that is completed is none any more.   *)
PendingTasks(g) ==
  LET left == DOMAIN g \ CompletedTasks(g) IN
  [t \in left |-> g[t] \cap left]

Drafts == <<"explore", "snapshot", "plan">>

(* resolveAutoResume: the stages that are left of those that were wanted.  *)
StagesLeft(dryRun, skipLearn) ==
  LET learn == IF dryRun \/ skipLearn THEN <<>> ELSE <<"learn">> IN
  IF plan = NoPlan THEN Drafts
  ELSE IF CompletedTasks(plan.deps) = DOMAIN plan.deps THEN (IF learnt THEN <<>> ELSE learn)
  ELSE IF dryRun THEN Drafts
  ELSE <<"run">> \o learn

(***************************************************************************)
(* A command starts.                                                       *)
(***************************************************************************)
(* manifestTasksFromPlan                                                   *)
ManifestTasks(g, status) == [t \in DOMAIN g |-> status]

Starting(kind, stages, todo) ==
  /\ cmd = Idle
  /\ cmd' = [Idle EXCEPT !.kind = kind, !.stages = stages, !.todo = todo]
  /\ manifest' = [kind |-> kind, status |-> "running",
                  rev   |-> Revision,
                  goal  |-> IF plan = NoPlan THEN <<>> ELSE plan.deps,
                  tasks |-> ManifestTasks(todo, "pending")]
  /\ UNCHANGED <<plan, outputs, learnt, trouble>>

(* auto refuses a plan nobody has approved, and without --resume any plan. *)
BeginAuto ==
  plan = NoPlan /\ Starting("auto", StagesLeft(FALSE, FALSE), <<>>)

BeginResume(dryRun, skipLearn) ==
  LET stages == StagesLeft(dryRun, skipLearn) IN
  /\ plan # NoPlan /\ plan.approved
  /\ (stages # <<>> /\ Head(stages) = "explore") => Revision < MaxPlans
  /\ Starting("auto", stages,
              IF stages # <<>> /\ Head(stages) = "run" THEN PendingTasks(plan.deps) ELSE <<>>)

(* run takes the whole plan, whatever is on record.                        *)
BeginRun ==
  plan # NoPlan /\ plan.approved /\ Starting("run", <<"run">>, plan.deps)

InStage(s) == cmd.stages # <<>> /\ Head(cmd.stages) = s
NextStage == cmd' = [cmd EXCEPT !.stages = Tail(@), !.results = <<>>, !.at = 0]

Finish(status) ==
  /\ cmd' = Idle
  /\ manifest' = [manifest EXCEPT !.status = status]

(***************************************************************************)
(* The drafting stages.  An incomplete output ends auto: the one of        *)
(* explore is nowhere, the plan is on record by then.                      *)
(***************************************************************************)
Draft ==
  /\ InStage("explore") \/ InStage("snapshot")
  /\ \/ NextStage /\ UNCHANGED <<manifest, trouble>>
     \/ Trouble /\ Finish("failed")
  /\ UNCHANGED <<plan, outputs, learnt>>

NewPlan(g) == plan' = [rev |-> Revision + 1, deps |-> g, approved |-> FALSE]

DraftPlan ==
  /\ InStage("plan")
  /\ \E g \in Graphs : NewPlan(g)
  /\ \/ /\ NextStage /\ UNCHANGED trouble
        /\ manifest' = [manifest EXCEPT !.rev = plan'.rev, !.goal = plan'.deps,
                          !.tasks = ManifestTasks(plan'.deps, "skipped")]
     \/ Trouble /\ Finish("failed")
  /\ UNCHANGED <<outputs, learnt>>

(***************************************************************************)
(* The run stage.  Nothing of it is on record before its end.              *)
(***************************************************************************)
Executed == {cmd.results[i].of : i \in DOMAIN cmd.results}
DoneNow  == {cmd.results[i].of : i \in {j \in DOMAIN cmd.results : cmd.results[j].ok}}

Runnable ==
  {t \in DOMAIN cmd.todo \ Executed : cmd.todo[t] \subseteq DoneNow}

AtLimit == Len(cmd.results) >= MaxTasks

(* A task's output may fail, and may say it is of another task.            *)
RunTask(t) ==
  /\ InStage("run") /\ cmd.at = 0 /\ ~AtLimit /\ t \in Runnable
  /\ \E named \in Tasks, ok \in BOOLEAN :
       /\ IF named = t /\ ok THEN UNCHANGED trouble ELSE Trouble
       /\ cmd' = [cmd EXCEPT !.results = Append(@, [of |-> t, task |-> named, ok |-> ok])]
  /\ UNCHANGED <<plan, outputs, learnt, manifest>>

(* A task that waits for one not in the list is waited for for ever.       *)
Settled ==
  AtLimit \/ (Runnable = {} /\ \A t \in DOMAIN cmd.todo : cmd.todo[t] \subseteq DOMAIN cmd.todo)

RunStageEnds ==
  /\ InStage("run") /\ cmd.at = 0 /\ Settled
  /\ cmd' = [cmd EXCEPT !.at = 1]
  /\ UNCHANGED <<plan, outputs, learnt, manifest, trouble>>

Publishing == InStage("run") /\ cmd.at \in DOMAIN cmd.results
Output == cmd.results[cmd.at]

(* Two writes for every output, the session's and the manifest's.          *)
Saved(result) == [task |-> result.task, ok |-> result.ok, rev |-> manifest.rev]
SaveOutput == outputs' = outputs \cup {Saved(Output)}

NoteOutput ==
  manifest' = [manifest EXCEPT !.tasks =
    [t \in DOMAIN @ |-> IF t # Output.task THEN @[t]
                        ELSE IF Output.ok THEN "completed" ELSE "failed"]]

OneWrite ==
  cmd' = IF cmd.half THEN [cmd EXCEPT !.half = FALSE, !.at = @ + 1]
         ELSE [cmd EXCEPT !.half = TRUE]

(* A mutant: auto's order is run's.                                        *)
PublishAutoNoteFirst ==
  /\ Publishing /\ cmd.kind = "auto"
  /\ IF cmd.half THEN SaveOutput /\ UNCHANGED manifest
     ELSE NoteOutput /\ UNCHANGED outputs
  /\ OneWrite /\ UNCHANGED <<plan, learnt, trouble>>

(* auto saves the session first, run the manifest.                         *)
PublishAuto ==
  /\ Publishing /\ cmd.kind = "auto"
  /\ IF cmd.half THEN NoteOutput /\ UNCHANGED outputs
     ELSE SaveOutput /\ UNCHANGED manifest
  /\ OneWrite /\ UNCHANGED <<plan, learnt, trouble>>

PublishRun ==
  /\ Publishing /\ cmd.kind = "run"
  /\ IF cmd.half THEN SaveOutput /\ UNCHANGED manifest
     ELSE NoteOutput /\ UNCHANGED outputs
  /\ OneWrite /\ UNCHANGED <<plan, learnt, trouble>>

Published == InStage("run") /\ cmd.at > Len(cmd.results)

(* isCompleteAutoStageOutput, of the run stage                             *)
IsComplete(results) ==
  results # <<>> /\ \A i \in DOMAIN results : results[i].ok

(* auto goes on only when all that was executed is completed.              *)
Advance ==
  /\ Published
  /\ IF cmd.kind = "run" \/ IsComplete(cmd.results)
     THEN NextStage /\ UNCHANGED manifest
     ELSE Finish("failed")
  /\ UNCHANGED <<plan, outputs, learnt, trouble>>

Learn ==
  /\ InStage("learn")
  /\ \/ NextStage /\ learnt' = TRUE /\ UNCHANGED <<manifest, trouble>>
     \/ Trouble /\ Finish("failed") /\ UNCHANGED learnt
  /\ UNCHANGED <<plan, outputs>>

(* A mutant: nothing is asked of the tasks.                                *)
FinalStatusAlways == "completed"

FinalStatus ==
  IF \E t \in DOMAIN manifest.tasks : manifest.tasks[t] = "pending"
  THEN "partial" ELSE "completed"

End ==
  /\ cmd # Idle /\ cmd.stages = <<>>
  /\ Finish(FinalStatus)
  /\ UNCHANGED <<plan, outputs, learnt, trouble>>

(* A signal: run goes on to the end of its stage and says so.              *)
EndInterrupted ==
  /\ cmd.kind = "run" /\ cmd.stages = <<>> /\ Trouble
  /\ Finish("interrupted")
  /\ UNCHANGED <<plan, outputs, learnt>>

(* A hook after a task throws, or a write fails: the runner ends the stage *)
(* as failed, and what is not on record by then never will be.             *)
StageFails ==
  /\ InStage("run") /\ Trouble /\ Finish("failed")
  /\ UNCHANGED <<plan, outputs, learnt>>

(***************************************************************************)
(* The user, and the machine.                                              *)
(***************************************************************************)
(* plan makes another revision; plan --approve.                            *)
Replan ==
  /\ cmd = Idle /\ Revision < MaxPlans
  /\ \E g \in Graphs : NewPlan(g)
  /\ UNCHANGED <<outputs, learnt, manifest, cmd, trouble>>

Approve ==
  /\ cmd = Idle /\ plan # NoPlan /\ ~plan.approved
  /\ plan' = [plan EXCEPT !.approved = TRUE]
  /\ UNCHANGED <<outputs, learnt, manifest, cmd, trouble>>

(* A command dies; the next one marks its manifest.                        *)
Crash ==
  /\ cmd # Idle /\ Trouble
  /\ Finish("interrupted")
  /\ UNCHANGED <<plan, outputs, learnt>>

Step ==
  \/ Draft \/ DraftPlan
  \/ \E t \in Tasks : RunTask(t)
  \/ RunStageEnds \/ PublishAuto \/ PublishRun \/ Advance \/ Learn
  \/ End \/ EndInterrupted

Next ==
  \/ BeginAuto \/ BeginRun
  \/ \E dryRun, skipLearn \in BOOLEAN : BeginResume(dryRun, skipLearn)
  \/ Step \/ StageFails \/ Replan \/ Approve \/ Crash

Spec == Init /\ [][Next]_vars

(* A command that was started goes on, and the user who has an approved    *)
(* plan sooner or later says auto --resume.                                *)
FairSpec == Spec /\ WF_vars(Step) /\ SF_vars(BeginResume(FALSE, FALSE))

(***************************************************************************)
(* What has to be true.                                                    *)
(***************************************************************************)
(* No task is executed before its dependencies are completed, be that in   *)
(* this command or by an output on record: also after a resume, which has  *)
(* dropped those that are from the list (auto.ts:91). And what auto has    *)
(* executed, before it is on record, is no task that already was.          *)
RunsWhatIsLeft ==
  \A i \in DOMAIN cmd.results :
    LET of == cmd.results[i].of IN
    /\ \A d \in manifest.goal[of] :
         \/ Done(d)
         \/ \E j \in 1..(i - 1) : cmd.results[j].of = d /\ cmd.results[j].ok
    /\ cmd.kind = "auto" /\ cmd.at = 0 => ~Done(of)

(* A command that auto ends as completed leaves no task of its plan        *)
(* without a completed output, whatever died, failed or was misnamed.      *)
CompletedMeansAll ==
  manifest.kind = "auto" /\ manifest.status = "completed" /\ manifest.rev > 0 =>
    \/ CompletedTasks(manifest.goal) = DOMAIN manifest.goal
    \/ \A t \in DOMAIN manifest.goal :
         t \in DOMAIN manifest.tasks /\ manifest.tasks[t] = "skipped"

(* A death between the two writes: auto's manifest never has a task        *)
(* completed that the session does not, and the session is ahead of it by  *)
(* one task at the most.  run's session has no output that its manifest has*)
(* not heard of, and lacks none before the one that is being published.    *)
NeitherIsAhead ==
  /\ manifest.kind = "auto" =>
       /\ \A t \in DOMAIN manifest.tasks : manifest.tasks[t] = "completed" => Done(t)
       /\ LET ahead == {t \in DOMAIN manifest.tasks : manifest.tasks[t] = "pending" /\ Done(t)}
          IN  \A t, u \in ahead : t = u
  /\ InStage("run") /\ cmd.kind = "run" =>
       /\ (cmd.half /\ Output.task \in DOMAIN manifest.tasks) =>
            manifest.tasks[Output.task] # "pending"
       /\ \A i \in 1..(cmd.at - 1) \cap DOMAIN cmd.results : Saved(cmd.results[i]) \in outputs

(* "resumes the remaining loop after approval" (README.md:203): resumed    *)
(* often enough, the last plan there is gets done, however little each     *)
(* command may execute and whatever dies in between.                       *)
PlanGetsDone ==
  plan # NoPlan /\ plan.approved /\ plan.rev = MaxPlans ~>
    plan # NoPlan /\ CompletedTasks(plan.deps) = DOMAIN plan.deps

(* The code does not do this.  "resumes the remaining loop after approval" *)
(* (README.md:203): what auto ends as completed was executed under the     *)
(* plan that was approved.  Outputs are looked up by the task's name, those *)
(* of an earlier revision too (auto.ts:72, 170).                           *)
OutputsAreOfThisPlan ==
  /\ manifest.kind = "auto" /\ manifest.status = "completed"
  /\ manifest.tasks = <<>> /\ manifest.rev > 0
  => \A t \in DOMAIN manifest.goal :
        \E o \in outputs : o.ok /\ o.task = t /\ o.rev = manifest.rev
=============================================================================
