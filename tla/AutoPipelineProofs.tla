--------------------------- MODULE AutoPipelineProofs ---------------------------
(***************************************************************************)
(* Proofs about AutoPipeline, for any set of plans and any bounds.         *)
(*                                                                         *)
(* The invariant says what a command has in hand at each of its stages:    *)
(* that its list and what is on record make up the plan, that what it has  *)
(* executed had its dependencies, that nothing is on record of it before   *)
(* its stage has ended, and, at the end, why no task that is not pending   *)
(* can be missing.                                                         *)
(***************************************************************************)
EXTENDS AutoPipeline, SequenceTheorems, TLAPS

Drafting == {<<"explore", "snapshot", "plan">>, <<"snapshot", "plan">>, <<"plan">>}
Running  == {<<"run">>, <<"run", "learn">>}
Ending   == {<<>>, <<"learn">>}

Result == [of : Tasks, task : Tasks, ok : BOOLEAN]

(* A task has a completed output on record.                                *)
OnRecord(t, outs) == \E o \in outs : o.ok /\ o.task = t

(* A command: where it is.                                                 *)
Placed(c) ==
  /\ c.stages \in Drafting \cup Running \cup Ending
  /\ c.results \in Seq(Result) /\ c.at \in Nat /\ c.half \in BOOLEAN
  /\ c.stages \notin Running => c.results = <<>> /\ c.at = 0 /\ c.half = FALSE
  /\ c.half => c.at \in DOMAIN c.results
  /\ c.kind = "run" => c.stages \notin Drafting

(* The list is the plan without what is on record.                         *)
ListFits(c, m, outs) ==
  /\ DOMAIN c.todo \subseteq DOMAIN m.goal
  /\ DOMAIN m.tasks = DOMAIN c.todo
  /\ \A t \in DOMAIN c.todo : \A d \in m.goal[t] : d \in c.todo[t] \/ OnRecord(d, outs)
  /\ c.kind = "auto" => \A t \in DOMAIN m.goal : t \in DOMAIN c.todo \/ OnRecord(t, outs)
  /\ c.kind = "auto" /\ c.at = 0 => \A t \in DOMAIN c.todo : ~OnRecord(t, outs)

(* What was executed was in the list, after its dependencies there.        *)
InOrder(c) ==
  \A i \in DOMAIN c.results :
    /\ c.results[i].of \in DOMAIN c.todo
    /\ \A d \in c.todo[c.results[i].of] :
         \E j \in 1..(i - 1) : c.results[j].of = d /\ c.results[j].ok

(* What the manifest says of the tasks, and the write under way.           *)
Noted(c, m, outs) ==
  /\ c.kind = "auto" =>
       /\ \A t \in DOMAIN m.tasks :
            \/ m.tasks[t] = "pending" \/ OnRecord(t, outs)
            \/ \E i \in DOMAIN c.results : ~c.results[i].ok
       /\ c.half /\ c.results[c.at].ok => OnRecord(c.results[c.at].task, outs)
  /\ c.kind = "run" /\ c.half /\ c.results[c.at].task \in DOMAIN m.tasks =>
       m.tasks[c.results[c.at].task] # "pending"

(* A manifest that may end as completed.                                   *)
AllDone(m, outs) ==
  \/ \A t \in DOMAIN m.goal : OnRecord(t, outs)
  \/ \A t \in DOMAIN m.goal : t \in DOMAIN m.tasks /\ m.tasks[t] = "skipped"

SomePending(m) == \E t \in DOMAIN m.tasks : m.tasks[t] = "pending"

(* The command under way.                                                  *)
CmdOk(c, m, outs) ==
  /\ c.kind \in {"auto", "run"} /\ m.kind = c.kind /\ m.status = "running"
  /\ Placed(c)
  /\ c.stages \in Running => ListFits(c, m, outs) /\ InOrder(c) /\ Noted(c, m, outs)
  /\ c.stages \in Ending /\ c.kind = "auto" => SomePending(m) \/ AllDone(m, outs)

(* The manifest of a command, also after it.                               *)
ManifestOk(m, outs) ==
  /\ m.kind = "auto" => \A t \in DOMAIN m.tasks : m.tasks[t] = "completed" => OnRecord(t, outs)
  /\ m.kind = "auto" /\ m.status = "completed" => AllDone(m, outs)

PlanTyped(pl) == pl # NoPlan => pl \in [rev : Nat, deps : Graphs, approved : BOOLEAN]

AutoInv ==
  /\ PlanTyped(plan)
  /\ DOMAIN manifest = {"kind", "status", "rev", "goal", "tasks"}
  /\ DOMAIN cmd = {"kind", "stages", "todo", "results", "at", "half"}
  /\ ManifestOk(manifest, outputs)
  /\ cmd = Idle \/ CmdOk(cmd, manifest, outputs)

(***************************************************************************)
(* The lists of stages.                                                    *)
(***************************************************************************)
LEMMA StagesGoOn ==
  ASSUME NEW s \in Drafting \cup Running \cup Ending, s # <<>>
  PROVE  /\ Head(s) \in {"explore", "snapshot"} => s \in Drafting /\ Tail(s) \in Drafting
         /\ Head(s) = "plan" => s \in Drafting /\ Tail(s) = <<>>
         /\ Head(s) = "run" => s \in Running /\ Tail(s) \in Ending
         /\ Head(s) = "learn" => s \in Ending /\ Tail(s) = <<>>
<1>1. CASE s = <<"explore", "snapshot", "plan">>
  BY <1>1 DEF Drafting, Running, Ending
<1>2. CASE s = <<"snapshot", "plan">>
  BY <1>2 DEF Drafting, Running, Ending
<1>3. CASE s = <<"plan">>
  BY <1>3 DEF Drafting, Running, Ending
<1>4. CASE s = <<"run">>
  BY <1>4 DEF Drafting, Running, Ending
<1>5. CASE s = <<"run", "learn">>
  BY <1>5 DEF Drafting, Running, Ending
<1>6. CASE s = <<"learn">>
  BY <1>6 DEF Drafting, Running, Ending
<1> QED BY <1>1, <1>2, <1>3, <1>4, <1>5, <1>6 DEF Drafting, Running, Ending

LEMMA StagesApart ==
  /\ \A s \in Drafting : s # <<>> /\ s \notin Running /\ s \notin Ending
                         /\ Head(s) \in {"explore", "snapshot", "plan"}
  /\ \A s \in Running : s # <<>> /\ s \notin Ending /\ Head(s) = "run"
  /\ <<>> \in Ending
<1>1. \A s \in Drafting : s # <<>> /\ Head(s) \in {"explore", "snapshot", "plan"}
  BY DEF Drafting
<1>2. \A s \in Running : s # <<>> /\ Head(s) = "run"
  BY DEF Running
<1>3. \A s \in Ending : s # <<>> => Head(s) = "learn"
  BY DEF Ending
<1> QED BY <1>1, <1>2, <1>3 DEF Ending

(***************************************************************************)
(* A command ends, or dies.                                                *)
(***************************************************************************)
LEMMA Finishes ==
  ASSUME AutoInv, NEW status, Finish(status), outputs' = outputs, PlanTyped(plan'),
         status = "completed" /\ manifest.kind = "auto" => AllDone(manifest, outputs)
  PROVE  AutoInv'
<1>1. /\ manifest'.kind = manifest.kind /\ manifest'.tasks = manifest.tasks
      /\ manifest'.goal = manifest.goal /\ manifest'.status = status
      /\ DOMAIN manifest' = DOMAIN manifest
  BY DEF Finish, AutoInv
<1>2. cmd' = Idle /\ DOMAIN Idle = {"kind", "stages", "todo", "results", "at", "half"}
  BY DEF Finish, Idle
<1>3. AllDone(manifest, outputs) => AllDone(manifest', outputs')
  BY <1>1 DEF AllDone
<1>4. ManifestOk(manifest', outputs')
  BY <1>1, <1>3 DEF AutoInv, ManifestOk
<1> QED BY <1>1, <1>2, <1>4 DEF AutoInv

(* The command under way, when it is.                                      *)
LEMMA UnderWay ==
  ASSUME AutoInv, cmd # Idle
  PROVE  /\ CmdOk(cmd, manifest, outputs) /\ Placed(cmd)
         /\ DOMAIN cmd = {"kind", "stages", "todo", "results", "at", "half"}
  BY DEF AutoInv, CmdOk

LEMMA IdleStands ==
  /\ Idle.stages = <<>> /\ Idle.kind = "idle" /\ Idle.results = <<>> /\ Idle.half = FALSE
  /\ \A s : ~(Idle.stages # <<>> /\ Head(Idle.stages) = s)
  BY DEF Idle

LEMMA StageOfCommand ==
  ASSUME AutoInv, NEW s, InStage(s)
  PROVE  /\ cmd # Idle /\ CmdOk(cmd, manifest, outputs) /\ Placed(cmd)
         /\ s \in {"explore", "snapshot"} => cmd.stages \in Drafting /\ Tail(cmd.stages) \in Drafting
         /\ s = "plan" => cmd.stages \in Drafting /\ Tail(cmd.stages) = <<>>
         /\ s = "run" => cmd.stages \in Running /\ Tail(cmd.stages) \in Ending
         /\ s = "learn" => cmd.stages \in Ending /\ Tail(cmd.stages) = <<>>
<1>1. cmd # Idle
  BY IdleStands DEF InStage
<1>2. CmdOk(cmd, manifest, outputs) /\ Placed(cmd)
  BY <1>1, UnderWay
<1>3. cmd.stages \in Drafting \cup Running \cup Ending /\ cmd.stages # <<>> /\ Head(cmd.stages) = s
  BY <1>2 DEF Placed, InStage
<1> HIDE DEF InStage
<1> QED BY <1>1, <1>2, <1>3, StagesGoOn

(* The stage is done, and nothing of it is left.                           *)
LEMMA NextStageTo ==
  ASSUME AutoInv, NextStage
  PROVE  /\ DOMAIN cmd' = DOMAIN cmd /\ cmd'.kind = cmd.kind /\ cmd'.todo = cmd.todo
         /\ cmd'.stages = Tail(cmd.stages) /\ cmd'.results = <<>> /\ cmd'.at = 0
         /\ cmd'.half = cmd.half
  BY DEF NextStage, AutoInv

(* Outputs are never taken from the record.                                *)
LEMMA RecordGrows ==
  ASSUME NEW outs, NEW more, outs \subseteq more
  PROVE  /\ \A t : OnRecord(t, outs) => OnRecord(t, more)
         /\ \A m : AllDone(m, outs) => AllDone(m, more)
         /\ \A m : ManifestOk(m, outs) => ManifestOk(m, more)
<1>1. \A t : OnRecord(t, outs) => OnRecord(t, more)
  BY DEF OnRecord
<1>2. \A m : AllDone(m, outs) => AllDone(m, more)
  BY <1>1 DEF AllDone
<1> QED BY <1>1, <1>2 DEF ManifestOk

(***************************************************************************)
(* A command begins.                                                       *)
(***************************************************************************)
LEMMA StartingAs ==
  ASSUME NEW kind, NEW stages, NEW todo, Starting(kind, stages, todo)
  PROVE  /\ DOMAIN cmd' = {"kind", "stages", "todo", "results", "at", "half"}
         /\ cmd'.kind = kind /\ cmd'.stages = stages /\ cmd'.todo = todo
         /\ cmd'.results = <<>> /\ cmd'.at = 0 /\ cmd'.half = FALSE
         /\ DOMAIN manifest' = {"kind", "status", "rev", "goal", "tasks"}
         /\ manifest'.kind = kind /\ manifest'.status = "running"
         /\ plan # NoPlan => manifest'.goal = plan.deps
         /\ DOMAIN manifest'.tasks = DOMAIN todo
         /\ \A t \in DOMAIN todo : manifest'.tasks[t] = "pending"
         /\ outputs' = outputs /\ plan' = plan
  BY DEF Starting, Idle, ManifestTasks

LEMMA Begun ==
  ASSUME AutoInv, NEW kind \in {"auto", "run"}, NEW stages \in Drafting \cup Running \cup Ending,
         NEW todo, Starting(kind, stages, todo),
         kind = "run" => stages \notin Drafting,
         stages \in Running => ListFits(cmd', manifest', outputs'),
         stages \in Ending /\ kind = "auto" => AllDone(manifest', outputs')
  PROVE  AutoInv'
<1>1. /\ DOMAIN cmd' = {"kind", "stages", "todo", "results", "at", "half"}
      /\ cmd'.kind = kind /\ cmd'.stages = stages /\ cmd'.todo = todo
      /\ cmd'.results = <<>> /\ cmd'.at = 0 /\ cmd'.half = FALSE
      /\ DOMAIN manifest' = {"kind", "status", "rev", "goal", "tasks"}
      /\ manifest'.kind = kind /\ manifest'.status = "running"
      /\ DOMAIN manifest'.tasks = DOMAIN todo
      /\ \A t \in DOMAIN todo : manifest'.tasks[t] = "pending"
      /\ plan' = plan
  BY StartingAs
<1>2. ManifestOk(manifest', outputs')
  BY <1>1 DEF ManifestOk
<1>3. Placed(cmd')
  <2>1. <<>> \in Seq(Result) /\ 0 \in Nat
    OBVIOUS
  <2> QED BY <1>1, <2>1, StagesApart DEF Placed
<1>4. InOrder(cmd') /\ Noted(cmd', manifest', outputs')
  BY <1>1 DEF InOrder, Noted
<1>5. CmdOk(cmd', manifest', outputs')
  BY <1>1, <1>3, <1>4 DEF CmdOk
<1> QED BY <1>1, <1>2, <1>5 DEF AutoInv

LEMMA BeginAutoStep ==
  ASSUME AutoInv, BeginAuto PROVE AutoInv'
<1>1. Starting("auto", <<"explore", "snapshot", "plan">>, <<>>)
  BY DEF BeginAuto, StagesLeft, Drafts
<1>2. <<"explore", "snapshot", "plan">> \in Drafting
  BY DEF Drafting
<1> QED BY <1>1, <1>2, Begun, StagesApart

(* What is completed is on record.                                         *)
LEMMA CompletedOnRecord ==
  ASSUME NEW g PROVE \A t : t \in CompletedTasks(g) <=> t \in DOMAIN g /\ OnRecord(t, outputs)
  BY DEF CompletedTasks, Done, CompleteOutputs, OnRecord

LEMMA PendingFits ==
  ASSUME NEW g
  PROVE  /\ DOMAIN PendingTasks(g) = DOMAIN g \ CompletedTasks(g)
         /\ \A t \in DOMAIN PendingTasks(g) :
              PendingTasks(g)[t] = g[t] \cap (DOMAIN g \ CompletedTasks(g))
  BY DEF PendingTasks

LEMMA BeginResumeStep ==
  ASSUME AutoInv, NEW dryRun \in BOOLEAN, NEW skipLearn \in BOOLEAN,
         BeginResume(dryRun, skipLearn)
  PROVE  AutoInv'
<1> DEFINE stages == StagesLeft(dryRun, skipLearn)
           learn == IF dryRun \/ skipLearn THEN <<>> ELSE <<"learn">>
           todo == IF stages # <<>> /\ Head(stages) = "run" THEN PendingTasks(plan.deps) ELSE <<>>
<1>0. plan # NoPlan /\ Starting("auto", stages, todo)
  BY DEF BeginResume
<1>1. /\ cmd'.todo = todo /\ cmd'.kind = "auto" /\ cmd'.at = 0 /\ outputs' = outputs
      /\ manifest'.goal = plan.deps /\ DOMAIN manifest'.tasks = DOMAIN todo
  BY <1>0, StartingAs
<1>2. learn \in Ending /\ <<"run">> \o learn \in Running
  <2> DEFINE S == {"run", "learn"}
  <2>1. <<"run">> \in Seq(S) /\ <<"learn">> \in Seq(S)
    OBVIOUS
  <2>2. <<"run">> \o <<>> = <<"run">>
    <3> HIDE DEF S
    <3> QED BY <2>1, ConcatEmptySeq
  <2>3. /\ <<"run">> \o <<"learn">> \in Seq(S) /\ Len(<<"run">> \o <<"learn">>) = 2
        /\ (<<"run">> \o <<"learn">>)[1] = "run" /\ (<<"run">> \o <<"learn">>)[2] = "learn"
    <3> HIDE DEF S
    <3> QED BY <2>1, ConcatProperties
  <2>4. <<"run">> \o <<"learn">> = <<"run", "learn">>
    <3> DEFINE both == <<"run">> \o <<"learn">>
    <3>1. both \in Seq(S) /\ Len(both) = 2 /\ both[1] = "run" /\ both[2] = "learn"
      BY <2>3
    <3> HIDE DEF both
    <3>2. both = <<"run", "learn">>
      BY <3>1
    <3> QED BY <3>2 DEF both
  <2> QED BY <2>2, <2>4 DEF Ending, Running
<1>3. CASE CompletedTasks(plan.deps) = DOMAIN plan.deps
  <2>1. stages = IF learnt THEN <<>> ELSE learn
    BY <1>0, <1>3 DEF StagesLeft
  <2> HIDE DEF learn
  <2>2. stages \in Ending
    BY <1>2, <2>1, StagesApart
  <2>3. AllDone(manifest', outputs')
    BY <1>1, <1>3, CompletedOnRecord DEF AllDone
  <2> HIDE DEF stages, todo
  <2> QED BY <1>0, <2>2, <2>3, Begun, StagesApart
<1>4. CASE CompletedTasks(plan.deps) # DOMAIN plan.deps /\ dryRun
  <2>1. stages = Drafts
    BY <1>0, <1>4 DEF StagesLeft
  <2>2. stages \in Drafting
    BY <2>1 DEF Drafts, Drafting
  <2> HIDE DEF stages, todo
  <2> QED BY <1>0, <2>2, Begun, StagesApart
<1>5. CASE CompletedTasks(plan.deps) # DOMAIN plan.deps /\ ~dryRun
  <2>1. stages = <<"run">> \o learn
    BY <1>0, <1>5 DEF StagesLeft
  <2> HIDE DEF learn
  <2>2. stages \in Running
    BY <1>2, <2>1
  <2> HIDE DEF stages
  <2>3. todo = PendingTasks(plan.deps)
    BY <2>2, StagesApart
  <2> HIDE DEF todo
  <2>4. /\ DOMAIN todo = DOMAIN plan.deps \ CompletedTasks(plan.deps)
        /\ \A t \in DOMAIN todo : todo[t] = plan.deps[t] \cap (DOMAIN plan.deps \ CompletedTasks(plan.deps))
    BY <2>3, PendingFits
  <2>5. \A t \in DOMAIN plan.deps : \A d \in plan.deps[t] : d \in DOMAIN plan.deps
    BY <1>0, GraphsAssumption DEF AutoInv, PlanTyped
  <2>6. ListFits(cmd', manifest', outputs')
    BY <1>1, <2>4, <2>5, CompletedOnRecord DEF ListFits
  <2> QED BY <1>0, <2>2, <2>6, Begun, StagesApart
<1> QED BY <1>3, <1>4, <1>5

LEMMA BeginRunStep ==
  ASSUME AutoInv, BeginRun PROVE AutoInv'
<1>0. plan # NoPlan /\ Starting("run", <<"run">>, plan.deps)
  BY DEF BeginRun
<1>1. /\ cmd'.todo = plan.deps /\ cmd'.kind = "run"
      /\ manifest'.goal = plan.deps /\ DOMAIN manifest'.tasks = DOMAIN plan.deps
  BY <1>0, StartingAs
<1>2. <<"run">> \in Running
  BY DEF Running
<1>3. ListFits(cmd', manifest', outputs')
  BY <1>1 DEF ListFits
<1> QED BY <1>0, <1>2, <1>3, Begun, StagesApart

(***************************************************************************)
(* The drafting stages.                                                    *)
(***************************************************************************)
(* A stage that is not the run is done.                                    *)
LEMMA StageDone ==
  ASSUME AutoInv, cmd # Idle, NextStage, outputs' = outputs, cmd.half = FALSE,
         PlanTyped(plan'),
         DOMAIN manifest' = {"kind", "status", "rev", "goal", "tasks"},
         manifest'.kind = manifest.kind, manifest'.status = manifest.status,
         ManifestOk(manifest', outputs),
         Tail(cmd.stages) \in Drafting \cup Ending,
         cmd.kind = "run" => Tail(cmd.stages) \notin Drafting,
         Tail(cmd.stages) \in Ending /\ cmd.kind = "auto" =>
           SomePending(manifest') \/ AllDone(manifest', outputs)
  PROVE  AutoInv'
<1>1. /\ CmdOk(cmd, manifest, outputs) /\ Placed(cmd)
      /\ DOMAIN cmd = {"kind", "stages", "todo", "results", "at", "half"}
  BY UnderWay
<1>2. /\ DOMAIN cmd' = DOMAIN cmd /\ cmd'.kind = cmd.kind
      /\ cmd'.stages = Tail(cmd.stages) /\ cmd'.results = <<>> /\ cmd'.at = 0
      /\ cmd'.half = FALSE
  BY NextStageTo
<1>3. Placed(cmd')
  <2>1. <<>> \in Seq(Result) /\ 0 \in Nat
    OBVIOUS
  <2>2. Tail(cmd.stages) \notin Running
    BY StagesApart
  <2> QED BY <1>2, <2>1, <2>2 DEF Placed
<1>4. cmd'.stages \notin Running
  BY <1>2, StagesApart
<1>5. CmdOk(cmd', manifest', outputs')
  BY <1>1, <1>2, <1>3, <1>4 DEF CmdOk
<1> QED BY <1>1, <1>2, <1>5 DEF AutoInv

LEMMA DraftStep ==
  ASSUME AutoInv, Draft PROVE AutoInv'
<1>1. PICK s \in {"explore", "snapshot"} : InStage(s)
  BY DEF Draft
<1>2. cmd # Idle /\ CmdOk(cmd, manifest, outputs) /\ Placed(cmd)
      /\ cmd.stages \in Drafting /\ Tail(cmd.stages) \in Drafting
  BY <1>1, StageOfCommand
<1>3. outputs' = outputs /\ PlanTyped(plan')
  BY DEF Draft, AutoInv
<1>4. CASE NextStage /\ UNCHANGED manifest
  BY <1>2, <1>3, <1>4, StageDone, StagesApart DEF AutoInv, Placed
<1>5. CASE Finish("failed")
  BY <1>3, <1>5, Finishes
<1> QED BY <1>4, <1>5 DEF Draft

LEMMA NewPlanTyped ==
  ASSUME AutoInv, NEW g \in Graphs, NewPlan(g) PROVE PlanTyped(plan') /\ plan'.deps = g
<1>1. Revision \in Nat
  BY DEF Revision, AutoInv, PlanTyped
<1> QED BY <1>1 DEF NewPlan, PlanTyped

LEMMA DraftPlanStep ==
  ASSUME AutoInv, DraftPlan PROVE AutoInv'
<1>1. cmd # Idle /\ CmdOk(cmd, manifest, outputs) /\ Placed(cmd)
      /\ cmd.stages \in Drafting /\ Tail(cmd.stages) = <<>>
  BY StageOfCommand DEF DraftPlan
<1>2. PICK g \in Graphs : NewPlan(g)
  BY DEF DraftPlan
<1>3. outputs' = outputs /\ PlanTyped(plan') /\ plan'.deps = g
  BY <1>2, NewPlanTyped DEF DraftPlan
<1>4. CASE NextStage /\ manifest' = [manifest EXCEPT !.rev = plan'.rev, !.goal = plan'.deps,
                                       !.tasks = ManifestTasks(plan'.deps, "skipped")]
  <2>1. /\ manifest'.kind = manifest.kind /\ manifest'.status = manifest.status
        /\ DOMAIN manifest' = {"kind", "status", "rev", "goal", "tasks"}
        /\ manifest'.goal = g /\ DOMAIN manifest'.tasks = DOMAIN g
        /\ \A t \in DOMAIN g : manifest'.tasks[t] = "skipped"
    BY <1>3, <1>4 DEF AutoInv, ManifestTasks
  <2>2. AllDone(manifest', outputs)
    BY <2>1 DEF AllDone
  <2>3. ManifestOk(manifest', outputs)
    BY <2>1, <2>2 DEF ManifestOk
  <2> QED BY <1>1, <1>3, <1>4, <2>1, <2>2, <2>3, StageDone, StagesApart DEF Placed
<1>5. CASE Finish("failed")
  BY <1>3, <1>5, Finishes
<1> QED BY <1>4, <1>5 DEF DraftPlan

LEMMA LearnStep ==
  ASSUME AutoInv, Learn PROVE AutoInv'
<1>1. cmd # Idle /\ CmdOk(cmd, manifest, outputs) /\ Placed(cmd)
      /\ cmd.stages \in Ending /\ Tail(cmd.stages) = <<>>
  BY StageOfCommand DEF Learn
<1>2. outputs' = outputs /\ PlanTyped(plan')
  BY DEF Learn, AutoInv
<1>3. CASE NextStage /\ UNCHANGED manifest
  BY <1>1, <1>2, <1>3, StageDone, StagesApart DEF AutoInv, Placed, CmdOk
<1>4. CASE Finish("failed")
  BY <1>2, <1>4, Finishes
<1> QED BY <1>3, <1>4 DEF Learn

(***************************************************************************)
(* The run stage.                                                          *)
(***************************************************************************)
LEMMA RunStage ==
  ASSUME AutoInv, InStage("run")
  PROVE  /\ cmd # Idle /\ CmdOk(cmd, manifest, outputs) /\ Placed(cmd)
         /\ cmd.stages \in Running /\ Tail(cmd.stages) \in Ending
         /\ ListFits(cmd, manifest, outputs) /\ InOrder(cmd) /\ Noted(cmd, manifest, outputs)
         /\ cmd.results \in Seq(Result) /\ cmd.at \in Nat /\ cmd.half \in BOOLEAN
         /\ DOMAIN cmd = {"kind", "stages", "todo", "results", "at", "half"}
         /\ ManifestOk(manifest, outputs) /\ PlanTyped(plan)
         /\ DOMAIN manifest = {"kind", "status", "rev", "goal", "tasks"}
<1>1. cmd # Idle /\ CmdOk(cmd, manifest, outputs) /\ Placed(cmd)
      /\ cmd.stages \in Running /\ Tail(cmd.stages) \in Ending
  BY StageOfCommand
<1> QED BY <1>1 DEF CmdOk, Placed, AutoInv

(* The run stage goes on.                                                  *)
LEMMA RunGoesOn ==
  ASSUME AutoInv, InStage("run"), UNCHANGED plan, outputs \subseteq outputs',
         DOMAIN cmd' = DOMAIN cmd, cmd'.kind = cmd.kind, cmd'.stages = cmd.stages,
         cmd'.results \in Seq(Result), cmd'.at \in Nat, cmd'.half \in BOOLEAN,
         cmd'.half => cmd'.at \in DOMAIN cmd'.results,
         DOMAIN manifest' = DOMAIN manifest, manifest'.kind = manifest.kind,
         manifest'.status = manifest.status,
         ManifestOk(manifest', outputs'),
         ListFits(cmd', manifest', outputs'), InOrder(cmd'), Noted(cmd', manifest', outputs')
  PROVE  AutoInv'
<1>1. CmdOk(cmd, manifest, outputs) /\ Placed(cmd) /\ cmd.stages \in Running
  BY RunStage
<1>2. Placed(cmd')
  BY <1>1, StagesApart DEF Placed
<1>3. cmd'.stages \notin Ending
  BY <1>1, StagesApart
<1>4. CmdOk(cmd', manifest', outputs')
  BY <1>1, <1>2, <1>3 DEF CmdOk
<1> QED BY <1>4 DEF AutoInv

LEMMA RunTaskStep ==
  ASSUME AutoInv, NEW t \in Tasks, RunTask(t) PROVE AutoInv'
<1>1. InStage("run") /\ cmd.at = 0 /\ t \in Runnable /\ UNCHANGED <<plan, outputs, manifest>>
  BY DEF RunTask
<1>2. PICK named \in Tasks, ok \in BOOLEAN :
        cmd' = [cmd EXCEPT !.results = Append(@, [of |-> t, task |-> named, ok |-> ok])]
  BY DEF RunTask
<1> DEFINE r == [of |-> t, task |-> named, ok |-> ok]
<1>3. r \in Result /\ r.of = t
  BY DEF Result
<1>4. /\ cmd.results \in Seq(Result) /\ cmd.half \in BOOLEAN /\ Placed(cmd)
      /\ DOMAIN cmd = {"kind", "stages", "todo", "results", "at", "half"}
      /\ ListFits(cmd, manifest, outputs) /\ InOrder(cmd) /\ Noted(cmd, manifest, outputs)
      /\ ManifestOk(manifest, outputs)
  BY <1>1, RunStage
<1>5. /\ DOMAIN cmd' = DOMAIN cmd /\ cmd'.kind = cmd.kind /\ cmd'.stages = cmd.stages
      /\ cmd'.at = 0 /\ cmd'.half = cmd.half /\ cmd'.todo = cmd.todo
      /\ cmd'.results = Append(cmd.results, r)
  BY <1>1, <1>2, <1>4
<1> HIDE DEF r
<1>6. cmd.half = FALSE
  BY <1>1, <1>4 DEF Placed
<1>7. /\ cmd'.results \in Seq(Result) /\ DOMAIN cmd'.results = 1..(Len(cmd.results) + 1)
      /\ \A i \in 1..Len(cmd.results) : cmd'.results[i] = cmd.results[i]
      /\ cmd'.results[Len(cmd.results) + 1] = r
      /\ DOMAIN cmd.results = 1..Len(cmd.results) /\ Len(cmd.results) \in Nat
  BY <1>3, <1>4, <1>5
<1>8. t \in DOMAIN cmd.todo /\ cmd.todo[t] \subseteq DoneNow
  BY <1>1 DEF Runnable
<1>9. \A d \in cmd.todo[t] : \E j \in 1..Len(cmd.results) : cmd.results[j].of = d /\ cmd.results[j].ok
  BY <1>7, <1>8 DEF DoneNow
<1>10. InOrder(cmd')
  <2>1. ASSUME NEW i \in 1..Len(cmd.results)
        PROVE  /\ cmd'.results[i].of \in DOMAIN cmd'.todo
               /\ \A d \in cmd'.todo[cmd'.results[i].of] :
                    \E j \in 1..(i - 1) : cmd'.results[j].of = d /\ cmd'.results[j].ok
    <3>1. \A j \in 1..(i - 1) : cmd'.results[j] = cmd.results[j]
      BY <1>7
    <3> QED BY <1>4, <1>5, <1>7, <3>1 DEF InOrder
  <2>2. \A d \in cmd'.todo[t] :
          \E j \in 1..Len(cmd.results) : cmd'.results[j].of = d /\ cmd'.results[j].ok
    BY <1>5, <1>7, <1>9
  <2>3. (Len(cmd.results) + 1) - 1 = Len(cmd.results)
    BY <1>7
  <2>4. \A i \in DOMAIN cmd'.results : i \in 1..Len(cmd.results) \/ i = Len(cmd.results) + 1
    BY <1>7
  <2> QED BY <1>3, <1>5, <1>7, <1>8, <2>1, <2>2, <2>3, <2>4 DEF InOrder
<1>11. ListFits(cmd', manifest', outputs')
  BY <1>1, <1>4, <1>5 DEF ListFits
<1>12. Noted(cmd', manifest', outputs')
  BY <1>1, <1>4, <1>5, <1>6, <1>7 DEF Noted
<1> QED BY <1>1, <1>4, <1>5, <1>6, <1>7, <1>10, <1>11, <1>12, RunGoesOn

LEMMA RunStageEndsStep ==
  ASSUME AutoInv, RunStageEnds PROVE AutoInv'
<1>1. InStage("run") /\ cmd.at = 0 /\ UNCHANGED <<plan, outputs, manifest>>
      /\ cmd' = [cmd EXCEPT !.at = 1]
  BY DEF RunStageEnds
<1>2. /\ cmd.results \in Seq(Result) /\ cmd.half \in BOOLEAN /\ Placed(cmd)
      /\ DOMAIN cmd = {"kind", "stages", "todo", "results", "at", "half"}
      /\ ListFits(cmd, manifest, outputs) /\ InOrder(cmd) /\ Noted(cmd, manifest, outputs)
      /\ ManifestOk(manifest, outputs)
  BY <1>1, RunStage
<1>3. /\ DOMAIN cmd' = DOMAIN cmd /\ cmd'.kind = cmd.kind /\ cmd'.stages = cmd.stages
      /\ cmd'.at = 1 /\ cmd'.half = cmd.half /\ cmd'.todo = cmd.todo
      /\ cmd'.results = cmd.results
  BY <1>1, <1>2
<1>4. cmd.half = FALSE
  BY <1>1, <1>2 DEF Placed
<1>5. InOrder(cmd')
  BY <1>2, <1>3 DEF InOrder
<1>6. ListFits(cmd', manifest', outputs')
  BY <1>1, <1>2, <1>3 DEF ListFits
<1>7. Noted(cmd', manifest', outputs')
  BY <1>1, <1>2, <1>3, <1>4 DEF Noted
<1> QED BY <1>1, <1>2, <1>3, <1>4, <1>5, <1>6, <1>7, RunGoesOn

(***************************************************************************)
(* The writes of an output.                                                *)
(***************************************************************************)
LEMMA WriteGoesOn ==
  ASSUME AutoInv, Publishing, OneWrite
  PROVE  /\ DOMAIN cmd' = DOMAIN cmd /\ cmd'.kind = cmd.kind /\ cmd'.stages = cmd.stages
         /\ cmd'.todo = cmd.todo /\ cmd'.results = cmd.results
         /\ cmd'.at \in Nat /\ cmd'.at # 0 /\ cmd'.half = ~cmd.half
         /\ ~cmd.half => cmd'.at = cmd.at
         /\ cmd'.half => cmd'.at \in DOMAIN cmd'.results
         /\ cmd.at \in DOMAIN cmd.results /\ cmd.at # 0
         /\ Output \in Result
<1>1. /\ cmd.results \in Seq(Result) /\ cmd.at \in Nat /\ cmd.half \in BOOLEAN
      /\ DOMAIN cmd = {"kind", "stages", "todo", "results", "at", "half"}
  BY RunStage DEF Publishing
<1>2. cmd.at \in DOMAIN cmd.results /\ cmd.at # 0 /\ Output \in Result
  BY <1>1 DEF Publishing, Output
<1>3. CASE cmd.half
  <2>1. cmd' = [cmd EXCEPT !.half = FALSE, !.at = @ + 1]
    BY <1>3 DEF OneWrite
  <2>2. /\ DOMAIN cmd' = DOMAIN cmd /\ cmd'.kind = cmd.kind /\ cmd'.stages = cmd.stages
        /\ cmd'.todo = cmd.todo /\ cmd'.results = cmd.results
        /\ cmd'.at = cmd.at + 1 /\ cmd'.half = FALSE
    BY <1>1, <2>1
  <2>3. cmd.at + 1 \in Nat /\ cmd.at + 1 # 0
    BY <1>1
  <2> QED BY <1>2, <1>3, <2>2, <2>3
<1>4. CASE ~cmd.half
  <2>1. cmd' = [cmd EXCEPT !.half = TRUE]
    BY <1>4 DEF OneWrite
  <2> QED BY <1>1, <1>2, <1>4, <2>1
<1> QED BY <1>3, <1>4

LEMMA SavesOutput ==
  ASSUME SaveOutput
  PROVE  outputs \subseteq outputs' /\ (Output.ok => OnRecord(Output.task, outputs'))
<1> DEFINE o == [task |-> Output.task, ok |-> Output.ok, rev |-> manifest.rev]
<1>1. outputs' = outputs \cup {o} /\ o.task = Output.task /\ o.ok = Output.ok
  BY DEF SaveOutput, Saved
<1> HIDE DEF o
<1> QED BY <1>1 DEF OnRecord

LEMMA NotesOutput ==
  ASSUME AutoInv, NoteOutput
  PROVE  /\ DOMAIN manifest' = DOMAIN manifest /\ manifest'.kind = manifest.kind
         /\ manifest'.status = manifest.status /\ manifest'.goal = manifest.goal
         /\ DOMAIN manifest'.tasks = DOMAIN manifest.tasks
         /\ \A t \in DOMAIN manifest.tasks :
              manifest'.tasks[t] = IF t # Output.task THEN manifest.tasks[t]
                                   ELSE IF Output.ok THEN "completed" ELSE "failed"
  BY DEF AutoInv, NoteOutput

(* What does not change when an output is published.                       *)
LEMMA StillFits ==
  ASSUME AutoInv, Publishing, OneWrite, outputs \subseteq outputs',
         manifest'.goal = manifest.goal, DOMAIN manifest'.tasks = DOMAIN manifest.tasks
  PROVE  ListFits(cmd', manifest', outputs') /\ InOrder(cmd')
<1>1. ListFits(cmd, manifest, outputs) /\ InOrder(cmd)
  BY RunStage DEF Publishing
<1>2. /\ cmd'.kind = cmd.kind /\ cmd'.todo = cmd.todo /\ cmd'.results = cmd.results
      /\ cmd'.at # 0
  BY WriteGoesOn
<1>3. \A t : OnRecord(t, outputs) => OnRecord(t, outputs')
  BY RecordGrows
<1>4. ListFits(cmd', manifest', outputs')
  BY <1>1, <1>2, <1>3 DEF ListFits
<1> QED BY <1>1, <1>2, <1>4 DEF InOrder

LEMMA PublishAutoStep ==
  ASSUME AutoInv, PublishAuto PROVE AutoInv'
<1>1. Publishing /\ InStage("run") /\ cmd.kind = "auto" /\ OneWrite /\ UNCHANGED plan
  BY DEF PublishAuto, Publishing
<1>2. /\ cmd.results \in Seq(Result) /\ cmd.half \in BOOLEAN /\ ManifestOk(manifest, outputs)
      /\ Noted(cmd, manifest, outputs) /\ CmdOk(cmd, manifest, outputs)
  BY <1>1, RunStage
<1>3. manifest.kind = "auto" /\ manifest.status = "running"
  BY <1>1, <1>2 DEF CmdOk
<1>4. /\ DOMAIN cmd' = DOMAIN cmd /\ cmd'.kind = cmd.kind /\ cmd'.stages = cmd.stages
      /\ cmd'.todo = cmd.todo /\ cmd'.results = cmd.results
      /\ cmd'.at \in Nat /\ cmd'.at # 0 /\ cmd'.half = ~cmd.half
      /\ ~cmd.half => cmd'.at = cmd.at
      /\ cmd'.half => cmd'.at \in DOMAIN cmd'.results
      /\ cmd.at \in DOMAIN cmd.results /\ Output \in Result
  BY <1>1, WriteGoesOn
<1>5. CASE ~cmd.half
  <2>1. SaveOutput /\ UNCHANGED manifest
    BY <1>1, <1>5 DEF PublishAuto
  <2>2. outputs \subseteq outputs' /\ (Output.ok => OnRecord(Output.task, outputs'))
    BY <2>1, SavesOutput
  <2>3. /\ \A t : OnRecord(t, outputs) => OnRecord(t, outputs')
        /\ ManifestOk(manifest', outputs')
    BY <1>2, <2>1, <2>2, RecordGrows
  <2>4. Noted(cmd', manifest', outputs')
    BY <1>1, <1>2, <1>4, <1>5, <2>1, <2>2, <2>3 DEF Noted, Output
  <2>5. ListFits(cmd', manifest', outputs') /\ InOrder(cmd')
    BY <1>1, <2>1, <2>2, StillFits
  <2> QED BY <1>1, <1>2, <1>4, <2>1, <2>2, <2>3, <2>4, <2>5, RunGoesOn
<1>6. CASE cmd.half
  <2>1. NoteOutput /\ UNCHANGED outputs
    BY <1>1, <1>6 DEF PublishAuto
  <2>2. /\ DOMAIN manifest' = DOMAIN manifest /\ manifest'.kind = manifest.kind
        /\ manifest'.status = manifest.status /\ manifest'.goal = manifest.goal
        /\ DOMAIN manifest'.tasks = DOMAIN manifest.tasks
        /\ \A t \in DOMAIN manifest.tasks :
             manifest'.tasks[t] = IF t # Output.task THEN manifest.tasks[t]
                                  ELSE IF Output.ok THEN "completed" ELSE "failed"
    BY <2>1, NotesOutput
  <2>3. Output.ok => OnRecord(Output.task, outputs)
    BY <1>1, <1>2, <1>6 DEF Noted, Output
  <2>4. ManifestOk(manifest', outputs')
    BY <1>2, <1>3, <2>1, <2>2, <2>3 DEF ManifestOk
  <2>5. ~Output.ok => \E i \in DOMAIN cmd.results : ~cmd.results[i].ok
    BY <1>4 DEF Output
  <2>6. cmd'.half = FALSE
    BY <1>2, <1>4, <1>6
  <2>7. \A t \in DOMAIN manifest'.tasks :
          \/ manifest'.tasks[t] = "pending" \/ OnRecord(t, outputs')
          \/ \E i \in DOMAIN cmd'.results : ~cmd'.results[i].ok
    BY <1>1, <1>2, <1>4, <2>1, <2>2, <2>3, <2>5 DEF Noted
  <2>8. Noted(cmd', manifest', outputs')
    BY <1>1, <1>4, <2>6, <2>7 DEF Noted
  <2>9. ListFits(cmd', manifest', outputs') /\ InOrder(cmd')
    BY <1>1, <2>1, <2>2, StillFits
  <2> QED BY <1>1, <1>2, <1>4, <2>1, <2>2, <2>4, <2>6, <2>8, <2>9, RunGoesOn
<1> QED BY <1>2, <1>5, <1>6

LEMMA PublishRunStep ==
  ASSUME AutoInv, PublishRun PROVE AutoInv'
<1>1. Publishing /\ InStage("run") /\ cmd.kind = "run" /\ OneWrite /\ UNCHANGED plan
  BY DEF PublishRun, Publishing
<1>2. /\ cmd.results \in Seq(Result) /\ cmd.half \in BOOLEAN /\ ManifestOk(manifest, outputs)
      /\ CmdOk(cmd, manifest, outputs)
  BY <1>1, RunStage
<1>3. manifest.kind = "run" /\ manifest.status = "running"
  BY <1>1, <1>2 DEF CmdOk
<1>4. /\ DOMAIN cmd' = DOMAIN cmd /\ cmd'.kind = cmd.kind /\ cmd'.stages = cmd.stages
      /\ cmd'.todo = cmd.todo /\ cmd'.results = cmd.results
      /\ cmd'.at \in Nat /\ cmd'.at # 0 /\ cmd'.half = ~cmd.half
      /\ ~cmd.half => cmd'.at = cmd.at
      /\ cmd'.half => cmd'.at \in DOMAIN cmd'.results
  BY <1>1, WriteGoesOn
<1>5. CASE cmd.half
  <2>1. SaveOutput /\ UNCHANGED manifest
    BY <1>1, <1>5 DEF PublishRun
  <2>2. outputs \subseteq outputs'
    BY <2>1, SavesOutput
  <2>3. ManifestOk(manifest', outputs')
    BY <1>2, <2>1, <2>2, RecordGrows
  <2>4. cmd'.half = FALSE
    BY <1>2, <1>4, <1>5
  <2>5. Noted(cmd', manifest', outputs')
    BY <1>1, <1>4, <2>4 DEF Noted
  <2>6. ListFits(cmd', manifest', outputs') /\ InOrder(cmd')
    BY <1>1, <2>1, <2>2, StillFits
  <2> QED BY <1>1, <1>2, <1>4, <2>1, <2>2, <2>3, <2>4, <2>5, <2>6, RunGoesOn
<1>6. CASE ~cmd.half
  <2>1. NoteOutput /\ UNCHANGED outputs
    BY <1>1, <1>6 DEF PublishRun
  <2>2. /\ DOMAIN manifest' = DOMAIN manifest /\ manifest'.kind = manifest.kind
        /\ manifest'.status = manifest.status /\ manifest'.goal = manifest.goal
        /\ DOMAIN manifest'.tasks = DOMAIN manifest.tasks
        /\ \A t \in DOMAIN manifest.tasks :
             manifest'.tasks[t] = IF t # Output.task THEN manifest.tasks[t]
                                  ELSE IF Output.ok THEN "completed" ELSE "failed"
    BY <2>1, NotesOutput
  <2>3. ManifestOk(manifest', outputs')
    BY <1>3, <2>2 DEF ManifestOk
  <2>4. Noted(cmd', manifest', outputs')
    BY <1>1, <1>4, <1>6, <2>2 DEF Noted, Output
  <2>5. ListFits(cmd', manifest', outputs') /\ InOrder(cmd')
    BY <1>1, <2>1, <2>2, StillFits
  <2> QED BY <1>1, <1>2, <1>4, <2>1, <2>2, <2>3, <2>4, <2>5, RunGoesOn
<1> QED BY <1>2, <1>5, <1>6

(* auto goes on only when no output has failed: then what is not pending   *)
(* is on record, and so is all of the plan that was not in the list.       *)
LEMMA AdvanceStep ==
  ASSUME AutoInv, Advance PROVE AutoInv'
<1>1. /\ InStage("run") /\ cmd.at > Len(cmd.results)
      /\ outputs' = outputs /\ plan' = plan
  BY DEF Advance, Published
<1>2. /\ cmd # Idle /\ cmd.results \in Seq(Result) /\ cmd.half \in BOOLEAN
      /\ cmd.at \in Nat /\ ManifestOk(manifest, outputs) /\ PlanTyped(plan)
      /\ ListFits(cmd, manifest, outputs) /\ Noted(cmd, manifest, outputs)
      /\ CmdOk(cmd, manifest, outputs) /\ Placed(cmd) /\ Tail(cmd.stages) \in Ending
      /\ DOMAIN manifest = {"kind", "status", "rev", "goal", "tasks"}
  BY <1>1, RunStage
<1>3. cmd.half = FALSE
  BY <1>1, <1>2 DEF Placed
<1>4. CASE (cmd.kind = "run" \/ IsComplete(cmd.results)) /\ NextStage /\ UNCHANGED manifest
  <2>1. cmd.kind = "auto" => IsComplete(cmd.results)
    BY <1>4
  <2>2. cmd.kind = "auto" => SomePending(manifest) \/ AllDone(manifest, outputs)
    <3> SUFFICES ASSUME cmd.kind = "auto", ~SomePending(manifest)
                 PROVE  \A t \in DOMAIN manifest.goal : OnRecord(t, outputs)
      BY DEF AllDone
    <3>1. \A i \in DOMAIN cmd.results : cmd.results[i].ok
      BY <2>1 DEF IsComplete
    <3>2. \A t \in DOMAIN manifest.tasks : OnRecord(t, outputs)
      BY <1>2, <3>1 DEF Noted, SomePending
    <3> QED BY <1>2, <3>2 DEF ListFits
  <2> QED BY <1>1, <1>2, <1>3, <1>4, <2>2, StageDone, StagesApart
<1>5. CASE Finish("failed")
  BY <1>1, <1>2, <1>5, Finishes
<1> QED BY <1>4, <1>5 DEF Advance

LEMMA EndStep ==
  ASSUME AutoInv, End PROVE AutoInv'
<1>1. cmd # Idle /\ cmd.stages = <<>> /\ Finish(FinalStatus) /\ UNCHANGED <<plan, outputs>>
  BY DEF End
<1>2. CmdOk(cmd, manifest, outputs) /\ cmd.stages \in Ending
  BY <1>1, UnderWay, StagesApart
<1>3. FinalStatus = "completed" => ~SomePending(manifest)
  BY DEF FinalStatus, SomePending
<1>4. FinalStatus = "completed" /\ manifest.kind = "auto" => AllDone(manifest, outputs)
  BY <1>2, <1>3 DEF CmdOk
<1> QED BY <1>1, <1>4, Finishes DEF AutoInv

LEMMA InvInit ==
  ASSUME Init PROVE AutoInv
<1>1. /\ manifest.kind = "none" /\ DOMAIN manifest = {"kind", "status", "rev", "goal", "tasks"}
  BY DEF Init
<1>2. DOMAIN Idle = {"kind", "stages", "todo", "results", "at", "half"}
  BY DEF Idle
<1> QED BY <1>1, <1>2 DEF Init, AutoInv, ManifestOk, PlanTyped

LEMMA InvNext ==
  ASSUME AutoInv, [Next]_vars PROVE AutoInv'
<1>1. CASE UNCHANGED vars
  BY <1>1 DEF vars, AutoInv
<1>2. CASE Step
  <2>1. CASE EndInterrupted
    BY <2>1, Finishes DEF EndInterrupted, AutoInv
  <2> QED BY <1>2, <2>1, DraftStep, DraftPlanStep, RunTaskStep, RunStageEndsStep,
            PublishAutoStep, PublishRunStep, AdvanceStep, LearnStep, EndStep DEF Step
<1>3. CASE StageFails \/ Crash
  BY <1>3, Finishes DEF StageFails, Crash, AutoInv
<1>4. CASE Replan
  <2>1. PlanTyped(plan') /\ UNCHANGED <<outputs, manifest, cmd>>
    BY <1>4, NewPlanTyped DEF Replan
  <2> QED BY <2>1 DEF AutoInv
<1>5. CASE Approve
  <2>1. plan \in [rev : Nat, deps : Graphs, approved : BOOLEAN]
        /\ plan' = [plan EXCEPT !.approved = TRUE] /\ UNCHANGED <<outputs, manifest, cmd>>
    BY <1>5 DEF Approve, AutoInv, PlanTyped
  <2>2. PlanTyped(plan')
    BY <2>1 DEF PlanTyped
  <2> QED BY <2>1, <2>2 DEF AutoInv
<1> QED BY <1>1, <1>2, <1>3, <1>4, <1>5, BeginAutoStep, BeginRunStep, BeginResumeStep DEF Next

(* What a command has in hand makes up the plan with what is on record     *)
(* (auto.ts resolveAutoResume, planPendingRunTasks; run.ts).               *)
THEOREM AutoInvariant == Spec => []AutoInv
BY InvInit, InvNext, PTL DEF Spec

(* No task is executed before its dependencies are, in this command or one *)
(* before it, and auto executes nothing that is on record as completed     *)
(* (auto.ts completedRunTaskIds, planPendingRunTasks).                     *)
THEOREM DependenciesComeFirst == Spec => []RunsWhatIsLeft
<1>1. AutoInv => RunsWhatIsLeft
  <2> SUFFICES ASSUME AutoInv, NEW i \in DOMAIN cmd.results
               PROVE  /\ \A d \in manifest.goal[cmd.results[i].of] :
                           \/ Done(d)
                           \/ \E j \in 1..(i - 1) : cmd.results[j].of = d /\ cmd.results[j].ok
                      /\ cmd.kind = "auto" /\ cmd.at = 0 => ~Done(cmd.results[i].of)
    BY DEF RunsWhatIsLeft
  <2>1. cmd # Idle /\ cmd.results # <<>>
    BY IdleStands
  <2>2. CmdOk(cmd, manifest, outputs) /\ Placed(cmd)
    BY <2>1, UnderWay
  <2>3. cmd.stages \in Running
    BY <2>1, <2>2 DEF Placed
  <2>4. ListFits(cmd, manifest, outputs) /\ InOrder(cmd)
    BY <2>2, <2>3 DEF CmdOk
  <2>5. \A d : OnRecord(d, outputs) <=> Done(d)
    BY DEF OnRecord, Done, CompleteOutputs
  <2> QED BY <2>4, <2>5 DEF ListFits, InOrder
<1> QED BY <1>1, AutoInvariant, PTL

(* What auto ends as completed leaves no task of the plan without a        *)
(* completed output, unless it has only drafted it (auto.ts).              *)
THEOREM CompletedIsComplete == Spec => []CompletedMeansAll
<1>1. AutoInv => CompletedMeansAll
  <2> SUFFICES ASSUME AutoInv, manifest.kind = "auto", manifest.status = "completed"
               PROVE  \/ CompletedTasks(manifest.goal) = DOMAIN manifest.goal
                      \/ \A t \in DOMAIN manifest.goal :
                           t \in DOMAIN manifest.tasks /\ manifest.tasks[t] = "skipped"
    BY DEF CompletedMeansAll
  <2>1. AllDone(manifest, outputs)
    BY DEF AutoInv, ManifestOk
  <2>2. \A t : t \in CompletedTasks(manifest.goal) <=> t \in DOMAIN manifest.goal /\ OnRecord(t, outputs)
    BY CompletedOnRecord
  <2> QED BY <2>1, <2>2 DEF AllDone
<1> QED BY <1>1, AutoInvariant, PTL

(***************************************************************************)
(* How far one record may be ahead of the other.                           *)
(***************************************************************************)
(* Tasks the session has completed and the manifest has not heard of.      *)
Ahead(m, outs) == {t \in DOMAIN m.tasks : m.tasks[t] = "pending" /\ OnRecord(t, outs)}

(* While auto is under way only the output being published is ahead; what  *)
(* run has published before it is on record.                               *)
AheadInv ==
  /\ manifest.kind = "auto" => \A t, u \in Ahead(manifest, outputs) : t = u
  /\ cmd.kind = "auto" =>
       \A t \in Ahead(manifest, outputs) : InStage("run") /\ cmd.half /\ t = Output.task
  /\ cmd.kind = "run" /\ InStage("run") =>
       \A i \in 1..(cmd.at - 1) \cap DOMAIN cmd.results : Saved(cmd.results[i]) \in outputs

LEMMA AheadFinishes ==
  ASSUME AutoInv, AheadInv, NEW status, Finish(status), outputs' = outputs
  PROVE  AheadInv'
<1>1. manifest'.kind = manifest.kind /\ manifest'.tasks = manifest.tasks /\ cmd' = Idle
  BY DEF Finish, AutoInv
<1> QED BY <1>1, IdleStands DEF AheadInv, Ahead

LEMMA AheadStarts ==
  ASSUME NEW kind \in {"auto", "run"}, NEW stages, NEW todo, Starting(kind, stages, todo),
         kind = "auto" => \A t \in DOMAIN todo : ~OnRecord(t, outputs)
  PROVE  AheadInv'
<1>1. /\ cmd'.kind = kind /\ cmd'.at = 0 /\ manifest'.kind = kind
      /\ DOMAIN manifest'.tasks = DOMAIN todo /\ outputs' = outputs
  BY StartingAs
<1>2. 1..(cmd'.at - 1) = {}
  BY <1>1
<1> QED BY <1>1, <1>2 DEF AheadInv, Ahead

(* The next stage, which is not the run.                                   *)
LEMMA AheadNextStage ==
  ASSUME AutoInv, AheadInv, NextStage, outputs' = outputs, cmd.half = FALSE,
         Tail(cmd.stages) \in Drafting \cup Ending, cmd.kind # "auto" => cmd.kind = "run",
         manifest'.kind = manifest.kind, manifest.kind = cmd.kind,
         \A t \in DOMAIN manifest'.tasks : manifest'.tasks[t] = "pending" =>
           t \in DOMAIN manifest.tasks /\ manifest.tasks[t] = "pending"
  PROVE  AheadInv'
<1>1. cmd'.kind = cmd.kind /\ cmd'.stages = Tail(cmd.stages)
  BY NextStageTo
<1>2. ~(InStage("run"))'
  <2>1. ASSUME NEW st \in Drafting \cup Ending PROVE ~(st # <<>> /\ Head(st) = "run")
    BY <2>1 DEF Drafting, Ending
  <2> QED BY <1>1, <2>1 DEF InStage
<1>3. Ahead(manifest', outputs') \subseteq Ahead(manifest, outputs)
  BY DEF Ahead
<1>4. cmd.kind = "auto" => Ahead(manifest', outputs') = {}
  BY <1>3 DEF AheadInv
<1> QED BY <1>1, <1>2, <1>3, <1>4 DEF AheadInv

LEMMA AheadBegins ==
  ASSUME AutoInv, NEW dryRun \in BOOLEAN, NEW skipLearn \in BOOLEAN,
         BeginAuto \/ BeginRun \/ BeginResume(dryRun, skipLearn)
  PROVE  AheadInv'
<1>1. CASE BeginAuto
  <2>1. PICK stages : Starting("auto", stages, <<>>)
    BY <1>1 DEF BeginAuto
  <2> QED BY <2>1, AheadStarts
<1>2. CASE BeginRun
  BY <1>2, AheadStarts DEF BeginRun
<1>3. CASE BeginResume(dryRun, skipLearn)
  <2> DEFINE stages == StagesLeft(dryRun, skipLearn)
             todo == IF stages # <<>> /\ Head(stages) = "run" THEN PendingTasks(plan.deps) ELSE <<>>
  <2>1. Starting("auto", stages, todo)
    BY <1>3 DEF BeginResume
  <2>2. \A t \in DOMAIN PendingTasks(plan.deps) : ~OnRecord(t, outputs)
    BY PendingFits, CompletedOnRecord
  <2>3. \A t \in DOMAIN todo : ~OnRecord(t, outputs)
    BY <2>2
  <2> HIDE DEF stages, todo
  <2> QED BY <2>1, <2>3, AheadStarts
<1> QED BY <1>1, <1>2, <1>3

LEMMA AheadDrafts ==
  ASSUME AutoInv, AheadInv, Draft \/ DraftPlan \/ Learn PROVE AheadInv'
<1>0. outputs' = outputs
  BY DEF Draft, DraftPlan, Learn
<1>1. PICK s \in {"explore", "snapshot", "plan", "learn"} : InStage(s)
  BY DEF Draft, DraftPlan, Learn
<1>2. /\ CmdOk(cmd, manifest, outputs) /\ Placed(cmd)
      /\ cmd.stages \in Drafting \cup Ending /\ Tail(cmd.stages) \in Drafting \cup Ending
  BY <1>1, StageOfCommand, StagesApart
<1>3. /\ cmd.half = FALSE /\ manifest.kind = cmd.kind /\ cmd.kind \in {"auto", "run"}
  BY <1>2, StagesApart DEF Placed, CmdOk
<1>4. CASE \E status : Finish(status)
  BY <1>0, <1>4, AheadFinishes
<1>5. CASE NextStage /\ UNCHANGED manifest
  BY <1>0, <1>2, <1>3, <1>5, AheadNextStage
<1>6. CASE NextStage /\ manifest' = [manifest EXCEPT !.rev = plan'.rev, !.goal = plan'.deps,
                                        !.tasks = ManifestTasks(plan'.deps, "skipped")]
  <2>1. /\ manifest'.kind = manifest.kind
        /\ \A t \in DOMAIN manifest'.tasks : manifest'.tasks[t] = "skipped"
    BY <1>6 DEF AutoInv, ManifestTasks
  <2> QED BY <1>0, <1>2, <1>3, <1>6, <2>1, AheadNextStage
<1> QED BY <1>4, <1>5, <1>6 DEF Draft, DraftPlan, Learn

(* Before the first write of a run stage nothing is ahead.                 *)
LEMMA AheadRuns ==
  ASSUME AutoInv, AheadInv, RunStageEnds \/ \E t \in Tasks : RunTask(t) PROVE AheadInv'
<1>1. /\ InStage("run") /\ cmd.at = 0 /\ UNCHANGED <<outputs, manifest>>
      /\ DOMAIN cmd = {"kind", "stages", "todo", "results", "at", "half"} /\ Placed(cmd)
  BY RunStage DEF RunStageEnds, RunTask
<1>2. cmd.half = FALSE
  BY <1>1 DEF Placed
<1>3. cmd'.kind = cmd.kind /\ cmd'.at \in {0, 1}
  BY <1>1 DEF RunStageEnds, RunTask
<1>4. 1..(cmd'.at - 1) = {}
  BY <1>3
<1> QED BY <1>1, <1>2, <1>3, <1>4 DEF AheadInv

LEMMA AheadPublishAuto ==
  ASSUME AutoInv, AheadInv, PublishAuto PROVE AheadInv'
<1>1. Publishing /\ InStage("run") /\ cmd.kind = "auto" /\ OneWrite
  BY DEF PublishAuto, Publishing
<1>2. /\ cmd'.kind = cmd.kind /\ cmd'.stages = cmd.stages /\ cmd'.results = cmd.results
      /\ cmd'.half = ~cmd.half /\ cmd.half \in BOOLEAN
      /\ ~cmd.half => cmd'.at = cmd.at
  BY <1>1, WriteGoesOn, RunStage
<1>3. InStage("run")'
  BY <1>1, <1>2 DEF InStage
<1>4. CASE ~cmd.half
  <2>1. SaveOutput /\ UNCHANGED manifest
    BY <1>1, <1>4 DEF PublishAuto
  <2>2. Ahead(manifest, outputs) = {}
    BY <1>1, <1>4 DEF AheadInv
  <2>3. \A t : OnRecord(t, outputs') => OnRecord(t, outputs) \/ t = Output.task
    BY <2>1 DEF SaveOutput, Saved, OnRecord
  <2>4. \A t \in Ahead(manifest', outputs') : t = Output.task
    BY <2>1, <2>2, <2>3 DEF Ahead
  <2>5. Output' = Output /\ cmd'.half
    BY <1>2, <1>4 DEF Output
  <2> QED BY <1>1, <1>2, <1>3, <2>4, <2>5 DEF AheadInv
<1>5. CASE cmd.half
  <2>1. NoteOutput /\ UNCHANGED outputs
    BY <1>1, <1>5 DEF PublishAuto
  <2>2. /\ DOMAIN manifest'.tasks = DOMAIN manifest.tasks
        /\ \A t \in DOMAIN manifest.tasks :
             manifest'.tasks[t] = IF t # Output.task THEN manifest.tasks[t]
                                  ELSE IF Output.ok THEN "completed" ELSE "failed"
    BY <2>1, NotesOutput
  <2>3. \A t \in Ahead(manifest, outputs) : t = Output.task
    BY <1>1 DEF AheadInv
  <2>4. Ahead(manifest', outputs') = {}
    BY <2>1, <2>2, <2>3 DEF Ahead
  <2> QED BY <1>1, <1>2, <2>4 DEF AheadInv
<1> QED BY <1>2, <1>4, <1>5

LEMMA AheadPublishRun ==
  ASSUME AutoInv, AheadInv, PublishRun PROVE AheadInv'
<1>1. Publishing /\ InStage("run") /\ cmd.kind = "run" /\ OneWrite
  BY DEF PublishRun, Publishing
<1>2. /\ cmd'.kind = cmd.kind /\ cmd'.stages = cmd.stages /\ cmd'.results = cmd.results
      /\ cmd'.half = ~cmd.half /\ cmd.half \in BOOLEAN
      /\ ~cmd.half => cmd'.at = cmd.at
      /\ cmd.at \in Nat /\ CmdOk(cmd, manifest, outputs)
      /\ cmd.results \in Seq(Result)
      /\ DOMAIN cmd = {"kind", "stages", "todo", "results", "at", "half"}
  BY <1>1, WriteGoesOn, RunStage
<1>3. \A i \in 1..(cmd.at - 1) \cap DOMAIN cmd.results : Saved(cmd.results[i]) \in outputs
  BY <1>1 DEF AheadInv
<1>4. manifest.kind = "run"
  BY <1>1, <1>2 DEF CmdOk
<1>5. CASE cmd.half
  <2>1. SaveOutput /\ UNCHANGED manifest
    BY <1>1, <1>5 DEF PublishRun
  <2>2. outputs' = outputs \cup {Saved(cmd.results[cmd.at])}
    BY <2>1 DEF SaveOutput, Output
  <2>3. cmd'.at = cmd.at + 1
    BY <1>1, <1>2, <1>5 DEF OneWrite
  <2>4. \A i \in 1..(cmd'.at - 1) : i \in 1..(cmd.at - 1) \/ i = cmd.at
    BY <1>2, <2>3
  <2>5. \A i \in 1..(cmd'.at - 1) \cap DOMAIN cmd'.results : Saved(cmd.results[i])' \in outputs'
    BY <1>2, <1>3, <2>1, <2>2, <2>4 DEF Saved
  <2> QED BY <1>1, <1>2, <1>4, <2>1, <2>5 DEF AheadInv, Saved
<1>6. CASE ~cmd.half
  <2>1. NoteOutput /\ UNCHANGED outputs
    BY <1>1, <1>6 DEF PublishRun
  <2>2. manifest'.kind = manifest.kind /\ manifest'.rev = manifest.rev
    BY <2>1 DEF NoteOutput, AutoInv
  <2>3. \A i \in 1..(cmd'.at - 1) \cap DOMAIN cmd'.results : Saved(cmd.results[i])' \in outputs'
    BY <1>2, <1>3, <1>6, <2>1, <2>2 DEF Saved
  <2> QED BY <1>1, <1>2, <1>4, <2>2, <2>3 DEF AheadInv, Saved
<1> QED BY <1>2, <1>5, <1>6

LEMMA AheadAdvances ==
  ASSUME AutoInv, AheadInv, Advance PROVE AheadInv'
<1>1. /\ InStage("run") /\ cmd.at > Len(cmd.results) /\ outputs' = outputs
      /\ (NextStage /\ UNCHANGED manifest) \/ Finish("failed")
  BY DEF Advance, Published
<1>2. /\ CmdOk(cmd, manifest, outputs) /\ Placed(cmd) /\ Tail(cmd.stages) \in Ending
      /\ cmd.results \in Seq(Result) /\ cmd.at \in Nat
  BY <1>1, RunStage
<1>3. cmd.at \notin DOMAIN cmd.results
  BY <1>1, <1>2
<1>4. cmd.half = FALSE /\ manifest.kind = cmd.kind /\ cmd.kind \in {"auto", "run"}
  BY <1>2, <1>3 DEF Placed, CmdOk
<1>5. CASE NextStage /\ UNCHANGED manifest
  BY <1>1, <1>2, <1>4, <1>5, AheadNextStage
<1> QED BY <1>1, <1>5, AheadFinishes

LEMMA AheadStep ==
  ASSUME AutoInv, AheadInv, [Next]_vars PROVE AheadInv'
<1>1. CASE UNCHANGED <<outputs, manifest, cmd>>
  BY <1>1 DEF AheadInv, Ahead, InStage, Output, Saved
<1>2. CASE UNCHANGED vars \/ Replan \/ Approve
  BY <1>1, <1>2 DEF vars, Replan, Approve
<1>3. CASE End \/ EndInterrupted \/ StageFails \/ Crash
  BY <1>3, AheadFinishes DEF End, EndInterrupted, StageFails, Crash
<1>4. CASE Step
  BY <1>3, <1>4, AheadDrafts, AheadRuns, AheadPublishAuto, AheadPublishRun, AheadAdvances DEF Step
<1>5. CASE BeginAuto \/ BeginRun \/ \E dryRun, skipLearn \in BOOLEAN : BeginResume(dryRun, skipLearn)
  BY <1>5, AheadBegins
<1> QED BY <1>2, <1>3, <1>4, <1>5 DEF Next

(* Wherever a command dies between the two writes of an output: auto's     *)
(* manifest has no task completed that the session lacks, and the session  *)
(* is one task ahead of it at the most; run's session is never ahead of    *)
(* its manifest, and lacks no output before the one it is publishing       *)
(* (auto.ts, run.ts).                                                      *)
THEOREM NoRecordIsAhead == Spec => []NeitherIsAhead
<1>1. Init => AheadInv
  BY IdleStands DEF Init, AheadInv
<1>2. Spec => []AheadInv
  <2>1. AutoInv /\ AutoInv' /\ AheadInv /\ [Next]_vars => AheadInv'
    BY AheadStep
  <2> QED BY <1>1, <2>1, AutoInvariant, PTL DEF Spec
<1>3. AutoInv /\ AheadInv => NeitherIsAhead
  <2> SUFFICES ASSUME AutoInv, AheadInv PROVE NeitherIsAhead
    OBVIOUS
  <2>1. \A t : Done(t) <=> OnRecord(t, outputs)
    BY DEF Done, CompleteOutputs, OnRecord
  <2>2. manifest.kind = "auto" =>
          \A t \in DOMAIN manifest.tasks : manifest.tasks[t] = "completed" => Done(t)
    BY <2>1 DEF AutoInv, ManifestOk
  <2>3. manifest.kind = "auto" =>
          LET ahead == {t \in DOMAIN manifest.tasks : manifest.tasks[t] = "pending" /\ Done(t)}
          IN  \A t, u \in ahead : t = u
    BY <2>1 DEF AheadInv, Ahead
  <2>4. ASSUME InStage("run"), cmd.kind = "run", cmd.half, Output.task \in DOMAIN manifest.tasks
        PROVE  manifest.tasks[Output.task] # "pending"
    <3>1. Noted(cmd, manifest, outputs)
      BY <2>4, RunStage
    <3> QED BY <2>4, <3>1 DEF Noted, Output
  <2> QED BY <2>2, <2>3, <2>4 DEF NeitherIsAhead, AheadInv
<1> QED BY <1>2, <1>3, AutoInvariant, PTL
=============================================================================
