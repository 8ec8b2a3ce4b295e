---------------------------- MODULE StageDialog -----------------------------
(***************************************************************************)
(* The questions of a stage: asked in the terminal for a few rounds, or    *)
(* left on record, answered elsewhere, and the stage asked for again.      *)
(* packages/cli: commands/explore.ts, snapshot.ts, plan.ts, evolve.ts,     *)
(* learn.ts, run.ts and auto.ts; packages/pipeline: session.ts (the        *)
(* answers) and slad.ts (what a front end shows of a session and what it   *)
(* would run next).  The front end itself is not in the repository; it     *)
(* takes no lock, and a person may answer while a command is under way.    *)
(***************************************************************************)
EXTENDS Naturals, Sequences, FiniteSets

CONSTANTS
  Questions,    \* the ids a model gives its questions
  MaxRounds,    \* of questions in one dialog: 3
  MaxCommands,  \* bound: the commands that are given
  None

ASSUME BoundsAssumption == MaxRounds \in Nat \ {0} /\ MaxCommands \in Nat

VARIABLES
  last,         \* the last artifact of every stage
  session,      \* the session file: its humanAnswers, and the stages whose
                \* blocked_action was answered after their last artifact
  cmd,          \* the command under way, or None
  given,        \* commands so far
  said          \* history: what a person answered last about a question, when
                \* no command was under way

vars == <<last, session, cmd, given, said>>

(* SLAD_PIPELINE_STAGES                                                    *)
Stages == <<"explore", "snapshot", "plan", "run", "learn", "evolve">>
StageSet == {Stages[i] : i \in DOMAIN Stages}

(* A question of a blocked task: what to do about it.                      *)
BlockedAction == "blocked_action"

(* open (history): the output that was saved waited for a person.          *)
Artifact ==
  [status: {"completed", "awaiting", "blocked", "failed", "envelope"},
   asks: SUBSET Questions, followUps: BOOLEAN, open: BOOLEAN]

Answer == [about: StageSet, q: Questions \cup {BlockedAction}, blank: BOOLEAN]

Session == [answers: SUBSET Answer, acted: SUBSET StageSet]

Settled(status) == [status |-> status, asks |-> {}, followUps |-> FALSE, open |-> FALSE]

(* A session is new, or has been planned without a question.               *)
Init ==
  /\ last \in {[s \in StageSet |-> None],
              [s \in StageSet |->
                CASE s \in {"explore", "snapshot"} -> Settled("completed")
                  [] s = "plan"                    -> Settled("envelope")
                  [] OTHER                         -> None]}
  /\ session = [answers |-> {}, acted |-> {}]
  /\ cmd = None
  /\ given = 0
  /\ said = {}

(***************************************************************************)
(* What a front end shows: the status of a stage whose last artifact is a. *)
(***************************************************************************)
HasAnswer(ses, s, q) == \E x \in ses.answers : x.about = s /\ x.q = q /\ ~x.blank

(* artifactNeedsResume                                                     *)
NeedsResume(s, a, ses) ==
  a.status = "awaiting" /\ \A q \in a.asks : HasAnswer(ses, s, q)

(* artifactHasHumanBlock                                                   *)
HasHumanBlock(s, a, ses) ==
  \/ \E q \in a.asks : ~HasAnswer(ses, s, q)
  \/ a.asks = {} /\ a.status = "awaiting"
  \/ a.asks = {} /\ a.status \in {"blocked", "failed"} /\ a.followUps /\ s \notin ses.acted

(* stageStatusesForSession                                                 *)
StageStatus(s, a, ses) ==
  CASE a = None                             -> "pending"
    [] a # None /\ NeedsResume(s, a, ses)   -> "pending"
    [] a # None /\ ~NeedsResume(s, a, ses) /\ HasHumanBlock(s, a, ses) -> "await"
    [] OTHER -> IF a.status \in {"blocked", "failed"} THEN "failed" ELSE "done"

StatusNow(s) == StageStatus(s, last[s], session)

(* A mutant: a stage that waits for a person is no next stage.             *)
NextStageUnasked ==
  LET open == {i \in DOMAIN Stages : StatusNow(Stages[i]) \in {"pending", "failed"}}
  IN IF open = {} THEN 0 ELSE CHOOSE i \in open : \A j \in open : i <= j

(* nextPipelineStageFromProgress: its index, 0 when there is none.         *)
NextStage ==
  LET open == {i \in DOMAIN Stages : StatusNow(Stages[i]) # "done"}
  IN IF open = {} THEN 0 ELSE CHOOSE i \in open : \A j \in open : i <= j

(* What there is to answer about a stage.                                  *)
Shown(a) == IF a.asks # {} THEN a.asks ELSE {BlockedAction}

(***************************************************************************)
(* A command starts, with or without a terminal.  It reads the session     *)
(* then and never again, and told says whether its model gets the answers  *)
(* with its prompt and may ask back.                                       *)
(***************************************************************************)
Starts(s, told, rounds, heard) ==
  /\ cmd = None /\ given < MaxCommands /\ given' = given + 1
  /\ \E tty \in BOOLEAN :
       cmd' = [stage |-> s, told |-> told, done |-> FALSE, rounds |-> rounds, calls |-> 0,
               tty |-> tty, heard |-> heard, unsent |-> FALSE, session |-> session,
               status |-> "completed", asks |-> {}, followUps |-> FALSE]
  /\ UNCHANGED <<last, session, said>>

About(s) == {x \in session.answers : x.about = s}

Resumes == About("explore") # {} /\ last["explore"] # None
             /\ last["explore"].status = "awaiting"

(* A mutant: the answers to an explore that is taken up again are left out *)
(* of its context and not said in the dialog either.                       *)
BeginExploreUntold ==
  IF Resumes THEN Starts("explore", TRUE, 1, session.answers \ About("explore"))
  ELSE Starts("explore", TRUE, 0, session.answers)

(* explore takes an unresolved dialog up again: the answers of others come *)
(* with the context, its own as the next thing said in the dialog.         *)
BeginExplore ==
  IF Resumes
  THEN Starts("explore", TRUE, 1, (session.answers \ About("explore")) \cup About("explore"))
  ELSE Starts("explore", TRUE, 0, session.answers)

(* sessionContextBlock, in the prompts of these three.                     *)
BeginSnapshot == Starts("snapshot", TRUE, 0, session.answers)

BeginPlan == last["snapshot"] # None /\ Starts("plan", TRUE, 0, session.answers)

BeginEvolve == Starts("evolve", TRUE, 0, session.answers)

(* The stages of the pipeline, which learn, run and auto go through, are   *)
(* told of the output before them and of nothing else.  What auto explores *)
(* and snapshots is not saved; its plan is, and its run and learn are as   *)
(* those of the commands.                                                  *)
BeginLearn == last["run"] # None /\ Starts("learn", FALSE, 0, {})
BeginRun   == last["plan"] # None /\ Starts("run", FALSE, 0, {})
BeginAuto  == Starts("plan", FALSE, 0, {})

(***************************************************************************)
(* The dialog.                                                             *)
(***************************************************************************)
(* A mutant: one round more.                                               *)
ExhaustedLate == cmd.rounds > MaxRounds
Exhausted == cmd.rounds >= MaxRounds

(* The model answers: done, or with questions.  They are put to the person *)
(* at the terminal, and what the person says is sent in the next round.    *)
Call ==
  /\ cmd # None /\ ~cmd.done /\ cmd.told
  /\ \E status \in {"completed", "awaiting"}, asks \in SUBSET Questions :
       LET over == \/ status # "awaiting" \/ asks = {}
                   \/ Exhausted \/ ~cmd.tty
           next == cmd.rounds + 1
           ends == over \/ next > MaxRounds
       IN cmd' = [cmd EXCEPT
            !.status = IF ends THEN status ELSE @,
            !.asks   = IF ends THEN asks ELSE @,
            !.rounds = IF over THEN @ ELSE next,
            !.calls = @ + 1, !.done = ends, !.unsent = ~over]
  /\ UNCHANGED <<last, session, given, said>>

(* What a stage of the pipeline may answer.  What it asks, plan makes an   *)
(* open point of its text (stages/plan.ts:46-50), and run, for which       *)
(* normalizeAwaitingHuman knows no waiting, a blocked task.                *)
PipeAnswers(s) ==
  CASE s = "plan"  -> {Settled("completed")}
    [] s = "run"   -> {a \in [status: {"completed", "blocked", "failed"}, asks: SUBSET Questions,
                              followUps: BOOLEAN, open: {FALSE}] :
                        a.followUps => a.status # "completed" /\ a.asks = {}}
    [] s = "learn" -> [status: {"completed", "awaiting"}, asks: SUBSET Questions,
                       followUps: {FALSE}, open: {FALSE}]

PipeCall ==
  /\ cmd # None /\ ~cmd.done /\ ~cmd.told
  /\ \E a \in PipeAnswers(cmd.stage) :
       cmd' = [cmd EXCEPT !.status = a.status, !.asks = a.asks, !.followUps = a.followUps,
                          !.calls = @ + 1, !.done = TRUE]
  /\ UNCHANGED <<last, session, given, said>>

(* The provider or a parser fails, or the process dies.                    *)
Fail ==
  /\ cmd # None /\ cmd' = None
  /\ UNCHANGED <<last, session, given, said>>

(* The artifact is written, then the session, as it was when the command   *)
(* began.  A plan is saved as an envelope, which shows neither a status    *)
(* nor questions.                                                          *)
Save ==
  /\ cmd # None /\ cmd.done
  /\ last' = [last EXCEPT ![cmd.stage] =
       IF cmd.stage = "plan"
       THEN [Settled("envelope") EXCEPT !.open = (cmd.status = "awaiting")]
       ELSE [status |-> cmd.status, asks |-> cmd.asks, followUps |-> cmd.followUps,
             open |-> cmd.status = "awaiting"]]
  /\ session' = [cmd.session EXCEPT !.acted = @ \ {cmd.stage}]
  /\ cmd' = None
  /\ UNCHANGED <<given, said>>

(***************************************************************************)
(* A person answers, in the front end.                                     *)
(***************************************************************************)
Others(ans, s, q) == {x \in ans : ~(x.about = s /\ x.q = q)}

(* upsertSessionAnswers                                                    *)
Upsert(ans, s, q, blank) == Others(ans, s, q) \cup {[about |-> s, q |-> q, blank |-> blank]}

Respond(s, q, blank) ==
  /\ last[s] # None /\ StatusNow(s) = "await" /\ q \in Shown(last[s])
  /\ session' = [answers |-> Upsert(session.answers, s, q, blank),
                 acted   |-> IF q = BlockedAction THEN session.acted \cup {s} ELSE session.acted]
  /\ said' = IF cmd = None THEN Upsert(said, s, q, blank) ELSE Others(said, s, q)
  /\ UNCHANGED <<last, cmd, given>>

(* The commands: where each starts, and its dialog.                        *)
Dialog(s) == cmd # None /\ cmd.stage = s /\ (Call \/ PipeCall \/ Fail \/ Save)

ExploreCommand  == BeginExplore \/ Dialog("explore")
SnapshotCommand == BeginSnapshot \/ Dialog("snapshot")
PlanCommand     == BeginPlan \/ BeginAuto \/ Dialog("plan")
RunCommand      == BeginRun \/ Dialog("run")
LearnCommand    == BeginLearn \/ Dialog("learn")
EvolveCommand   == BeginEvolve \/ Dialog("evolve")

Next ==
  \/ ExploreCommand \/ SnapshotCommand \/ PlanCommand \/ LearnCommand
  \/ EvolveCommand \/ RunCommand
  \/ \E s \in StageSet, q \in Questions \cup {BlockedAction}, blank \in BOOLEAN :
       Respond(s, q, blank)

Spec == Init /\ [][Next]_vars

(***************************************************************************)
(* What has to be true.                                                    *)
(***************************************************************************)
(* The variables keep to their sets; one answer to a question at a time.   *)
TypeOK ==
  /\ last \in [StageSet -> Artifact \cup {None}]
  /\ session \in Session /\ said \subseteq Answer
  /\ \A x, y \in session.answers : x.about = y.about /\ x.q = y.q => x = y

(* A dialog calls its model at most once more than it has rounds, all that *)
(* a person has said in it was sent, and what is saved with questions open *)
(* had no terminal or has gone all its rounds.                             *)
DialogIsBounded ==
  TypeOK /\ (cmd # None =>
    /\ cmd.calls <= MaxRounds + 1
    /\ cmd.done => ~cmd.unsent
    /\ cmd.done /\ cmd.told /\ cmd.status = "awaiting" /\ cmd.asks # {} =>
         ~cmd.tty \/ cmd.rounds = MaxRounds)

(* What a person answered while no command was under way, about whatever   *)
(* stage and however many commands ago, is on record until it is answered  *)
(* again, though every command writes the session back as it had read it;  *)
(* and every explore, snapshot, plan and evolve since has told its model   *)
(* of it.  run, learn and auto tell theirs of no answer.                   *)
AnswersAreHeard ==
  /\ said \subseteq session.answers
  /\ cmd # None /\ cmd.told => said \subseteq cmd.heard

(* Not so: that an answer stays on record whenever it is given.  One given *)
(* while a command is under way is gone when that command saves the        *)
(* session (explore.ts:139 and 273, and the like of the others).           *)
AnswersStay ==
  [][\A x \in session.answers :
       \E y \in session'.answers : y.about = x.about /\ y.q = x.q]_vars

(* A stage that waits for a person no longer does once everything shown is *)
(* answered.                                                               *)
AwaitIsLeft ==
  \A s \in StageSet : StatusNow(s) = "await" =>
    StageStatus(s, last[s],
      [answers |-> session.answers
                     \cup {[about |-> s, q |-> q, blank |-> FALSE] : q \in Shown(last[s])},
       acted   |-> session.acted \cup {s}])
      # "await"

(* What would be run next is never past a stage, other than plan, whose    *)
(* last output waited for a person, be it answered by now or not; and no   *)
(* such stage is stuck.                                                    *)
NothingPassedOver ==
  /\ AwaitIsLeft
  /\ \A i \in DOMAIN Stages :
       Stages[i] # "plan" /\ last[Stages[i]] # None /\ last[Stages[i]].open =>
         NextStage # 0 /\ NextStage <= i

(* Not so: the same of plan.  Its envelope (plan.ts:497-520) hides status  *)
(* and questions from slad.ts:310-317, and a plan that waited for a person *)
(* counts as done.                                                         *)
PlanIsNotPassedOver ==
  last["plan"] # None /\ last["plan"].open => NextStage # 0 /\ NextStage <= 3
=============================================================================
