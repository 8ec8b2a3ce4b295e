---------------------------- MODULE PlanApproval ----------------------------
(***************************************************************************)
(* One session's plan: written pending, edited by the user, approved or    *)
(* rejected, superseded by the next one, executed.  packages/cli:          *)
(* persistence/index.ts (the plan approval API), core/session.ts,          *)
(* core/plan-preflight.ts, commands/plan.ts, core/plan-import.ts, and what *)
(* the stage commands, auto.ts and run.ts do with the session and its plan.*)
(*                                                                         *)
(* None of these commands takes a lock (run does so only with worktrees).  *)
(* Every one reads the session once, and writes all of it back later on;   *)
(* every read of the plan file and every write of it is a step.            *)
(***************************************************************************)
EXTENDS Naturals, FiniteSets

CONSTANTS
  Procs,        \* invocations of slad, each gives one command
  Bodies,       \* what a plan may say
  Sound,        \* the bodies the preflight of the task graph and files admits
  Kinds,        \* the commands that are given
  MaxEdits,     \* bound: the times the user edits the plan file
  MaxAtOnce,    \* bound: the invocations under way at a time
  NoPlan, Torn, Nobody

StageKinds == {"learn", "evolve"}
PlanKinds  == {"plan", "import", "auto"}       \* those that may write a plan

ASSUME KindsAssumption ==
  Kinds \subseteq StageKinds \cup PlanKinds \cup
                  {"approve", "reject", "run", "bypass", "resume"}
ASSUME BodiesAssumption == Sound \subseteq Bodies /\ MaxEdits \in Nat
ASSUME MaxAtOnceAssumption == MaxAtOnce \in Nat \ {0}

VARIABLES
  plan,         \* the file at the session's plan path
  archive,      \* the copies that were superseded
  session,      \* the artifacts on record in the session file, or Torn
  me,           \* every invocation: where it is and what it holds in memory
  edits,        \* edits made so far
  history       \* of decisions and executions, for the properties only

vars == <<plan, archive, session, me, edits, history>>

Statuses == {"pending", "approved", "rejected", "superseded"}

Envelope == [v: {1, 2}, rev: Nat, origin: Procs \cup {Nobody}, body: Bodies,
             status: Statuses, hash: Bodies]

ASSUME NoPlanAssumption == NoPlan \notin Envelope

Artifact == [kind: StageKinds \cup {"snapshot", "plan", "run"}, by: Procs \cup {Nobody}]

(***************************************************************************)
(* Reading a plan.  The hash of a body is the body: sha256 of a canonical  *)
(* form.  A file of version 1 carries no decision.  A decision about       *)
(* another body is stale: the plan is pending again.                       *)
(***************************************************************************)
(* A mutant: the decision is kept, whatever the body says now.             *)
StaleNever(f) == FALSE

Stale(f) == f.v = 2 /\ f.hash # f.body /\ f.status # "pending"

Fresh(f) == [f EXCEPT !.hash = f.body,
                      !.status = IF Stale(f) \/ f.v = 1 THEN "pending" ELSE @]

(* The blockers of the preflight of a plan that was read from f.           *)
Blockers(f, mode) ==
  {c \in {"plan", "hash.mismatch", "not-approved", "superseded"} :
     \/ c = "plan" /\ f.body \notin Sound
     \/ c = "hash.mismatch" /\ mode = "run" /\ Stale(f)
     \/ c = "not-approved" /\ mode = "run" /\ Fresh(f).status # "approved"
     \/ c = "superseded" /\ mode = "approve" /\ Fresh(f).status = "superseded"}

(* A mutant: --bypass forgives the task graph too.                         *)
BypassableMore == {"not-approved", "plan"}

(* --bypass forgives one blocker only.                                     *)
Bypassable == {"not-approved"}

GatePasses(f, mode, bypass) ==
  Blockers(f, mode) \subseteq (IF bypass THEN Bypassable ELSE {})

(***************************************************************************)
(* The session file.                                                       *)
(***************************************************************************)
Has(arts, kind) == \E a \in arts : a.kind = kind

(* A file that was cut short cannot be parsed, and the command ends.       *)
Loadable == session # Torn

(* readSessionPlan: the plan on record, when its file is there.            *)
Readable(arts) == Has(arts, "plan") /\ plan # NoPlan

NewMe(arts, kind) == [pc |-> "begin", kind |-> kind, arts |-> arts, what |-> kind,
                      body |-> NoPlan, prev |-> NoPlan]

Goto(p, pc) == me' = [me EXCEPT ![p].pc = pc]

(* A command that has ended remembers nothing.                             *)
At(pc) == [NewMe({}, "evolve") EXCEPT !.pc = pc]
Quit(p) == me' = [me EXCEPT ![p] = At("done")]

Active(p) == me[p].pc \notin {"idle", "done"}

Init ==
  /\ plan \in {NoPlan} \cup
       {[v |-> d[1], rev |-> 1, origin |-> Nobody, body |-> b, status |-> d[2], hash |-> b] :
          b \in Sound, d \in {<<1, "pending">>, <<2, "approved">>}}
  /\ archive = {}
  /\ session = {[kind |-> k, by |-> Nobody] :
                   k \in {"snapshot"} \cup (IF plan = NoPlan THEN {} ELSE {"plan"})}
  /\ me = [p \in Procs |-> At("idle")]
  /\ edits = 0
  /\ history = [standing |-> IF plan # NoPlan /\ plan.status = "approved"
                             THEN {plan.body} ELSE {},
                approved |-> IF plan # NoPlan /\ plan.status = "approved"
                             THEN {plan.body} ELSE {},
                ran |-> {}, written |-> session, overlap |-> FALSE]

(***************************************************************************)
(* A command starts: the session is read, once, and the command goes on    *)
(* at pc.                                                                  *)
(***************************************************************************)
Begin(p, kind, pc) ==
  /\ me[p].pc = "idle" /\ Loadable
  /\ Cardinality({q \in Procs : Active(q)}) < MaxAtOnce
  /\ me' = [me EXCEPT ![p] = [NewMe(session, kind) EXCEPT !.pc = pc]]
  /\ history' = IF \E q \in Procs \ {p} : Active(q)
                THEN [history EXCEPT !.overlap = TRUE, !.written = {}] ELSE history
  /\ UNCHANGED <<plan, archive, session, edits>>

(* The model answers with a plan.  The snapshot auto makes it of is kept   *)
(* in the plan's own file, and is no artifact of the session.              *)
Think(p) ==
  /\ me[p].pc = "think"
  /\ \E b \in Bodies : me' = [me EXCEPT ![p].body = b, ![p].pc = "read"]
  /\ UNCHANGED <<plan, archive, session, edits, history>>

(* An external plan has to pass the preflight before anything is written.  *)
Import(p) ==
  /\ me[p].pc = "import"
  /\ \E b \in Bodies :
       me' = [me EXCEPT ![p].body = b,
                        ![p].pc = IF b \in Sound THEN "read" ELSE "done"]
  /\ UNCHANGED <<plan, archive, session, edits, history>>

(* Mutants of what follows: a previous plan that nobody had approved is    *)
(* not archived; the session is saved before the plan is written.          *)
ReadPreviousApproved(p) ==
  /\ me[p].pc = "read"
  /\ me' = [me EXCEPT ![p].prev = IF plan = NoPlan THEN plan ELSE Fresh(plan),
                        ![p].pc = IF plan # NoPlan /\ plan.status = "approved"
                                  THEN "archive" ELSE "put"]
  /\ UNCHANGED <<plan, archive, session, edits, history>>

ReadPreviousAfterSaving(p) ==
  /\ me[p].pc = "read"
  /\ me' = [me EXCEPT ![p].prev = IF plan = NoPlan THEN plan ELSE Fresh(plan),
                        ![p].pc = IF plan = NoPlan THEN "put" ELSE "archive"]
  /\ session' = me[p].arts \cup {[by |-> p, kind |-> "plan"]}
  /\ UNCHANGED <<plan, archive, edits, history>>

(***************************************************************************)
(* The parts of writePendingPlan: read the previous plan, archive it as    *)
(* superseded, replace it.  Both writes are atomic.                        *)
(***************************************************************************)
ReadPrevious(p) ==
  /\ me[p].pc = "read"
  /\ IF plan = NoPlan
     THEN me' = [me EXCEPT ![p].prev = NoPlan, ![p].pc = "put"]
     ELSE me' = [me EXCEPT ![p].prev = Fresh(plan), ![p].pc = "archive"]
  /\ UNCHANGED <<plan, archive, session, edits, history>>

(* A complete file is put in the place of another, by a rename.            *)
WriteJsonAtomic(file) == plan' = file

Archive(p) ==
  /\ me[p].pc = "archive"
  /\ archive' = archive \cup {[me[p].prev EXCEPT !.status = "superseded", !.v = 2]}
  /\ Goto(p, "put")
  /\ UNCHANGED <<plan, session, edits, history>>

Put(p) ==
  LET rev == IF me[p].prev = NoPlan THEN 1 ELSE me[p].prev.rev + 1 IN
  /\ me[p].pc = "put"
  /\ WriteJsonAtomic([v |-> 2, rev |-> rev, origin |-> p, body |-> me[p].body,
                      status |-> "pending", hash |-> me[p].body])
  /\ me' = [me EXCEPT ![p].pc = "save", ![p].what = "plan",
                        ![p].body = NoPlan, ![p].prev = NoPlan]
  /\ history' = [history EXCEPT !.standing = {}]
  /\ UNCHANGED <<archive, session, edits>>

WritePendingPlan(p) == ReadPrevious(p) \/ Archive(p) \/ Put(p)

(* saveSession(appendArtifact(session, ...)): the copy read at the start,  *)
(* with one artifact more, over whatever the file says now.                *)
Saved(p) == me[p].arts \cup {[by |-> p, kind |-> me[p].what]}

(* auto goes on to learn from its run.                                     *)
Save(p) ==
  /\ me[p].pc = "save"
  /\ session' = Saved(p)
  /\ history' = [history EXCEPT !.written = IF history.overlap THEN {} ELSE @ \cup Saved(p)]
  /\ \/ Quit(p)
     \/ /\ me[p].kind = "resume" /\ me[p].what = "run"
        /\ me' = [me EXCEPT ![p].arts = Saved(p), ![p].what = "learn"]
  /\ UNCHANGED <<plan, archive, edits>>

(***************************************************************************)
(* plan --approve and --reject.  The gate judges one reading of the file,  *)
(* decidePlan makes another and writes it back.                            *)
(***************************************************************************)
Gate(p) ==
  /\ me[p].pc = "gate"
  /\ IF plan # NoPlan /\ GatePasses(plan, "approve", FALSE)
     THEN Goto(p, "decide") ELSE Quit(p)
  /\ UNCHANGED <<plan, archive, session, edits, history>>

DecideRead(p) ==
  /\ me[p].pc = "decide"
  /\ IF plan = NoPlan \/ Fresh(plan).status = "superseded"
     THEN Quit(p)
     ELSE me' = [me EXCEPT ![p].prev = Fresh(plan), ![p].pc = "write"]
  /\ UNCHANGED <<plan, archive, session, edits, history>>

DecideWrite(p) ==
  LET decision == IF me[p].kind = "approve" THEN "approved" ELSE "rejected" IN
  /\ me[p].pc = "write"
  /\ WriteJsonAtomic([me[p].prev EXCEPT !.v = 2, !.status = decision, !.hash = me[p].prev.body])
  /\ history' = IF decision = "approved"
                THEN [history EXCEPT !.approved = @ \cup {me[p].prev.body},
                                     !.standing = {me[p].prev.body}]
                ELSE [history EXCEPT !.standing = {}]
  /\ Quit(p)
  /\ UNCHANGED <<archive, session, edits>>

(***************************************************************************)
(* Execution.  run reads the plan once, and runs what it has judged.       *)
(***************************************************************************)
Execute(p, f) ==
  history' = [history EXCEPT !.ran = @ \cup
                {[how      |-> me[p].kind,
                  sound    |-> f.body \in Sound,
                  approved |-> f.body \in history.approved,
                  standing |-> f.body \in history.standing]}]

Start(p) ==
  /\ me[p].pc = "start"
  /\ IF Readable(me[p].arts) /\ GatePasses(plan, "run", me[p].kind = "bypass")
     THEN Execute(p, plan) /\ Goto(p, "work")
     ELSE Quit(p) /\ UNCHANGED history
  /\ UNCHANGED <<plan, archive, session, edits>>

(* auto: without a plan it makes one; it goes on with an approved one only *)
(* when told to resume, and refuses any other.                             *)
AutoGate(p) ==
  /\ me[p].pc = "auto"
  /\ IF ~Readable(me[p].arts)
     THEN IF me[p].kind = "auto" THEN Goto(p, "think") ELSE Quit(p)
     ELSE IF me[p].kind = "resume" /\ GatePasses(plan, "run", FALSE)
          THEN Goto(p, "again") ELSE Quit(p)
  /\ UNCHANGED <<plan, archive, session, edits, history>>

(* resolveAutoResume reads the plan again, and that one is executed.       *)
AutoAgain(p) ==
  /\ me[p].pc = "again"
  /\ Execute(p, plan) /\ Goto(p, "work")
  /\ UNCHANGED <<plan, archive, session, edits>>

(* The run writes the outputs of its tasks, or ends without one.           *)
Work(p) ==
  /\ me[p].pc = "work"
  /\ \/ me' = [me EXCEPT ![p].pc = "save", ![p].what = "run"]
     \/ Quit(p)
  /\ UNCHANGED <<plan, archive, session, edits, history>>

(***************************************************************************)
(* The user and the machine.                                               *)
(***************************************************************************)
(* The user edits the plan in its file: the decision stays as it is.       *)
Edit ==
  /\ plan # NoPlan /\ edits < MaxEdits
  /\ \E b \in Bodies \ {plan.body} : plan' = [plan EXCEPT !.body = b]
  /\ edits' = edits + 1
  /\ UNCHANGED <<archive, session, me, history>>

(* A command dies, or a provider, a parser, a hook or the schema stops it. *)
(* The session file is written in place: a death in the middle of that     *)
(* leaves it cut short, and no command can read it.                        *)
Crash(p) ==
  /\ Active(p) /\ Quit(p)
  /\ \/ UNCHANGED session
     \/ me[p].pc = "save" /\ session' = Torn
  /\ UNCHANGED <<plan, archive, edits, history>>

(***************************************************************************)
(* The commands: where each starts, what it needs on record, its steps.    *)
(***************************************************************************)
Given(p, kind) == kind \in Kinds /\ me[p].kind = kind
Starts(p, kind, pc) == kind \in Kinds /\ Begin(p, kind, pc)

(* evolve; explore and snapshot read and save the session as it does.      *)
EvolveCommand(p) ==
  \/ Starts(p, "evolve", "save")
  \/ Given(p, "evolve") /\ Save(p)

LearnCommand(p) ==
  \/ Starts(p, "learn", "save") /\ Has(session, "run")
  \/ Given(p, "learn") /\ Save(p)

PlanCommand(p) ==
  \/ Starts(p, "plan", "think") /\ Has(session, "snapshot")
  \/ Given(p, "plan") /\ (Think(p) \/ WritePendingPlan(p) \/ Save(p))

ImportPlanCommand(p) ==
  \/ Starts(p, "import", "import")
  \/ Given(p, "import") /\ (Import(p) \/ WritePendingPlan(p) \/ Save(p))

DecideCommand(p) ==
  \/ /\ Starts(p, "approve", "gate") \/ Starts(p, "reject", "decide")
     /\ Has(session, "plan")
  \/ Given(p, "approve") /\ Gate(p)
  \/ /\ Given(p, "approve") \/ Given(p, "reject")
     /\ DecideRead(p) \/ DecideWrite(p)

RunCommand(p) ==
  \/ Starts(p, "run", "start") \/ Starts(p, "bypass", "start")
  \/ /\ Given(p, "run") \/ Given(p, "bypass")
     /\ Start(p) \/ Work(p) \/ Save(p)

AutoCommand(p) ==
  \/ Starts(p, "auto", "auto") \/ Starts(p, "resume", "auto")
  \/ /\ Given(p, "auto")
     /\ AutoGate(p) \/ Think(p) \/ WritePendingPlan(p) \/ Save(p)
  \/ /\ Given(p, "resume")
     /\ AutoGate(p) \/ AutoAgain(p) \/ Work(p) \/ Save(p)

Next ==
  \/ Edit
  \/ \E p \in Procs :
       \/ EvolveCommand(p) \/ LearnCommand(p)
       \/ PlanCommand(p) \/ ImportPlanCommand(p) \/ DecideCommand(p)
       \/ RunCommand(p) \/ AutoCommand(p) \/ Crash(p)

Spec == Init /\ [][Next]_vars

(***************************************************************************)
(* What has to be true.                                                    *)
(***************************************************************************)
(* The variables keep to their sets, and nobody writes without a reading.  *)
TypeOK ==
  /\ plan \in Envelope \cup {NoPlan}
  /\ archive \subseteq Envelope
  /\ session = Torn \/ session \subseteq Artifact
  /\ edits \in 0..MaxEdits
  /\ \A p \in Procs : /\ me[p].arts \subseteq Artifact
                      /\ me[p].body \in Bodies \cup {NoPlan}
                      /\ me[p].prev \in Envelope \cup {NoPlan}
                      /\ me[p].pc \in {"write", "archive"} => me[p].prev # NoPlan

(* What run executes without --bypass is what a decision that still stands *)
(* has approved: not an edited body, nor one rejected or replaced since    *)
(* (readPlan re-binds the decision to the body). And no run, not even one   *)
(* with --bypass, executes a plan the preflight refuses, although approve  *)
(* judges one reading of the file and decides on another.                  *)
RunIsApproved ==
  \A r \in history.ran : /\ r.how = "run" => r.standing
                        /\ r.how \in {"run", "bypass"} => r.sound

(* A session never has a plan on record whose file is not there: commands  *)
(* write the file before they save the session, crashes or not.            *)
PlanOnRecordExists ==
  /\ TypeOK
  /\ session # Torn /\ Has(session, "plan") => plan # NoPlan

(* Every revision that was replaced has its superseded copy, none is       *)
(* replaced by an older, and a revision names one plan (planIdFor).        *)
RevisionsKept ==
  plan # NoPlan =>
    /\ \A r \in 1..(plan.rev - 1) : \E a \in archive : a.rev = r
    /\ \A a \in archive : a.status = "superseded" /\ a.rev <= plan.rev
    /\ \A a, b \in archive \cup {plan} : a.rev = b.rev => a.origin = b.origin

(* Nothing that was recorded in the session is missing from a readable one.*)
SessionKeeps == session # Torn => history.written \subseteq session

(* As long as no two commands have overlapped, no revision is lost, where- *)
(* ever one dies, and no record of an artifact either, unless the death    *)
(* tears the session file: then no command reads it any more.  Of commands *)
(* that overlap the later write wins (session.ts:91), and nothing is said. *)
AloneLosesNothing == ~history.overlap => RevisionsKept /\ SessionKeeps

(* Not so: that what a session has on record stays there.  Of two commands *)
(* that overlap the later save takes back what the earlier has added.      *)
RecordsStay == [][session # Torn /\ session' # Torn => session \subseteq session']_vars

(* The code does not do this.                                              *)
(* auto --resume only executes a plan somebody has approved: it refuses    *)
(* any other (auto.ts:375), but reads the plan a second time to execute.   *)
AutoRunsApproved ==
  \A r \in history.ran : r.how = "resume" => r.approved
=============================================================================
