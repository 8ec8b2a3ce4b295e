------------------------- MODULE SessionRunsProofs -------------------------
(***************************************************************************)
(* The commands of one session, for any number of processes, runs, tasks   *)
(* and plans.  The invariant is in layers, each proved with the ones       *)
(* before it: who has the lock and where the branch is; the workers; the   *)
(* records; what is merged and applied; what a chain has done.             *)
(***************************************************************************)
EXTENDS SessionRuns, TLAPS, FiniteSetTheorems

Places == {"idle", "lock", "guard", "stale", "mark", "create", "record", "setup", "loop",
           "spawn", "integrate", "checkpoint", "close", "plain", "clean", "prune",
           "decide", "apply", "abort"}

RunKinds      == {"fresh", "resume", "review"}
DecisionKinds == {"apply", "abort"}

(* Where a run has its record, but not its branch yet; where it is in its  *)
(* loop; where it is about to leave.                                       *)
Recording == {"record", "setup"}
Looping   == {"loop", "spawn", "integrate", "checkpoint"}
Leaving   == {"clean", "prune", "close"}
Owning    == Recording \union Looping

Invocation ==
  [pc: Places, kind: RunKinds \union DecisionKinds \union {"plain", "none"},
   target: Runs \union {NoRun}, run: Runs \union {NoRun},
   held: Manifests \union {NoManifest}, next: Manifests \union {NoManifest},
   from: Integrations \union {NoIntegration},
   todo: SUBSET (Runs \union Tasks), left: SUBSET Tasks, launched: SUBSET Tasks]

Histories ==
  [parent: [Runs -> Runs \union {NoRun}], spawned: [Runs -> Nat],
   finished: SUBSET Merges, last: Runs \union {NoRun}]

StateTyped ==
  /\ manifest \in [Runs -> Manifests \union {NoManifest}]
  /\ branch \in Commits \union {NoBranch}
  /\ refs \subseteq Tasks /\ worktrees \subseteq Tasks \union {Integration}
  /\ main \in [head: 0..MaxHead, committed: Works, staged: Works, dirty: BOOLEAN]
  /\ alive \subseteq Tasks /\ strays \subseteq Tasks /\ sentinels \subseteq Tasks
  /\ plan \in Plans /\ history \in Histories

TypeInv ==
  StateTyped /\ me \in [Processes -> Invocation] /\ lock \in Processes \union {Nobody}

(* The runs have their numbers in the order in which they were created,    *)
(* and a run continues one that was there before it.                       *)
RunsInv ==
  /\ \E n \in 0..MaxRuns : Created = 1..n
  /\ history.last # NoRun => Exists(history.last)
  /\ \A r \in Runs : history.parent[r] # NoRun => Exists(r) /\ history.parent[r] < r

(* What a command holds is there.                                          *)
KindAt(m) ==
  /\ m.pc \in {"guard", "close"} \union Owning => m.kind \in RunKinds
  /\ m.pc \in {"stale", "mark", "create"} => m.kind \in RunKinds \union {"plain"}
  /\ m.pc = "plain" => m.kind = "plain"
  /\ m.pc \in {"lock", "apply", "abort", "decide"} => m.kind \in DecisionKinds
  /\ m.pc \in {"clean", "prune"} => m.kind \in RunKinds \union DecisionKinds
  /\ m.pc # "idle" => m.held # NoManifest
  /\ m.pc \in {"mark", "decide", "plain"} \union Leaving \union Owning => m.next # NoManifest
  /\ m.pc \in {"mark", "plain", "lock", "apply", "abort", "decide"} \union Leaving \union Owning =>
       m.run # NoRun /\ Exists(m.run)
  /\ m.kind \in {"resume", "review"} => m.target # NoRun /\ Exists(m.target)
  /\ m.kind \in DecisionKinds => m.held # NoManifest /\ m.held.integration # NoIntegration
  /\ m.pc \in {"stale", "mark"} => m.todo \subseteq Runs
  /\ m.pc = "spawn" => m.todo \subseteq Tasks
  /\ m.pc \notin Looping => m.launched = {}
  /\ m.pc = "guard" => m.from = NoIntegration

KindInv == \A p \in Processes : KindAt(me[p])

(* A command that has passed its guard has the branch it goes on with; one *)
(* in its loop has a branch, and a record that is no younger; one that     *)
(* removes the branch has it on record, or has merged nothing.             *)
BranchAt(m) ==
  /\ m.pc \in {"stale", "mark", "create"} \union Recording /\ m.from # NoIntegration =>
       m.kind \in {"resume", "review"} /\ branch = m.from.tip
  /\ m.pc = "setup" =>
       /\ m.held.integration # NoIntegration
       /\ m.held.integration.base <= IF m.from # NoIntegration THEN m.from.tip.base ELSE main.head
       /\ m.next = m.held
  /\ m.pc \in Looping =>
       /\ branch # NoBranch /\ history.last = m.run
       /\ m.held.integration # NoIntegration /\ m.held.integration.base <= branch.base
       /\ m.next.integration # NoIntegration /\ m.next.integration.base <= branch.base
  /\ m.kind \in DecisionKinds /\ m.pc \in {"decide", "clean", "prune"} /\ branch # NoBranch =>
       m.held.integration.tip = branch
  /\ m.kind \in RunKinds /\ m.pc \in {"clean", "prune"} =>
       branch # NoBranch /\ branch.work = <<>>

(* No two commands are past the lock; a plain run takes none.              *)
Holds(m) == m.kind # "plain" /\ m.pc \notin {"idle", "lock"}

LockInv == \A p \in Processes : Holds(me[p]) => lock = p /\ BranchAt(me[p])

BaseInv == TypeInv /\ RunsInv /\ KindInv /\ LockInv

(***************************************************************************)
(* What the steps do to the command that takes them.                       *)
(***************************************************************************)
Others(p) == \A q \in Processes \ {p} : me'[q] = me[q]
Moved(p)  == me' \in [Processes -> Invocation] /\ Others(p)

SameCommand(p) == me'[p].kind = me[p].kind /\ me'[p].target = me[p].target

LEMMA ConstantFacts ==
  /\ Runs \subseteq Nat /\ NoRun \notin Runs /\ MaxRuns \in Nat /\ MaxHead \in Nat
  /\ Plans = 1..Len(TasksOf) /\ Len(TasksOf) \in Nat /\ 1 \in Plans
  /\ \A x \in Plans : TasksOf[x] \subseteq Tasks
  /\ Integration \notin Tasks
  /\ Limits \subseteq Nat /\ Keeps \subseteq BOOLEAN
  BY BoundsAssumption, PlansAssumption, NamesAssumption, ChoicesAssumption
  DEF Runs, NoRun, Plans, Tasks

LEMMA IdleTyped == Idle \in Invocation /\ ~Holds(Idle) /\ Idle.pc = "idle" /\ KindAt(Idle)
  BY DEF Idle, Invocation, Places, RunKinds, DecisionKinds, Holds, KindAt, Recording, Looping,
         Leaving, Owning

LEMMA MeUpdate ==
  ASSUME TypeInv, NEW p \in Processes, NEW m \in Invocation, me' = [me EXCEPT ![p] = m]
  PROVE  Moved(p) /\ me'[p] = m
  BY DEF TypeInv, StateTyped, Moved, Others

LEMMA LeaveShape ==
  ASSUME TypeInv, NEW p \in Processes, Leave(p)
  PROVE  Moved(p) /\ me'[p] = Idle /\ lock' = IF lock = p THEN Nobody ELSE lock
  BY IdleTyped, MeUpdate DEF Leave

LEMMA GotoShape ==
  ASSUME TypeInv, NEW p \in Processes, NEW pc \in Places, Goto(p, pc)
  PROVE  /\ Moved(p) /\ SameCommand(p) /\ me'[p].pc = pc
         /\ me'[p].run = me[p].run /\ me'[p].held = me[p].held /\ me'[p].next = me[p].next
         /\ me'[p].from = me[p].from /\ me'[p].todo = me[p].todo
         /\ me'[p].left = me[p].left /\ me'[p].launched = me[p].launched
  BY DEF TypeInv, StateTyped, Goto, Moved, Others, SameCommand, Invocation

(* What a run that begins has in mind for its manifest.                    *)
NewRecord(m) ==
  m \in Manifests /\ m.done = {} /\ m.plan = plan /\ ~m.safe /\ m.status = "starting"
    /\ m.integration = NoIntegration /\ m.dispatches = 0

LEMMA NewRecordTyped ==
  ASSUME TypeInv, NEW keep \in BOOLEAN, NEW max \in Limits
  PROVE  NewRecord([status |-> "starting", safe |-> FALSE, plan |-> plan,
                    done |-> {}, integration |-> NoIntegration,
                    keep |-> keep, dispatches |-> 0, max |-> max])
  BY ConstantFacts DEF TypeInv, StateTyped, NewRecord, Manifests, OpenStatus

LEMMA BeginLockedShape ==
  ASSUME TypeInv, NEW p \in Processes, NEW kind \in Kinds, NEW target \in Runs \union {NoRun},
         NEW keep \in Keeps, NEW max \in Limits, BeginLocked(p, kind, target, keep, max)
  PROVE  /\ Moved(p) /\ me[p].pc = "idle" /\ lock = Nobody /\ lock' = p
         /\ me'[p].pc = "guard" /\ me'[p].kind = kind /\ kind \in RunKinds
         /\ me'[p].target = target /\ NewRecord(me'[p].held)
         /\ me'[p].from = NoIntegration /\ me'[p].run = NoRun /\ me'[p].launched = {}
         /\ (kind = "fresh" <=> target = NoRun) /\ (target # NoRun => Exists(target))
  <1> DEFINE held == [status |-> "starting", safe |-> FALSE, plan |-> plan,
                      done |-> {}, integration |-> NoIntegration,
                      keep |-> keep, dispatches |-> 0, max |-> max]
             m == [Idle EXCEPT !.pc = "guard", !.kind = kind, !.target = target, !.held = held]
  <1>1. NewRecord(held) /\ kind \in RunKinds
    BY NewRecordTyped, ConstantFacts DEF BeginLocked, RunKinds
  <1>2. me' = [me EXCEPT ![p] = m]
    BY DEF BeginLocked
  <1> HIDE DEF held
  <1>3. m \in Invocation
    BY <1>1, IdleTyped DEF Invocation, Places, NewRecord
  <1>4. Moved(p) /\ me'[p] = m
    BY <1>2, <1>3, MeUpdate
  <1>5. /\ m.pc = "guard" /\ m.kind = kind /\ m.target = target /\ m.held = held
        /\ m.from = NoIntegration /\ m.run = NoRun /\ m.launched = {}
    BY DEF Idle
  <1> HIDE DEF m
  <1> QED
    BY <1>1, <1>4, <1>5 DEF BeginLocked

LEMMA BeginPlainShape ==
  ASSUME TypeInv, NEW p \in Processes, NEW max \in Limits, BeginPlain(p, max)
  PROVE  /\ Moved(p) /\ me[p].pc = "idle" /\ lock' = lock /\ "plain" \in Kinds
         /\ me'[p].pc = "stale" /\ me'[p].kind = "plain" /\ me'[p].target = NoRun
         /\ NewRecord(me'[p].held) /\ me'[p].from = NoIntegration
         /\ me'[p].todo = Created /\ me'[p].launched = {}
  <1> DEFINE held == [status |-> "starting", safe |-> FALSE, plan |-> plan,
                      done |-> {}, integration |-> NoIntegration,
                      keep |-> FALSE, dispatches |-> 0, max |-> max]
             m == [Idle EXCEPT !.pc = "stale", !.kind = "plain", !.todo = Created, !.held = held]
  <1>1. NewRecord(held)
    BY NewRecordTyped
  <1>2. me' = [me EXCEPT ![p] = m]
    BY DEF BeginPlain
  <1> HIDE DEF held
  <1>3. m \in Invocation
    BY <1>1, IdleTyped DEF Invocation, Places, NewRecord, Created
  <1>4. Moved(p) /\ me'[p] = m
    BY <1>2, <1>3, MeUpdate
  <1>5. /\ m.pc = "stale" /\ m.kind = "plain" /\ m.target = NoRun /\ m.held = held
        /\ m.from = NoIntegration /\ m.todo = Created /\ m.launched = {}
    BY DEF Idle
  <1> HIDE DEF m
  <1> QED
    BY <1>1, <1>4, <1>5 DEF BeginPlain

LEMMA BeginDecisionShape ==
  ASSUME TypeInv, NEW p \in Processes, NEW kind \in {"apply", "abort"}, NEW r \in Runs,
         BeginDecision(p, kind, r)
  PROVE  /\ Moved(p) /\ me[p].pc = "idle" /\ lock' = lock
         /\ me'[p].pc = "lock" /\ me'[p].kind = kind /\ me'[p].target = r /\ me'[p].run = r
         /\ me'[p].held = manifest[r] /\ Exists(r) /\ me'[p].held \in Manifests
         /\ me'[p].held.integration # NoIntegration /\ me'[p].from = NoIntegration
         /\ me'[p].launched = {}
  <1> DEFINE m == [Idle EXCEPT !.pc = "lock", !.kind = kind, !.target = r,
                               !.run = r, !.held = manifest[r]]
  <1>1. me' = [me EXCEPT ![p] = m]
    BY DEF BeginDecision
  <1>2. manifest[r] \in Manifests /\ manifest[r].integration # NoIntegration
    BY DEF BeginDecision, Exists, Pending, Recorded, TypeInv, StateTyped
  <1>3. m \in Invocation
    BY <1>2, IdleTyped DEF Invocation, Places, DecisionKinds
  <1>4. Moved(p) /\ me'[p] = m
    BY <1>1, <1>3, MeUpdate
  <1>5. /\ m.pc = "lock" /\ m.kind = kind /\ m.target = r /\ m.run = r
        /\ m.held = manifest[r] /\ m.from = NoIntegration /\ m.launched = {}
    BY DEF Idle
  <1> HIDE DEF m
  <1> QED
    BY <1>2, <1>4, <1>5 DEF BeginDecision

LEMMA TakeLockShape ==
  ASSUME TypeInv, KindInv, NEW p \in Processes, TakeLock(p)
  PROVE  \/ Leave(p)
         \/ /\ lock = Nobody /\ lock' = p /\ me[p].kind \in Places /\ Goto(p, me[p].kind)
  BY DEF TakeLock, KindInv, KindAt, Places, DecisionKinds

LEMMA FreshShape ==
  ASSUME TypeInv, NEW p \in Processes, Fresh(p)
  PROVE  \/ Leave(p)
         \/ /\ Moved(p) /\ SameCommand(p) /\ lock' = lock /\ ~HasResidue
            /\ me'[p].pc = "stale" /\ me'[p].todo = Created /\ me'[p].held = me[p].held
            /\ me'[p].from = me[p].from /\ me'[p].launched = me[p].launched
            /\ me'[p].run = me[p].run
  BY DEF Fresh, Moved, Others, SameCommand, TypeInv, StateTyped, Invocation, Places, Created

LEMMA InheritedTyped ==
  ASSUME NEW m \in Manifests, NEW mine \in Manifests
  PROVE  /\ Inherited(m, mine) \in Manifests
         /\ Inherited(m, mine).done = m.done /\ Inherited(m, mine).plan = mine.plan
         /\ Inherited(m, mine).status = mine.status /\ Inherited(m, mine).safe = mine.safe
  BY DEF Inherited, Manifests

LEMMA ResumeShape ==
  ASSUME TypeInv, KindInv, NEW p \in Processes, Resume(p)
  PROVE  \/ Leave(p)
         \/ /\ Moved(p) /\ SameCommand(p) /\ lock' = lock
            /\ ResumeGuards(manifest[me[p].target], me[p].held.plan) /\ WorkersClear
            /\ me'[p].pc = "create" /\ me'[p].from = manifest[me[p].target].integration
            /\ me'[p].held = Inherited(manifest[me[p].target], me[p].held)
            /\ me'[p].held \in Manifests
            /\ me'[p].run = me[p].run /\ me'[p].launched = me[p].launched
  <1> SUFFICES ASSUME ~Leave(p) PROVE
         /\ Moved(p) /\ SameCommand(p) /\ lock' = lock
         /\ ResumeGuards(manifest[me[p].target], me[p].held.plan) /\ WorkersClear
         /\ me'[p].pc = "create" /\ me'[p].from = manifest[me[p].target].integration
         /\ me'[p].held = Inherited(manifest[me[p].target], me[p].held)
         /\ me'[p].held \in Manifests
         /\ me'[p].run = me[p].run /\ me'[p].launched = me[p].launched
    OBVIOUS
  <1> DEFINE parent == manifest[me[p].target]
             held == Inherited(parent, me[p].held)
             m == [me[p] EXCEPT !.pc = "create", !.from = parent.integration, !.held = held]
  <1>1. me[p] \in Invocation /\ me[p].kind = "resume" /\ me[p].pc = "guard"
    BY DEF TypeInv, StateTyped, Resume
  <1>2. parent \in Manifests /\ me[p].held \in Manifests
    BY <1>1 DEF TypeInv, StateTyped, KindInv, KindAt, Exists, Invocation
  <1>3. held \in Manifests
    BY <1>2, InheritedTyped
  <1>4. /\ ResumeGuards(parent, me[p].held.plan) /\ WorkersClear /\ lock' = lock
        /\ me' = [me EXCEPT ![p].pc = "create", ![p].from = parent.integration, ![p].held = held]
    BY DEF Resume
  <1>5. me' = [me EXCEPT ![p] = m]
    BY <1>4 DEF TypeInv, StateTyped, Invocation
  <1> HIDE DEF held, parent
  <1>6. parent.integration \in Integrations
    BY <1>2, <1>4 DEF ResumeGuards, Recorded, Manifests
  <1>7. m \in Invocation /\ m.pc = "create" /\ m.from = parent.integration /\ m.held = held
        /\ m.kind = me[p].kind /\ m.target = me[p].target /\ m.run = me[p].run
        /\ m.launched = me[p].launched
    BY <1>1, <1>3, <1>6 DEF Invocation, Places
  <1> HIDE DEF m
  <1>8. Moved(p) /\ me'[p] = m
    BY <1>5, <1>7, MeUpdate
  <1> QED
    BY <1>3, <1>4, <1>7, <1>8 DEF parent, held, SameCommand

LEMMA ReviewShape ==
  ASSUME TypeInv, KindInv, NEW p \in Processes, Review(p)
  PROVE  \/ Leave(p)
         \/ /\ Moved(p) /\ SameCommand(p) /\ lock' = lock
            /\ ReviewGuards(manifest[me[p].target]) /\ WorkersClear
            /\ me'[p].pc = "stale" /\ me'[p].from = manifest[me[p].target].integration
            /\ me'[p].held = me[p].held /\ me'[p].todo = Created
            /\ me'[p].run = me[p].run /\ me'[p].launched = me[p].launched
  <1> SUFFICES ASSUME ~Leave(p) PROVE
         /\ Moved(p) /\ SameCommand(p) /\ lock' = lock
         /\ ReviewGuards(manifest[me[p].target]) /\ WorkersClear
         /\ me'[p].pc = "stale" /\ me'[p].from = manifest[me[p].target].integration
         /\ me'[p].held = me[p].held /\ me'[p].todo = Created
         /\ me'[p].run = me[p].run /\ me'[p].launched = me[p].launched
    OBVIOUS
  <1> DEFINE parent == manifest[me[p].target]
             m == [me[p] EXCEPT !.pc = "stale", !.todo = Created, !.from = parent.integration]
  <1>1. me[p] \in Invocation /\ me[p].kind = "review" /\ me[p].pc = "guard"
    BY DEF TypeInv, StateTyped, Review
  <1>2. parent \in Manifests
    BY <1>1 DEF TypeInv, StateTyped, KindInv, KindAt, Exists, Invocation
  <1>3. /\ ReviewGuards(parent) /\ WorkersClear /\ lock' = lock
        /\ me' = [me EXCEPT ![p].pc = "stale", ![p].todo = Created, ![p].from = parent.integration]
    BY DEF Review
  <1>4. me' = [me EXCEPT ![p] = m]
    BY <1>3 DEF TypeInv, StateTyped, Invocation
  <1> HIDE DEF parent
  <1>5. parent.integration \in Integrations
    BY <1>2, <1>3 DEF ReviewGuards, Pending, Recorded, Manifests
  <1>6. m \in Invocation /\ m.pc = "stale" /\ m.from = parent.integration /\ m.held = me[p].held
        /\ m.kind = me[p].kind /\ m.target = me[p].target /\ m.run = me[p].run
        /\ m.launched = me[p].launched /\ m.todo = Created
    BY <1>1, <1>5 DEF Invocation, Places, Created
  <1> HIDE DEF m
  <1>7. Moved(p) /\ me'[p] = m
    BY <1>4, <1>6, MeUpdate
  <1> QED
    BY <1>3, <1>6, <1>7 DEF parent, SameCommand

LEMMA UnrecoverableTyped ==
  ASSUME NEW m \in Manifests
  PROVE  /\ Unrecoverable(m) \in Manifests
         /\ Unrecoverable(m).status = "interrupted" /\ Unrecoverable(m).safe = FALSE
         /\ Unrecoverable(m).done = m.done /\ Unrecoverable(m).plan = m.plan
         /\ Unrecoverable(m).integration = m.integration
  BY DEF Unrecoverable, Manifests, OpenStatus

LEMMA ReadStaleShape ==
  ASSUME TypeInv, NEW p \in Processes, NEW r \in Runs, ReadStale(p, r)
  PROVE  /\ Moved(p) /\ SameCommand(p) /\ Exists(r) /\ me[p].pc = "stale"
         /\ me'[p].pc = "mark" /\ me'[p].run = r /\ me'[p].next = Unrecoverable(manifest[r])
         /\ me'[p].next \in Manifests /\ me'[p].todo = me[p].todo \ {r}
         /\ me'[p].held = me[p].held /\ me'[p].from = me[p].from
         /\ me'[p].launched = me[p].launched
  <1> DEFINE next == Unrecoverable(manifest[r])
             m == [me[p] EXCEPT !.pc = "mark", !.todo = @ \ {r}, !.run = r, !.next = next]
  <1>1. me[p] \in Invocation /\ Exists(r) /\ manifest[r] \in Manifests /\ me[p].pc = "stale"
    BY DEF TypeInv, StateTyped, ReadStale, IsStale, Exists
  <1>2. next \in Manifests
    BY <1>1, UnrecoverableTyped
  <1>3. me' = [me EXCEPT ![p] = m]
    BY DEF TypeInv, StateTyped, Invocation, ReadStale
  <1> HIDE DEF next
  <1>4. /\ m \in Invocation /\ m.pc = "mark" /\ m.todo = me[p].todo \ {r} /\ m.run = r
        /\ m.next = next /\ m.kind = me[p].kind /\ m.target = me[p].target
        /\ m.held = me[p].held /\ m.from = me[p].from /\ m.launched = me[p].launched
    BY <1>1, <1>2 DEF Invocation, Places
  <1> HIDE DEF m
  <1>5. Moved(p) /\ me'[p] = m
    BY <1>3, <1>4, MeUpdate
  <1> QED
    BY <1>1, <1>2, <1>4, <1>5 DEF next, SameCommand

LEMMA MarkShape ==
  ASSUME TypeInv, KindInv, NEW p \in Processes, Mark(p)
  PROVE  /\ Moved(p) /\ SameCommand(p) /\ me[p].pc = "mark"
         /\ me'[p].pc = "stale" /\ me'[p].run = NoRun /\ me'[p].todo = me[p].todo
         /\ me'[p].held = me[p].held /\ me'[p].from = me[p].from
         /\ me'[p].launched = me[p].launched
         /\ me[p].run \in Runs /\ Exists(me[p].run) /\ me[p].next \in Manifests
         /\ manifest' = [manifest EXCEPT ![me[p].run] = me[p].next]
  BY DEF TypeInv, StateTyped, KindInv, KindAt, Mark, Moved, Others, SameCommand, Invocation, Places

LEMMA NoneStaleShape ==
  ASSUME TypeInv, NEW p \in Processes, NoneStale(p)
  PROVE  /\ Moved(p) /\ SameCommand(p) /\ me[p].pc = "stale"
         /\ me'[p].pc = "create" /\ me'[p].run = me[p].run
         /\ me'[p].held = me[p].held /\ me'[p].from = me[p].from
         /\ me'[p].launched = me[p].launched
  <1> DEFINE m == [me[p] EXCEPT !.pc = "create", !.todo = {}]
  <1>1. me' = [me EXCEPT ![p] = m] /\ me[p] \in Invocation /\ me[p].pc = "stale"
    BY DEF TypeInv, StateTyped, Invocation, NoneStale
  <1>2. /\ m \in Invocation /\ m.pc = "create" /\ m.kind = me[p].kind /\ m.target = me[p].target
        /\ m.run = me[p].run /\ m.held = me[p].held /\ m.from = me[p].from
        /\ m.launched = me[p].launched
    BY <1>1 DEF Invocation, Places
  <1> HIDE DEF m
  <1> QED
    BY <1>1, <1>2, MeUpdate DEF SameCommand

(* A new run takes the next number.                                        *)
LEMMA NewNumber ==
  ASSUME RunsInv, NEW r, r = Cardinality(Created) + 1, r \in Runs
  PROVE  /\ ~Exists(r) /\ r \in 1..MaxRuns
         /\ Created = 1..(r - 1)
  <1>1. PICK n \in 0..MaxRuns : Created = 1..n
    BY DEF RunsInv
  <1>2. Cardinality(Created) = n
    BY <1>1, FS_Interval, ConstantFacts
  <1> QED
    BY <1>1, <1>2 DEF Created, Runs, Exists

(* The manifest a run starts with.                                         *)
Started(m, plain) == [m EXCEPT !.integration = NoIntegration,
                               !.status = IF plain THEN "running" ELSE "starting"]

LEMMA StartedTyped ==
  ASSUME NEW m \in Manifests, NEW plain \in BOOLEAN
  PROVE  /\ Started(m, plain) \in Manifests /\ Started(m, plain).integration = NoIntegration
         /\ Started(m, plain).status \in {"starting", "running"}
         /\ Started(m, plain).done = m.done /\ Started(m, plain).plan = m.plan
         /\ Started(m, plain).safe = m.safe
  BY DEF Started, Manifests, OpenStatus

LEMMA CreateShape ==
  ASSUME TypeInv, RunsInv, KindInv, NEW p \in Processes, Create(p)
  PROVE  LET r == Cardinality(Created) + 1
             m == Started(me[p].held, me[p].kind = "plain") IN
         /\ Moved(p) /\ SameCommand(p) /\ me[p].pc = "create"
         /\ me'[p].pc = (IF me[p].kind = "plain" THEN "plain" ELSE "record")
         /\ me'[p].run = r /\ me'[p].held = m /\ me'[p].next = m /\ me'[p].from = me[p].from
         /\ me'[p].launched = me[p].launched
         /\ r \in Runs /\ ~Exists(r) /\ Created = 1..(r - 1)
         /\ me[p].held \in Manifests /\ m \in Manifests
         /\ manifest' = [manifest EXCEPT ![r] = m]
         /\ history' \in Histories
         /\ history'.parent = [history.parent EXCEPT ![r] =
                                 IF me[p].kind = "resume" THEN me[p].target ELSE NoRun]
         /\ history'.finished = history.finished /\ history'.last = history.last
         /\ history'.spawned = history.spawned
  <1> DEFINE r == Cardinality(Created) + 1
             held == Started(me[p].held, me[p].kind = "plain")
             pc == IF me[p].kind = "plain" THEN "plain" ELSE "record"
             m == [me[p] EXCEPT !.pc = pc, !.run = r, !.held = held, !.next = held]
  <1>1. me[p] \in Invocation /\ me[p].pc = "create" /\ me[p].held \in Manifests /\ r \in Runs
    BY DEF TypeInv, StateTyped, KindInv, KindAt, Create, Invocation
  <1>2. held \in Manifests
    BY <1>1, StartedTyped
  <1>3. ~Exists(r) /\ Created = 1..(r - 1)
    BY <1>1, NewNumber
  <1>4. /\ manifest' = [manifest EXCEPT ![r] = held]
        /\ me' = [me EXCEPT ![p].pc = pc, ![p].run = r, ![p].held = held, ![p].next = held]
        /\ history' = [history EXCEPT !.parent[r] =
                         IF me[p].kind = "resume" THEN me[p].target ELSE NoRun]
    BY DEF Create, Started
  <1>5. me' = [me EXCEPT ![p] = m]
    BY <1>4 DEF TypeInv, StateTyped, Invocation
  <1>51. pc \in Places
    BY DEF Places
  <1> HIDE DEF held, r, pc
  <1>6. /\ m \in Invocation /\ m.run = r /\ m.held = held /\ m.next = held /\ m.pc = pc
        /\ m.kind = me[p].kind /\ m.target = me[p].target /\ m.from = me[p].from
        /\ m.launched = me[p].launched
    BY <1>51, <1>1, <1>2 DEF Invocation
  <1> HIDE DEF m
  <1>7. Moved(p) /\ me'[p] = m
    BY <1>5, <1>6, MeUpdate
  <1>8. me[p].target \in Runs \union {NoRun}
    BY <1>1 DEF Invocation
  <1>9. /\ history' \in Histories
        /\ history'.parent = [history.parent EXCEPT ![r] =
                                IF me[p].kind = "resume" THEN me[p].target ELSE NoRun]
        /\ history'.finished = history.finished /\ history'.last = history.last
        /\ history'.spawned = history.spawned
    BY <1>1, <1>4, <1>8 DEF TypeInv, StateTyped, Histories
  <1> QED
    BY <1>1, <1>2, <1>3, <1>4, <1>6, <1>7, <1>9 DEF r, held, pc, SameCommand

LEMMA WithIntegrationTyped ==
  ASSUME NEW m \in Manifests, NEW from \in Integrations \union {NoIntegration},
         NEW head \in 0..MaxHead
  PROVE  /\ WithIntegration(m, from, head) \in Manifests
         /\ WithIntegration(m, from, head).status = "running"
         /\ WithIntegration(m, from, head).done = m.done
         /\ WithIntegration(m, from, head).plan = m.plan
         /\ WithIntegration(m, from, head).safe = m.safe
         /\ from # NoIntegration => WithIntegration(m, from, head).integration = from
         /\ from = NoIntegration =>
              WithIntegration(m, from, head).integration = [base |-> head, tip |-> At(head)]
         /\ WithIntegration(m, from, head).integration \in Integrations
         /\ WithIntegration(m, from, head).integration # NoIntegration
  <1>1. At(head) \in Commits
    BY DEF At, Commits, Works
  <1>2. [base |-> head, tip |-> At(head)] \in Integrations
    BY <1>1, ConstantFacts DEF At, Integrations
  <1>3. (IF from # NoIntegration THEN from ELSE [base |-> head, tip |-> At(head)]) \in Integrations
    BY <1>2
  <1> QED
    BY <1>3, MarksAssumption DEF WithIntegration, Manifests, OpenStatus

LEMMA RecordShape ==
  ASSUME TypeInv, KindInv, NEW p \in Processes, Record(p)
  PROVE  LET m == WithIntegration(me[p].held, me[p].from, main.head) IN
         /\ Moved(p) /\ SameCommand(p) /\ me[p].pc = "record"
         /\ me'[p].pc = "setup" /\ me'[p].run = me[p].run
         /\ me'[p].held = m /\ me'[p].next = m /\ me'[p].from = me[p].from
         /\ me'[p].launched = me[p].launched
         /\ me[p].run \in Runs /\ Exists(me[p].run) /\ m \in Manifests
         /\ me[p].held \in Manifests /\ me[p].from \in Integrations \union {NoIntegration}
         /\ main.head \in 0..MaxHead
         /\ manifest' = [manifest EXCEPT ![me[p].run] = m]
  <1> DEFINE held == WithIntegration(me[p].held, me[p].from, main.head)
             m == [me[p] EXCEPT !.pc = "setup", !.held = held, !.next = held]
  <1>1. /\ me[p] \in Invocation /\ me[p].pc = "record" /\ me[p].held \in Manifests
        /\ me[p].run \in Runs /\ Exists(me[p].run) /\ main.head \in 0..MaxHead
        /\ me[p].from \in Integrations \union {NoIntegration}
    BY DEF TypeInv, StateTyped, KindInv, KindAt, Record, Invocation, Owning, Recording
  <1>2. held \in Manifests
    BY <1>1, WithIntegrationTyped
  <1>3. me' = [me EXCEPT ![p] = m] /\ manifest' = [manifest EXCEPT ![me[p].run] = held]
    BY DEF TypeInv, StateTyped, Invocation, Record
  <1> HIDE DEF held
  <1>4. /\ m \in Invocation /\ m.held = held /\ m.next = held /\ m.pc = "setup"
        /\ m.kind = me[p].kind /\ m.target = me[p].target /\ m.from = me[p].from
        /\ m.run = me[p].run /\ m.launched = me[p].launched
    BY <1>1, <1>2 DEF Invocation, Places
  <1> HIDE DEF m
  <1>5. Moved(p) /\ me'[p] = m
    BY <1>3, <1>4, MeUpdate
  <1> QED
    BY <1>1, <1>2, <1>3, <1>4, <1>5 DEF held, SameCommand

LEMMA Holder ==
  ASSUME BaseInv, NEW p \in Processes, Holds(me[p])
  PROVE  lock = p /\ BranchAt(me[p])
  BY DEF BaseInv, LockInv

LEMMA LoopFacts ==
  ASSUME BaseInv, NEW p \in Processes, me[p].pc \in Looping
  PROVE  /\ Holds(me[p]) /\ me[p].kind \in RunKinds /\ lock = p
         /\ branch \in Commits /\ history.last = me[p].run
         /\ me[p].run \in Runs /\ Exists(me[p].run)
         /\ me[p].held \in Manifests /\ me[p].next \in Manifests
         /\ me[p].held.integration \in Integrations /\ me[p].next.integration \in Integrations
         /\ me[p].held.integration.base <= branch.base
         /\ me[p].next.integration.base <= branch.base
         /\ me[p] \in Invocation
  <1>1. me[p] \in Invocation /\ KindAt(me[p])
    BY DEF BaseInv, TypeInv, StateTyped, KindInv
  <1>2. me[p].kind \in RunKinds /\ Holds(me[p])
    BY <1>1 DEF KindAt, Owning, Looping, Holds, RunKinds
  <1>3. lock = p /\ BranchAt(me[p])
    BY <1>2, Holder
  <1>4. me[p].held \in Manifests /\ me[p].next \in Manifests /\ branch \in Commits
        /\ me[p].run \in Runs /\ Exists(me[p].run)
    BY <1>1, <1>3 DEF BaseInv, TypeInv, StateTyped, KindAt, BranchAt, Invocation, Owning, Looping
  <1> QED
    BY <1>1, <1>2, <1>3, <1>4 DEF BranchAt, Manifests

LEMMA WithStatusTyped ==
  ASSUME NEW m \in Manifests, NEW status \in TerminalStatus
  PROVE  /\ WithStatus(m, status) \in Manifests
         /\ WithStatus(m, status).status = status /\ WithStatus(m, status).done = m.done
         /\ WithStatus(m, status).plan = m.plan /\ WithStatus(m, status).safe = m.safe
         /\ WithStatus(m, status).integration = m.integration
  BY DEF WithStatus, Manifests

LEMMA EndFailedShape ==
  ASSUME TypeInv, KindInv, NEW p \in Processes, EndFailed(p), me[p].pc \in Owning
  PROVE  /\ me[p].run \in Runs /\ Exists(me[p].run) /\ me[p].held \in Manifests
         /\ WithStatus(me[p].held, "failed") \in Manifests
         /\ manifest' = [manifest EXCEPT ![me[p].run] = WithStatus(me[p].held, "failed")]
  <1>1. me[p].run \in Runs /\ Exists(me[p].run) /\ me[p].held \in Manifests
    BY DEF TypeInv, StateTyped, KindInv, KindAt, Invocation, Owning, Recording, Looping
  <1>2. WithStatus(me[p].held, "failed") \in Manifests
    BY <1>1, WithStatusTyped DEF TerminalStatus
  <1> QED
    BY <1>1, <1>2 DEF EndFailed, WithStatus

(* Where a run starts from.                                                *)
StartOf(m) == IF m.from # NoIntegration THEN m.from.tip ELSE At(main.head)

SetsUp(p) == IsClean /\ branch \in {NoBranch, StartOf(me[p])}

LEMMA SetupShape ==
  ASSUME BaseInv, NEW p \in Processes, Setup(p)
  PROVE  \/ ~SetsUp(p) /\ EndFailed(p) /\ UNCHANGED <<branch, worktrees, history>>
         \/ /\ SetsUp(p) /\ Moved(p) /\ SameCommand(p) /\ lock' = lock /\ manifest' = manifest
            /\ branch' = StartOf(me[p]) /\ branch' \in Commits
            /\ worktrees' \subseteq Tasks \union {Integration}
            /\ worktrees' = (worktrees \ IF me[p].from # NoIntegration
                               THEN TasksOf[manifest[me[p].target].plan] ELSE {})
                            \union {Integration}
            /\ me[p].held \in Manifests
            /\ me'[p].pc = "loop" /\ me'[p].left = TasksOf[me[p].held.plan] \ me[p].held.done
            /\ me'[p].held = me[p].held /\ me'[p].next = me[p].next /\ me'[p].run = me[p].run
            /\ me'[p].launched = {} /\ me'[p].from = me[p].from
            /\ history' \in Histories /\ history'.last = me[p].run
            /\ history'.parent = history.parent /\ history'.finished = history.finished
  <1> SUFFICES ASSUME SetsUp(p) PROVE
            /\ SetsUp(p) /\ Moved(p) /\ SameCommand(p) /\ lock' = lock /\ manifest' = manifest
            /\ branch' = StartOf(me[p]) /\ branch' \in Commits
            /\ worktrees' \subseteq Tasks \union {Integration}
            /\ worktrees' = (worktrees \ IF me[p].from # NoIntegration
                               THEN TasksOf[manifest[me[p].target].plan] ELSE {})
                            \union {Integration}
            /\ me[p].held \in Manifests
            /\ me'[p].pc = "loop" /\ me'[p].left = TasksOf[me[p].held.plan] \ me[p].held.done
            /\ me'[p].held = me[p].held /\ me'[p].next = me[p].next /\ me'[p].run = me[p].run
            /\ me'[p].launched = {} /\ me'[p].from = me[p].from
            /\ history' \in Histories /\ history'.last = me[p].run
            /\ history'.parent = history.parent /\ history'.finished = history.finished
    BY DEF Setup, SetsUp, StartOf
  <1> DEFINE left == TasksOf[me[p].held.plan] \ me[p].held.done
             m == [me[p] EXCEPT !.pc = "loop", !.left = left]
  <1>1. /\ me[p] \in Invocation /\ me[p].pc = "setup" /\ me[p].held \in Manifests
        /\ me[p].run \in Runs /\ me[p].launched = {}
        /\ me[p].from \in Integrations \union {NoIntegration}
    BY DEF BaseInv, TypeInv, StateTyped, KindInv, KindAt, Setup, Invocation, Owning, Recording, Looping
  <1>2. left \subseteq Tasks
    BY <1>1, ConstantFacts DEF Manifests
  <1>3. /\ me' = [me EXCEPT ![p] = m] /\ branch' = StartOf(me[p])
        /\ history' = [history EXCEPT !.last = me[p].run] /\ lock' = lock /\ manifest' = manifest
        /\ worktrees' = (worktrees \ IF me[p].from # NoIntegration
                               THEN TasksOf[manifest[me[p].target].plan] ELSE {})
                            \union {Integration}
    BY DEF Setup, SetsUp, StartOf, BaseInv, TypeInv, StateTyped, Invocation
  <1> HIDE DEF left
  <1>4. /\ m \in Invocation /\ m.pc = "loop" /\ m.left = left /\ m.held = me[p].held
        /\ m.next = me[p].next /\ m.run = me[p].run /\ m.launched = me[p].launched
        /\ m.kind = me[p].kind /\ m.target = me[p].target /\ m.from = me[p].from
    BY <1>1, <1>2 DEF Invocation, Places
  <1> HIDE DEF m
  <1>5. Moved(p) /\ me'[p] = m
    BY <1>3, <1>4, MeUpdate DEF BaseInv
  <1>6. StartOf(me[p]) \in Commits
    BY <1>1 DEF BaseInv, TypeInv, StateTyped, StartOf, At, Commits, Works, Integrations
  <1>7. /\ history' \in Histories /\ history'.last = me[p].run
        /\ history'.parent = history.parent /\ history'.finished = history.finished
    BY <1>1, <1>3 DEF BaseInv, TypeInv, StateTyped, Histories
  <1>8. worktrees' \subseteq Tasks \union {Integration}
    BY <1>3 DEF BaseInv, TypeInv, StateTyped
  <1> QED
    BY <1>1, <1>3, <1>4, <1>5, <1>6, <1>7, <1>8 DEF left, SameCommand

LEMMA ReservedTyped ==
  ASSUME NEW m \in Manifests
  PROVE  /\ Reserved(m) \in Manifests
         /\ Reserved(m).status = m.status /\ Reserved(m).safe = m.safe
         /\ Reserved(m).plan = m.plan /\ Reserved(m).done = m.done
         /\ Reserved(m).integration = m.integration
  BY DEF Reserved, Manifests

LEMMA ReserveShape ==
  ASSUME BaseInv, NEW p \in Processes, NEW t \in Tasks, Reserve(p, t)
  PROVE  LET n == Reserved(me[p].held) IN
         /\ Moved(p) /\ SameCommand(p) /\ me[p].pc = "loop"
         /\ t \in me[p].left \ me[p].launched /\ t \notin worktrees
         /\ n \in Manifests /\ manifest' = [manifest EXCEPT ![me[p].run] = n]
         /\ me'[p].pc = "spawn" /\ me'[p].todo = {t} /\ me'[p].held = n /\ me'[p].next = n
         /\ me'[p].run = me[p].run /\ me'[p].launched = me[p].launched
         /\ me'[p].left = me[p].left /\ me'[p].from = me[p].from
  <1> DEFINE n == Reserved(me[p].held)
             m == [me[p] EXCEPT !.pc = "spawn", !.todo = {t}, !.held = n, !.next = n]
  <1>1. me[p] \in Invocation /\ me[p].pc = "loop" /\ me[p].held \in Manifests
    BY LoopFacts DEF Reserve, Looping
  <1>2. n \in Manifests
    BY <1>1, ReservedTyped
  <1>3. /\ manifest' = [manifest EXCEPT ![me[p].run] = n]
        /\ me' = [me EXCEPT ![p].pc = "spawn", ![p].todo = {t}, ![p].held = n, ![p].next = n]
    BY DEF Reserve, Mine
  <1> HIDE DEF n
  <1>4. me' = [me EXCEPT ![p] = m]
    BY <1>3 DEF BaseInv, TypeInv, StateTyped, Invocation
  <1>5. /\ m \in Invocation /\ m.pc = "spawn" /\ m.todo = {t} /\ m.held = n /\ m.next = n
        /\ m.run = me[p].run /\ m.launched = me[p].launched /\ m.left = me[p].left
        /\ m.kind = me[p].kind /\ m.target = me[p].target /\ m.from = me[p].from
    BY <1>1, <1>2 DEF Invocation, Places
  <1> HIDE DEF m
  <1>6. Moved(p) /\ me'[p] = m
    BY <1>4, <1>5, MeUpdate DEF BaseInv
  <1> QED
    BY <1>1, <1>2, <1>3, <1>5, <1>6 DEF n, SameCommand, Reserve

LEMMA SpawnShape ==
  ASSUME BaseInv, NEW p \in Processes, Spawn(p)
  PROVE  /\ Moved(p) /\ SameCommand(p) /\ me[p].pc = "spawn" /\ me[p].todo \subseteq Tasks
         /\ me'[p].pc = "loop" /\ me'[p].todo = {}
         /\ me'[p].launched = me[p].launched \union me[p].todo
         /\ me'[p].left = me[p].left /\ me'[p].held = me[p].held /\ me'[p].next = me[p].next
         /\ me'[p].run = me[p].run /\ me'[p].from = me[p].from
         /\ history' \in Histories /\ history'.last = history.last
         /\ history'.parent = history.parent /\ history'.finished = history.finished
  <1> DEFINE m == [me[p] EXCEPT !.pc = "loop", !.todo = {}, !.launched = @ \union me[p].todo]
  <1>1. me[p] \in Invocation /\ me[p].pc = "spawn" /\ me[p].todo \subseteq Tasks
        /\ me[p].run \in Runs
    BY LoopFacts DEF Spawn, Looping, BaseInv, KindInv, KindAt
  <1>2. me' = [me EXCEPT ![p] = m]
    BY DEF Spawn, BaseInv, TypeInv, StateTyped, Invocation
  <1>3. /\ m \in Invocation /\ m.pc = "loop" /\ m.todo = {} /\ m.left = me[p].left
        /\ m.launched = me[p].launched \union me[p].todo /\ m.held = me[p].held
        /\ m.next = me[p].next /\ m.run = me[p].run
        /\ m.kind = me[p].kind /\ m.target = me[p].target /\ m.from = me[p].from
    BY <1>1 DEF Invocation, Places
  <1> HIDE DEF m
  <1>4. Moved(p) /\ me'[p] = m
    BY <1>2, <1>3, MeUpdate DEF BaseInv
  <1>5. /\ history' \in Histories /\ history'.last = history.last
        /\ history'.parent = history.parent /\ history'.finished = history.finished
    BY <1>1 DEF Spawn, BaseInv, TypeInv, StateTyped, Histories
  <1> QED
    BY <1>1, <1>3, <1>4, <1>5 DEF SameCommand

LEMMA CheckpointedTyped ==
  ASSUME NEW m \in Manifests, m.integration \in Integrations, branch' \in Commits,
         m.integration.base <= branch'.base, NEW done \in SUBSET Tasks
  PROVE  LET n == Checkpointed(m, done) IN
         /\ n \in Manifests /\ n.done = m.done \union done
         /\ n.status = m.status /\ n.safe = m.safe /\ n.plan = m.plan
         /\ n.integration # NoIntegration /\ n.integration \in Integrations
         /\ n.integration.tip = branch' /\ n.integration.base = m.integration.base
  <1> DEFINE n == Checkpointed(m, done)
             i == [m.integration EXCEPT !.tip = branch']
  <1>1. /\ i \in Integrations /\ i.tip = branch' /\ i.base = m.integration.base
        /\ i # NoIntegration /\ m.integration # NoIntegration
    BY MarksAssumption DEF Integrations
  <1>2. n = [m EXCEPT !.done = @ \union done, !.integration = i]
    BY <1>1 DEF Checkpointed, Recorded, Manifests
  <1> HIDE DEF i
  <1> QED
    BY <1>1, <1>2 DEF Manifests

Merged(t, r) == [task |-> t, run |-> r]

DoneBy(t, outcome) == IF outcome = "failed" THEN {} ELSE {t}

LEMMA IntegrateShape ==
  ASSUME BaseInv, NEW p \in Processes, NEW t \in Tasks,
         NEW outcome \in {"merged", "unchanged", "failed"}, Integrate(p, t, outcome)
  PROVE  LET done == DoneBy(t, outcome)
             n == Checkpointed(me[p].held, done) IN
         /\ Moved(p) /\ SameCommand(p) /\ me[p].pc \in {"loop", "integrate"}
         /\ t \in me[p].launched /\ Settled(p)
         /\ branch' \in Commits /\ branch'.base = branch.base
         /\ branch'.work = IF outcome = "merged" THEN Append(branch.work, Merged(t, me[p].run))
                                                 ELSE branch.work
         /\ Merged(t, me[p].run) \in Merges
         /\ n \in Manifests /\ n.done = me[p].held.done \union done
         /\ n.status = me[p].held.status /\ n.safe = me[p].held.safe
         /\ n.plan = me[p].held.plan
         /\ n.integration # NoIntegration /\ n.integration.tip = branch'
         /\ n.integration.base = me[p].held.integration.base
         /\ me'[p].pc = "checkpoint" /\ me'[p].next = n /\ me'[p].held = me[p].held
         /\ me'[p].launched = me[p].launched \ {t} /\ me'[p].left = me[p].left \ {t}
         /\ me'[p].run = me[p].run /\ me'[p].from = me[p].from
         /\ history' \in Histories /\ history'.last = history.last
         /\ history'.parent = history.parent
         /\ history'.finished = history.finished \union {Merged(d, me[p].run) : d \in done}
  <1> DEFINE done == DoneBy(t, outcome)
             n == Checkpointed(me[p].held, done)
             m == [me[p] EXCEPT !.pc = "checkpoint", !.launched = @ \ {t}, !.left = @ \ {t},
                                !.next = n]
  <1>1. /\ me[p].pc \in {"loop", "integrate"} /\ t \in me[p].launched /\ Settled(p)
        /\ me[p].pc \in Looping
    BY DEF Integrate, Looping
  <1>2. /\ me[p] \in Invocation /\ branch \in Commits /\ me[p].run \in Runs
        /\ me[p].held \in Manifests /\ me[p].held.integration \in Integrations
        /\ me[p].held.integration.base <= branch.base
    BY <1>1, LoopFacts
  <1>3. Merged(t, me[p].run) \in Merges
    BY <1>2 DEF Merged, Merges
  <1>4. /\ branch' \in Commits /\ branch'.base = branch.base
        /\ branch'.work = IF outcome = "merged" THEN Append(branch.work, Merged(t, me[p].run))
                                                ELSE branch.work
    <2> DEFINE more == Append(branch.work, Merged(t, me[p].run))
    <2>1. branch' = IF outcome = "merged" THEN [branch EXCEPT !.work = more] ELSE branch
      BY DEF Integrate, Merged
    <2>2. branch.work \in Seq(Merges)
      BY <1>2 DEF Commits, Works
    <2>3. more \in Seq(Merges)
      BY <1>3, <2>2
    <2> HIDE DEF more
    <2>4. CASE outcome = "merged"
      BY <1>2, <2>1, <2>3, <2>4 DEF Commits, Works, more
    <2>5. CASE outcome # "merged"
      BY <1>2, <2>1, <2>5
    <2> QED
      BY <2>4, <2>5
  <1>5. /\ n \in Manifests /\ n.done = me[p].held.done \union done
        /\ n.status = me[p].held.status /\ n.safe = me[p].held.safe
        /\ n.plan = me[p].held.plan
        /\ n.integration # NoIntegration /\ n.integration.tip = branch'
        /\ n.integration.base = me[p].held.integration.base
    BY <1>2, <1>4, CheckpointedTyped DEF DoneBy
  <1>6. /\ me' = [me EXCEPT ![p].pc = "checkpoint", ![p].launched = @ \ {t},
                         ![p].left = @ \ {t}, ![p].next = n]
        /\ history' = [history EXCEPT !.finished = @ \union
                         {[task |-> d, run |-> me[p].run] : d \in done}]
    BY DEF Integrate, Mine, DoneBy
  <1> HIDE DEF n
  <1>7. me' = [me EXCEPT ![p] = m]
    BY <1>6 DEF BaseInv, TypeInv, StateTyped, Invocation
  <1>8. /\ m \in Invocation /\ m.pc = "checkpoint" /\ m.next = n /\ m.held = me[p].held
        /\ m.launched = me[p].launched \ {t} /\ m.left = me[p].left \ {t}
        /\ m.run = me[p].run /\ m.from = me[p].from
        /\ m.kind = me[p].kind /\ m.target = me[p].target
    BY <1>2, <1>5 DEF Invocation, Places
  <1> HIDE DEF m
  <1>9. Moved(p) /\ me'[p] = m
    BY <1>7, <1>8, MeUpdate DEF BaseInv
  <1>10. {Merged(d, me[p].run) : d \in done} \subseteq Merges
    BY <1>3 DEF DoneBy
  <1>11. /\ history' \in Histories /\ history'.last = history.last
         /\ history'.parent = history.parent
         /\ history'.finished = history.finished \union {Merged(d, me[p].run) : d \in done}
    BY <1>6, <1>10 DEF BaseInv, TypeInv, StateTyped, Histories, Merged
  <1> QED
    BY <1>1, <1>3, <1>4, <1>5, <1>8, <1>9, <1>11 DEF n, SameCommand

LEMMA CheckpointShape ==
  ASSUME BaseInv, NEW p \in Processes, Checkpoint(p)
  PROVE  /\ Moved(p) /\ SameCommand(p) /\ me[p].pc = "checkpoint"
         /\ me'[p].pc \in {"loop", "integrate"}
         /\ me'[p].held = me[p].next /\ me'[p].next = me[p].next
         /\ me'[p].run = me[p].run /\ me'[p].from = me[p].from
         /\ me'[p].launched = me[p].launched /\ me'[p].left = me[p].left
         /\ manifest' = [manifest EXCEPT ![me[p].run] = me[p].next]
  <1> DEFINE pc == IF me[p].launched = {} THEN "loop" ELSE "integrate"
             m == [me[p] EXCEPT !.pc = pc, !.held = me[p].next, !.next = me[p].next]
  <1>1. me[p] \in Invocation /\ me[p].pc = "checkpoint" /\ pc \in {"loop", "integrate"}
    BY DEF Checkpoint, BaseInv, TypeInv, StateTyped
  <1>2. /\ me' = [me EXCEPT ![p] = m]
        /\ manifest' = [manifest EXCEPT ![me[p].run] = me[p].next]
    BY DEF Checkpoint, Write, BaseInv, TypeInv, StateTyped, Invocation
  <1> HIDE DEF pc
  <1>3. /\ m \in Invocation /\ m.pc = pc /\ m.held = me[p].next /\ m.next = me[p].next
        /\ m.run = me[p].run /\ m.from = me[p].from
        /\ m.launched = me[p].launched /\ m.left = me[p].left
        /\ m.kind = me[p].kind /\ m.target = me[p].target
    BY <1>1 DEF Invocation, Places
  <1> HIDE DEF m
  <1>4. Moved(p) /\ me'[p] = m
    BY <1>2, <1>3, MeUpdate DEF BaseInv
  <1> QED
    BY <1>1, <1>2, <1>3, <1>4 DEF SameCommand

LEMMA FinalTyped ==
  ASSUME NEW m \in Manifests, branch \in Commits, NEW aborted \in BOOLEAN
  PROVE  LET n == Final(m, aborted) IN
         /\ n \in Manifests /\ n.done = m.done /\ n.plan = m.plan
         /\ branch.work = <<>> =>
              n.status \in {"cancelled", "completed"} /\ n.integration = m.integration
         /\ branch.work # <<>> =>
              /\ n.status = IF aborted THEN "interrupted" ELSE "review_pending"
              /\ n.safe = aborted /\ n.integration # NoIntegration
              /\ n.integration = [base |-> branch.base, tip |-> branch]
  <1>1. /\ [base |-> branch.base, tip |-> branch] \in Integrations
        /\ [base |-> branch.base, tip |-> branch] # NoIntegration
    BY MarksAssumption, ConstantFacts DEF Integrations, Commits
  <1>2. CASE branch.work = <<>>
    BY <1>2 DEF Final, Manifests, TerminalStatus
  <1>3. CASE branch.work # <<>>
    <2>1. Final(m, aborted) =
            [m EXCEPT !.status = IF aborted THEN "interrupted" ELSE "review_pending",
                      !.safe = aborted,
                      !.integration = [base |-> branch.base, tip |-> branch]]
      BY <1>3 DEF Final
    <2> DEFINE i == [base |-> branch.base, tip |-> branch]
               s == IF aborted THEN "interrupted" ELSE "review_pending"
    <2>2. i \in Integrations /\ s \in OpenStatus /\ i # NoIntegration
      BY <1>1 DEF OpenStatus
    <2> HIDE DEF i, s
    <2>3. LET n == [m EXCEPT !.status = s, !.safe = aborted, !.integration = i] IN
            /\ n \in Manifests /\ n.done = m.done /\ n.plan = m.plan
            /\ n.status = s /\ n.safe = aborted /\ n.integration = i
      BY <2>2 DEF Manifests
    <2> QED
      BY <1>3, <2>1, <2>2, <2>3 DEF i, s
  <1> QED
    BY <1>2, <1>3

LEMMA FinishShape ==
  ASSUME BaseInv, NEW p \in Processes, NEW aborted \in BOOLEAN, Finish(p, aborted)
  PROVE  LET n == Final(me[p].held, aborted) IN
         /\ Moved(p) /\ SameCommand(p) /\ me[p].pc \in {"loop", "spawn"} /\ Settled(p)
         /\ me'[p].pc = (IF branch.work = <<>> /\ ~me[p].held.keep THEN "clean" ELSE "close")
         /\ me'[p].next = n /\ me'[p].held = me[p].held /\ me'[p].launched = {}
         /\ me'[p].run = me[p].run /\ me'[p].from = me[p].from /\ n \in Manifests
  <1> DEFINE n == Final(me[p].held, aborted)
             pc == IF branch.work = <<>> /\ ~me[p].held.keep THEN "clean" ELSE "close"
             m == [me[p] EXCEPT !.pc = pc, !.todo = {}, !.launched = {}, !.next = n]
  <1>1. me[p].pc \in {"loop", "spawn"} /\ me[p].pc \in Looping /\ Settled(p)
    BY DEF Finish, Looping
  <1>2. me[p] \in Invocation /\ branch \in Commits /\ me[p].held \in Manifests
    BY <1>1, LoopFacts
  <1>3. n \in Manifests /\ pc \in Places
    BY <1>2, FinalTyped DEF Places
  <1>4. me' = [me EXCEPT ![p].pc = pc, ![p].todo = {}, ![p].launched = {}, ![p].next = n]
    BY DEF Finish, Mine
  <1> HIDE DEF n, pc
  <1>5. me' = [me EXCEPT ![p] = m]
    BY <1>4 DEF BaseInv, TypeInv, StateTyped, Invocation
  <1>6. /\ m \in Invocation /\ m.pc = pc /\ m.next = n /\ m.held = me[p].held
        /\ m.launched = {} /\ m.run = me[p].run /\ m.from = me[p].from
        /\ m.kind = me[p].kind /\ m.target = me[p].target
    BY <1>2, <1>3 DEF Invocation
  <1> HIDE DEF m
  <1>7. Moved(p) /\ me'[p] = m
    BY <1>5, <1>6, MeUpdate DEF BaseInv
  <1> QED
    BY <1>1, <1>3, <1>6, <1>7 DEF n, pc, SameCommand

LEMMA ApplyShape ==
  ASSUME BaseInv, NEW p \in Processes, Apply(p)
  PROVE  \/ Leave(p) /\ UNCHANGED main
         \/ /\ Moved(p) /\ SameCommand(p) /\ lock' = lock
            /\ WorkersClear /\ AppliesCleanly(me[p].held)
            /\ main' = [main EXCEPT !.staged = branch.work]
            /\ me[p].held \in Manifests
            /\ me'[p].pc = "decide" /\ me'[p].next = WithStatus(me[p].held, "applied")
            /\ me'[p].next \in Manifests /\ me'[p].held = me[p].held
            /\ me'[p].run = me[p].run /\ me'[p].from = me[p].from
            /\ me'[p].launched = me[p].launched
  <1> DEFINE n == WithStatus(me[p].held, "applied")
             m == [me[p] EXCEPT !.pc = "decide", !.next = n]
  <1>1. me[p] \in Invocation /\ me[p].held \in Manifests
    BY DEF Apply, BaseInv, TypeInv, StateTyped, KindInv, KindAt, Invocation
  <1>2. n \in Manifests
    BY <1>1, WithStatusTyped DEF TerminalStatus
  <1>3. \/ Leave(p) /\ UNCHANGED main
        \/ /\ WorkersClear /\ AppliesCleanly(me[p].held) /\ lock' = lock
           /\ main' = [main EXCEPT !.staged = branch.work]
           /\ me' = [me EXCEPT ![p].pc = "decide", ![p].next = n]
    BY DEF Apply, Mine
  <1> HIDE DEF n
  <1>4. CASE Leave(p) /\ UNCHANGED main
    BY <1>4
  <1>5. CASE ~(Leave(p) /\ UNCHANGED main)
    <2>1. me' = [me EXCEPT ![p] = m]
      BY <1>3, <1>5 DEF BaseInv, TypeInv, StateTyped, Invocation
    <2>2. /\ m \in Invocation /\ m.pc = "decide" /\ m.next = n /\ m.held = me[p].held
          /\ m.launched = me[p].launched /\ m.run = me[p].run /\ m.from = me[p].from
          /\ m.kind = me[p].kind /\ m.target = me[p].target
      BY <1>1, <1>2 DEF Invocation, Places
    <2> HIDE DEF m
    <2>3. Moved(p) /\ me'[p] = m
      BY <2>1, <2>2, MeUpdate DEF BaseInv
    <2> QED
      BY <1>1, <1>2, <1>3, <1>5, <2>2, <2>3 DEF n, SameCommand
  <1> QED
    BY <1>4, <1>5

LEMMA AbortShape ==
  ASSUME BaseInv, NEW p \in Processes, Abort(p)
  PROVE  \/ Leave(p)
         \/ /\ Moved(p) /\ SameCommand(p) /\ lock' = lock
            /\ WorkersClear /\ TipIsRecorded(me[p].held)
            /\ me[p].held \in Manifests
            /\ me'[p].pc = "clean" /\ me'[p].next = WithStatus(me[p].held, "aborted")
            /\ me'[p].next \in Manifests /\ me'[p].held = me[p].held
            /\ me'[p].run = me[p].run /\ me'[p].from = me[p].from
            /\ me'[p].launched = me[p].launched
  <1> DEFINE n == WithStatus(me[p].held, "aborted")
             m == [me[p] EXCEPT !.pc = "clean", !.next = n]
  <1>1. me[p] \in Invocation /\ me[p].held \in Manifests
    BY DEF Abort, BaseInv, TypeInv, StateTyped, KindInv, KindAt, Invocation
  <1>2. n \in Manifests
    BY <1>1, WithStatusTyped DEF TerminalStatus
  <1>3. \/ Leave(p)
        \/ /\ WorkersClear /\ TipIsRecorded(me[p].held) /\ lock' = lock
           /\ me' = [me EXCEPT ![p].pc = "clean", ![p].next = n]
    BY DEF Abort, Mine
  <1> HIDE DEF n
  <1>4. CASE Leave(p)
    BY <1>4
  <1>5. CASE ~Leave(p)
    <2>1. me' = [me EXCEPT ![p] = m]
      BY <1>3, <1>5 DEF BaseInv, TypeInv, StateTyped, Invocation
    <2>2. /\ m \in Invocation /\ m.pc = "clean" /\ m.next = n /\ m.held = me[p].held
          /\ m.launched = me[p].launched /\ m.run = me[p].run /\ m.from = me[p].from
          /\ m.kind = me[p].kind /\ m.target = me[p].target
      BY <1>1, <1>2 DEF Invocation, Places
    <2> HIDE DEF m
    <2>3. Moved(p) /\ me'[p] = m
      BY <2>1, <2>2, MeUpdate DEF BaseInv
    <2> QED
      BY <1>1, <1>2, <1>3, <1>5, <2>2, <2>3 DEF n, SameCommand
  <1> QED
    BY <1>4, <1>5

(***************************************************************************)
(* The base: types, the order of the runs, what commands hold, the lock.   *)
(***************************************************************************)
Grows == \A r \in Runs : Exists(r) => Exists(r)'

(* What the invariant says of the others does not change.                  *)
Undisturbed(p) ==
  /\ branch' = branch /\ main'.head >= main.head /\ history'.last = history.last
  /\ \A q \in Processes \ {p} : lock = q => lock' = q

LEMMA At_p ==
  ASSUME BaseInv, NEW p \in Processes
  PROVE  /\ me[p] \in Invocation /\ KindAt(me[p])
         /\ Holds(me[p]) => lock = p /\ BranchAt(me[p])
  BY DEF BaseInv, TypeInv, KindInv, LockInv

LEMMA BaseKeep ==
  ASSUME BaseInv, NEW p \in Processes, StateTyped', RunsInv', Grows, Moved(p),
         lock' \in {lock, p, Nobody}, KindAt(me[p])',
         Holds(me[p]) \/ lock = Nobody \/ Undisturbed(p),
         Holds(me[p])' => lock' = p /\ BranchAt(me[p])'
  PROVE  BaseInv'
  <1>1. TypeInv'
    BY DEF BaseInv, TypeInv, Moved
  <1>2. KindInv'
    <2> SUFFICES ASSUME NEW q \in Processes, q # p PROVE KindAt(me[q])'
      BY DEF KindInv
    <2>1. me'[q] = me[q] /\ KindAt(me[q]) /\ me[q] \in Invocation
      BY At_p DEF Moved, Others
    <2>2. \A r \in Runs \union {NoRun} : r # NoRun /\ Exists(r) => Exists(r)'
      BY DEF Grows
    <2>3. me[q].run \in Runs \union {NoRun} /\ me[q].target \in Runs \union {NoRun}
      BY <2>1 DEF Invocation
    <2> QED
      BY <2>1, <2>2, <2>3 DEF KindAt
  <1>3. LockInv'
    <2> SUFFICES ASSUME NEW q \in Processes, q # p, Holds(me[q])' PROVE lock' = q /\ BranchAt(me[q])'
      BY DEF LockInv
    <2>1. me'[q] = me[q]
      BY DEF Moved, Others
    <2>2. Holds(me[q]) /\ lock = q /\ BranchAt(me[q])
      BY <2>1, At_p DEF Holds
    <2>3. Undisturbed(p)
      BY <2>2, At_p, MarksAssumption
    <2>4. lock' = q
      BY <2>2, <2>3 DEF Undisturbed
    <2>5. main.head \in Int /\ main'.head \in Int /\ main'.head >= main.head
      BY <2>3 DEF BaseInv, TypeInv, StateTyped, Undisturbed
    <2>6. me[q] \in Invocation
      BY At_p
    <2>61. /\ me[q].held.integration # NoIntegration
           /\ me[q].held.integration.base <= main.head
           /\ me[q].pc = "setup"
           => me[q].held.integration.base <= main'.head
      BY <2>2, <2>5, <2>6, At_p DEF Invocation, Manifests, Integrations, KindAt, Owning, Recording
    <2>7. BranchAt(me[q])'
      BY <2>1, <2>2, <2>3, <2>61 DEF BranchAt, Undisturbed
    <2> QED
      BY <2>4, <2>7
  <1> QED
    BY <1>1, <1>2, <1>3 DEF BaseInv

(* Nothing but what a command holds, and the lock.                         *)
Unmoved ==
  UNCHANGED <<manifest, branch, refs, worktrees, main, alive, strays, sentinels, plan, history>>

LEMMA UnmovedState ==
  ASSUME BaseInv, Unmoved
  PROVE  StateTyped' /\ RunsInv' /\ Grows
  BY DEF BaseInv, TypeInv, StateTyped, RunsInv, Grows, Unmoved, Created, Exists

(* A record that is rewritten.                                             *)
LEMMA Rewritten ==
  ASSUME StateTyped, NEW r \in Runs, Exists(r), NEW m \in Manifests,
         manifest' = [manifest EXCEPT ![r] = m]
  PROVE  /\ manifest' \in [Runs -> Manifests \union {NoManifest}]
         /\ \A s \in Runs : Exists(s)' <=> Exists(s)
         /\ Created' = Created /\ Grows
         /\ manifest'[r] = m /\ \A s \in Runs : s # r => manifest'[s] = manifest[s]
  BY MarksAssumption DEF StateTyped, Exists, Created, Grows

LEMMA RunsKeep ==
  ASSUME RunsInv, Created' = Created, \A s \in Runs : Exists(s)' <=> Exists(s),
         history'.parent = history.parent, history.last \in Runs \union {NoRun},
         history'.last = history.last \/ (history'.last \in Runs /\ Exists(history'.last))
  PROVE  RunsInv'
  BY DEF RunsInv

(* A command that leaves.                                                  *)
LEMMA LeaveBase ==
  ASSUME BaseInv, NEW p \in Processes, Leave(p), StateTyped', RunsInv', Grows,
         Holds(me[p]) \/ (branch' = branch /\ main' = main /\ history' = history)
  PROVE  BaseInv'
  <1>1. Moved(p) /\ me'[p] = Idle /\ lock' = IF lock = p THEN Nobody ELSE lock
    BY LeaveShape DEF BaseInv
  <1>2. KindAt(me[p])' /\ ~Holds(me[p])'
    BY <1>1, IdleTyped DEF KindAt, Holds, Looping, Owning, Recording, Leaving, RunKinds,
       DecisionKinds, Idle
  <1>3. Holds(me[p]) \/ Undisturbed(p)
    BY <1>1 DEF Undisturbed, BaseInv, TypeInv, StateTyped
  <1> QED
    BY <1>1, <1>2, <1>3, BaseKeep

LEMMA LeaveUnmoved ==
  ASSUME BaseInv, NEW p \in Processes, Leave(p), Unmoved
  PROVE  BaseInv'
  BY LeaveBase, UnmovedState DEF Unmoved

LEMMA BeginBase == ASSUME BaseInv, NEW p \in Processes, Begin(p) PROVE BaseInv'
  <1>1. ASSUME NEW kind \in Kinds, NEW target \in Runs \union {NoRun}, NEW keep \in Keeps,
               NEW max \in Limits, BeginLocked(p, kind, target, keep, max)
        PROVE BaseInv'
    <2>1. /\ Moved(p) /\ me[p].pc = "idle" /\ lock = Nobody /\ lock' = p
          /\ me'[p].pc = "guard" /\ me'[p].kind = kind /\ kind \in RunKinds
          /\ me'[p].target = target /\ NewRecord(me'[p].held)
          /\ me'[p].from = NoIntegration /\ me'[p].run = NoRun /\ me'[p].launched = {}
          /\ (kind = "fresh" <=> target = NoRun) /\ (target # NoRun => Exists(target))
      BY <1>1, BeginLockedShape DEF BaseInv
    <2>2. Unmoved
      BY <1>1 DEF BeginLocked, Unmoved, git, workers
    <2>3. KindAt(me[p])'
      BY <2>1, <2>2, MarksAssumption DEF KindAt, RunKinds, DecisionKinds, Owning, Looping,
         Recording, Leaving, NewRecord, Unmoved, Exists
    <2>4. BranchAt(me[p])'
      BY <2>1 DEF BranchAt, Recording, Looping, DecisionKinds
    <2> QED
      BY <2>1, <2>2, <2>3, <2>4, UnmovedState, BaseKeep
  <1>2. ASSUME NEW max \in Limits, BeginPlain(p, max) PROVE BaseInv'
    <2>1. /\ Moved(p) /\ me[p].pc = "idle" /\ lock' = lock /\ "plain" \in Kinds
          /\ me'[p].pc = "stale" /\ me'[p].kind = "plain" /\ me'[p].target = NoRun
          /\ NewRecord(me'[p].held) /\ me'[p].from = NoIntegration
          /\ me'[p].todo = Created /\ me'[p].launched = {}
      BY <1>2, BeginPlainShape DEF BaseInv
    <2>2. Unmoved
      BY <1>2 DEF BeginPlain, Unmoved, git, workers
    <2>3. KindAt(me[p])'
      BY <2>1, <2>2, MarksAssumption DEF KindAt, RunKinds, DecisionKinds, Owning, Looping,
         Recording, Leaving, NewRecord, Unmoved, Exists, Created
    <2>4. ~Holds(me[p])' /\ Undisturbed(p)
      BY <2>1, <2>2 DEF Holds, Undisturbed, Unmoved, BaseInv, TypeInv, StateTyped
    <2> QED
      BY <2>1, <2>2, <2>3, <2>4, UnmovedState, BaseKeep
  <1>3. ASSUME NEW kind \in {"apply", "abort"}, NEW r \in Runs, BeginDecision(p, kind, r)
        PROVE BaseInv'
    <2>1. /\ Moved(p) /\ me[p].pc = "idle" /\ lock' = lock
          /\ me'[p].pc = "lock" /\ me'[p].kind = kind /\ me'[p].target = r /\ me'[p].run = r
          /\ me'[p].held = manifest[r] /\ Exists(r) /\ me'[p].held \in Manifests
          /\ me'[p].held.integration # NoIntegration /\ me'[p].launched = {}
      BY <1>3, BeginDecisionShape DEF BaseInv
    <2>2. Unmoved
      BY <1>3 DEF BeginDecision, Unmoved, git, workers
    <2>3. KindAt(me[p])'
      BY <2>1, <2>2, MarksAssumption, ConstantFacts DEF KindAt, RunKinds, DecisionKinds, Owning,
         Looping, Recording, Leaving, Unmoved, Exists
    <2>4. ~Holds(me[p])' /\ Undisturbed(p)
      BY <2>1, <2>2 DEF Holds, Undisturbed, Unmoved, BaseInv, TypeInv, StateTyped
    <2> QED
      BY <2>1, <2>2, <2>3, <2>4, UnmovedState, BaseKeep
  <1>4. CASE TakeLock(p)
    <2>1. Unmoved
      BY <1>4 DEF TakeLock, Unmoved, git, workers
    <2>2. CASE Leave(p)
      BY <2>1, <2>2, LeaveUnmoved
    <2>3. CASE /\ lock = Nobody /\ lock' = p /\ me[p].kind \in Places /\ Goto(p, me[p].kind)
      <3>1. /\ me[p].pc = "lock" /\ me[p].kind \in DecisionKinds /\ KindAt(me[p])
        BY <1>4, At_p DEF TakeLock, KindAt
      <3>2. /\ Moved(p) /\ SameCommand(p) /\ me'[p].pc = me[p].kind
            /\ me'[p].run = me[p].run /\ me'[p].held = me[p].held /\ me'[p].next = me[p].next
            /\ me'[p].launched = me[p].launched
        BY <2>3, GotoShape DEF BaseInv
      <3>3. KindAt(me[p])'
        BY <2>1, <3>1, <3>2 DEF KindAt, RunKinds, DecisionKinds, Owning, Looping, Recording,
           Leaving, Unmoved, Exists, SameCommand
      <3>4. BranchAt(me[p])'
        BY <3>1, <3>2 DEF BranchAt, Recording, Looping, DecisionKinds, SameCommand, RunKinds
      <3> QED
        BY <2>1, <2>3, <3>2, <3>3, <3>4, UnmovedState, BaseKeep
    <2> QED
      BY <1>4, <2>2, <2>3, TakeLockShape DEF BaseInv
  <1> QED
    BY <1>1, <1>2, <1>3, <1>4 DEF Begin

LEMMA GuardBase ==
  ASSUME BaseInv, NEW p \in Processes, Fresh(p) \/ Resume(p) \/ Review(p) PROVE BaseInv'
  <1> USE DEF Recording, Looping, Leaving, Owning, RunKinds, DecisionKinds
  <1>0. /\ me[p] \in Invocation /\ KindAt(me[p]) /\ me[p].pc = "guard"
        /\ Holds(me[p]) /\ lock = p /\ me[p].from = NoIntegration
    BY At_p DEF Holds, KindAt, Fresh, Resume, Review
  <1>1. ASSUME Leave(p), UNCHANGED <<manifest, git, main, plan, history>>, StateTyped'
        PROVE  BaseInv'
    BY <1>0, <1>1, LeaveBase DEF BaseInv, RunsInv, Grows, Created, Exists
  <1>2. ASSUME UNCHANGED workers \/ WorkersBlock \/ WorkersClear,
               UNCHANGED <<manifest, git, main, plan, history>>
        PROVE  StateTyped' /\ RunsInv' /\ Grows
    BY <1>2 DEF BaseInv, RunsInv, Grows, Created, Exists, TypeInv, StateTyped, git, workers,
         WorkersBlock, WorkersClear, Blocking
  <1>3. CASE Fresh(p)
    <2>1. /\ UNCHANGED workers /\ UNCHANGED <<manifest, git, main, plan, history>>
          /\ me[p].kind = "fresh"
      BY <1>3 DEF Fresh
    <2>2. StateTyped' /\ RunsInv' /\ Grows
      BY <1>2, <2>1
    <2>3. CASE ~Leave(p)
      <3>1. /\ Moved(p) /\ SameCommand(p) /\ lock' = lock
            /\ me'[p].pc = "stale" /\ me'[p].todo = Created /\ me'[p].held = me[p].held
            /\ me'[p].from = me[p].from /\ me'[p].launched = me[p].launched
            /\ me'[p].run = me[p].run
        BY <1>3, <2>3, FreshShape DEF BaseInv
      <3>2. KindAt(me[p])'
        BY <1>0, <2>1, <3>1 DEF KindAt, Exists, SameCommand, Created
      <3>3. BranchAt(me[p])'
        BY <1>0, <2>1, <3>1 DEF BranchAt, SameCommand
      <3> QED
        BY <1>0, <2>2, <3>1, <3>2, <3>3, BaseKeep
    <2> QED
      BY <1>1, <2>1, <2>2, <2>3
  <1>4. CASE Resume(p)
    <2>1. /\ UNCHANGED workers \/ WorkersBlock \/ WorkersClear
          /\ UNCHANGED <<manifest, git, main, plan, history>>
          /\ me[p].kind = "resume"
      BY <1>4 DEF Resume
    <2>2. StateTyped' /\ RunsInv' /\ Grows
      BY <1>2, <2>1
    <2>3. CASE ~Leave(p)
      <3>1. /\ Moved(p) /\ SameCommand(p) /\ lock' = lock
            /\ ResumeGuards(manifest[me[p].target], me[p].held.plan)
            /\ me'[p].pc = "create" /\ me'[p].from = manifest[me[p].target].integration
            /\ me'[p].held \in Manifests
            /\ me'[p].launched = me[p].launched /\ me'[p].run = me[p].run
        BY <1>4, <2>3, ResumeShape DEF BaseInv
      <3>2. KindAt(me[p])'
        BY <1>0, <2>1, <3>1, MarksAssumption DEF KindAt, Exists, SameCommand
      <3>3. BranchAt(me[p])'
        BY <1>0, <2>1, <3>1 DEF BranchAt, SameCommand, ResumeGuards, git
      <3> QED
        BY <1>0, <2>2, <3>1, <3>2, <3>3, BaseKeep
    <2> QED
      BY <1>1, <2>1, <2>2, <2>3
  <1>5. CASE Review(p)
    <2>1. /\ UNCHANGED workers \/ WorkersBlock \/ WorkersClear
          /\ UNCHANGED <<manifest, git, main, plan, history>>
          /\ me[p].kind = "review"
      BY <1>5 DEF Review
    <2>2. StateTyped' /\ RunsInv' /\ Grows
      BY <1>2, <2>1
    <2>3. CASE ~Leave(p)
      <3>1. /\ Moved(p) /\ SameCommand(p) /\ lock' = lock
            /\ ReviewGuards(manifest[me[p].target])
            /\ me'[p].pc = "stale" /\ me'[p].from = manifest[me[p].target].integration
            /\ me'[p].held = me[p].held /\ me'[p].todo = Created
            /\ me'[p].launched = me[p].launched /\ me'[p].run = me[p].run
        BY <1>5, <2>3, ReviewShape DEF BaseInv
      <3>2. KindAt(me[p])'
        BY <1>0, <2>1, <3>1, MarksAssumption DEF KindAt, Exists, SameCommand, Created
      <3>3. BranchAt(me[p])'
        BY <1>0, <2>1, <3>1 DEF BranchAt, SameCommand, ReviewGuards, git
      <3> QED
        BY <1>0, <2>2, <3>1, <3>2, <3>3, BaseKeep
    <2> QED
      BY <1>1, <2>1, <2>2, <2>3
  <1> QED
    BY <1>3, <1>4, <1>5

LEMMA StaleBase ==
  ASSUME BaseInv, NEW p \in Processes,
         Mark(p) \/ NoneStale(p) \/ (\E r \in Runs : ReadStale(p, r))
  PROVE BaseInv'
  <1> USE DEF Recording, Looping, Leaving, Owning, RunKinds, DecisionKinds
  <1>0. /\ me[p] \in Invocation /\ KindAt(me[p])
        /\ Holds(me[p]) => lock = p /\ BranchAt(me[p])
    BY At_p
  <1>1. ASSUME Moved(p), me[p].pc \in {"stale", "mark"}, me'[p].pc \in {"stale", "mark", "create"},
               SameCommand(p), me'[p].from = me[p].from,
               UNCHANGED <<git, main, workers, lock, plan, history>>
        PROVE  /\ Holds(me[p]) \/ Undisturbed(p)
               /\ Holds(me[p])' => lock' = p /\ BranchAt(me[p])'
    <2>1. Holds(me[p])' => Holds(me[p])
      BY <1>1 DEF Holds, SameCommand
    <2>2. Undisturbed(p)
      BY <1>1 DEF Undisturbed, git, BaseInv, TypeInv, StateTyped
    <2>3. BranchAt(me[p]) => BranchAt(me[p])'
      BY <1>0, <1>1 DEF BranchAt, SameCommand, git, KindAt
    <2> QED
      BY <1>0, <1>1, <2>1, <2>2, <2>3
  <1>2. CASE Mark(p)
    <2>1. /\ Moved(p) /\ SameCommand(p) /\ me[p].pc = "mark"
          /\ me'[p].pc = "stale" /\ me'[p].run = NoRun /\ me'[p].todo = me[p].todo
          /\ me'[p].held = me[p].held /\ me'[p].from = me[p].from
          /\ me'[p].launched = me[p].launched
          /\ me[p].run \in Runs /\ Exists(me[p].run) /\ me[p].next \in Manifests
          /\ manifest' = [manifest EXCEPT ![me[p].run] = me[p].next]
      BY <1>2, MarkShape DEF BaseInv
    <2>2. UNCHANGED <<git, main, workers, lock, plan, history>>
      BY <1>2 DEF Mark
    <2>3. /\ manifest' \in [Runs -> Manifests \union {NoManifest}]
          /\ \A s \in Runs : Exists(s)' <=> Exists(s)
          /\ Created' = Created /\ Grows
      BY <2>1, Rewritten DEF BaseInv, TypeInv
    <2>4. StateTyped'
      BY <2>2, <2>3 DEF BaseInv, TypeInv, StateTyped, git, workers
    <2>5. RunsInv'
      BY <2>2, <2>3, RunsKeep DEF BaseInv, TypeInv, StateTyped, Histories
    <2>6. KindAt(me[p])'
      BY <1>0, <2>1, <2>3 DEF KindAt, SameCommand, Invocation
    <2> QED
      BY <1>1, <2>1, <2>2, <2>3, <2>4, <2>5, <2>6, BaseKeep
  <1>3. CASE NoneStale(p)
    <2>1. /\ Moved(p) /\ SameCommand(p) /\ me[p].pc = "stale"
          /\ me'[p].pc = "create" /\ me'[p].run = me[p].run
          /\ me'[p].held = me[p].held /\ me'[p].from = me[p].from
          /\ me'[p].launched = me[p].launched
      BY <1>3, NoneStaleShape DEF BaseInv
    <2>2. UNCHANGED <<git, main, workers, lock, plan, history>> /\ Unmoved
      BY <1>3 DEF NoneStale, Unmoved, git, workers
    <2>3. KindAt(me[p])'
      BY <1>0, <2>1, <2>2 DEF KindAt, SameCommand, Unmoved, Exists
    <2> QED
      BY <1>1, <2>1, <2>2, <2>3, UnmovedState, BaseKeep
  <1>4. ASSUME NEW r \in Runs, ReadStale(p, r) PROVE BaseInv'
    <2>1. /\ Moved(p) /\ SameCommand(p) /\ Exists(r) /\ me[p].pc = "stale"
          /\ me'[p].pc = "mark" /\ me'[p].run = r
          /\ me'[p].next \in Manifests /\ me'[p].todo = me[p].todo \ {r}
          /\ me'[p].held = me[p].held /\ me'[p].from = me[p].from
          /\ me'[p].launched = me[p].launched
      BY <1>4, ReadStaleShape DEF BaseInv
    <2>2. UNCHANGED <<git, main, workers, lock, plan, history>> /\ Unmoved
      BY <1>4 DEF ReadStale, Unmoved, git, workers
    <2>3. KindAt(me[p])'
      BY <1>0, <2>1, <2>2, MarksAssumption, ConstantFacts DEF KindAt, SameCommand, Unmoved, Exists
    <2> QED
      BY <1>1, <2>1, <2>2, <2>3, UnmovedState, BaseKeep
  <1> QED
    BY <1>2, <1>3, <1>4

(* A record that is new.                                                   *)
LEMMA NewlyWritten ==
  ASSUME StateTyped, NEW r \in Runs, ~Exists(r), NEW m \in Manifests,
         manifest' = [manifest EXCEPT ![r] = m]
  PROVE  /\ manifest' \in [Runs -> Manifests \union {NoManifest}]
         /\ Exists(r)' /\ \A s \in Runs : s # r => (Exists(s)' <=> Exists(s))
         /\ Created' = Created \union {r} /\ Grows
         /\ manifest'[r] = m /\ \A s \in Runs : s # r => manifest'[s] = manifest[s]
  <1>1. /\ manifest' \in [Runs -> Manifests \union {NoManifest}]
        /\ manifest'[r] = m /\ \A s \in Runs : s # r => manifest'[s] = manifest[s]
    BY DEF StateTyped
  <1>2. m # NoManifest
    BY MarksAssumption
  <1>3. Exists(r)' /\ \A s \in Runs : s # r => (Exists(s)' <=> Exists(s))
    BY <1>1, <1>2 DEF Exists
  <1> QED
    BY <1>1, <1>3 DEF Created, Grows

LEMMA CreateBase == ASSUME BaseInv, NEW p \in Processes, Create(p) PROVE BaseInv'
  <1> USE DEF Recording, Looping, Leaving, Owning, RunKinds, DecisionKinds
  <1>0. /\ me[p] \in Invocation /\ KindAt(me[p])
        /\ Holds(me[p]) => lock = p /\ BranchAt(me[p])
    BY At_p
  <1>1. PICK r \in Runs, m \in Manifests :
        /\ Moved(p) /\ SameCommand(p) /\ me[p].pc = "create"
        /\ me'[p].pc = (IF me[p].kind = "plain" THEN "plain" ELSE "record")
        /\ me'[p].run = r /\ me'[p].held = m /\ me'[p].next = m /\ me'[p].from = me[p].from
        /\ me'[p].launched = me[p].launched
        /\ ~Exists(r) /\ Created = 1..(r - 1)
        /\ manifest' = [manifest EXCEPT ![r] = m]
        /\ history' \in Histories
        /\ history'.parent = [history.parent EXCEPT ![r] =
                                IF me[p].kind = "resume" THEN me[p].target ELSE NoRun]
        /\ history'.last = history.last
    BY CreateShape DEF BaseInv
  <1>2. UNCHANGED <<git, main, workers, lock, plan>>
    BY DEF Create
  <1>4. /\ manifest' \in [Runs -> Manifests \union {NoManifest}]
        /\ Exists(r)' /\ Grows /\ \A s \in Runs : s # r => (Exists(s)' <=> Exists(s))
        /\ Created' = Created \union {r}
    <2>1. r \in Runs /\ ~Exists(r) /\ m \in Manifests /\ manifest' = [manifest EXCEPT ![r] = m]
      BY <1>1
    <2> QED
      BY <2>1, NewlyWritten DEF BaseInv, TypeInv
  <1>5. r \in Runs /\ Created = 1..(r - 1) /\ history'.last = history.last
    BY <1>1
  <1>6. r \in 1..MaxRuns /\ Created' = 1..r
    BY <1>4, <1>5, ConstantFacts DEF Runs
  <1>7. StateTyped'
    BY <1>1, <1>2, <1>4 DEF BaseInv, TypeInv, StateTyped, git, workers
  <1>8. RunsInv'
    <2>1. (history.last # NoRun => Exists(history.last))'
      BY <1>4, <1>5 DEF BaseInv, RunsInv, TypeInv, StateTyped, Histories, Grows
    <2>2. history.parent \in [Runs -> Runs \union {NoRun}]
      BY DEF BaseInv, TypeInv, StateTyped, Histories
    <2>3. ASSUME NEW s \in Runs, history'.parent[s] # NoRun
          PROVE  Exists(s)' /\ history'.parent[s] < s
      <3>1. CASE s # r
        <4>1. history'.parent[s] = history.parent[s]
          BY <1>1, <2>2, <3>1
        <4> QED
          BY <1>4, <2>3, <3>1, <4>1 DEF BaseInv, RunsInv
      <3>2. CASE s = r
        <4>1. history'.parent[s] = me[p].target /\ me[p].kind = "resume"
          BY <1>1, <2>2, <2>3, <3>2
        <4>2. me[p].target \in Created
          BY <1>0, <2>3, <4>1 DEF KindAt, Created, Invocation
        <4>3. me[p].target \in 1..(r - 1) /\ r \in Nat
          BY <1>5, <4>2, ConstantFacts
        <4>4. me[p].target < r
          BY <4>3
        <4> QED
          BY <1>4, <3>2, <4>1, <4>4
      <3> QED
        BY <3>1, <3>2
    <2>4. \E n \in 0..MaxRuns : Created' = 1..n
      BY <1>6, ConstantFacts
    <2> QED
      BY <2>1, <2>3, <2>4 DEF RunsInv
  <1>9. KindAt(me[p])'
    <2>1. m # NoManifest /\ r # NoRun
      BY <1>1, MarksAssumption, ConstantFacts
    <2>2. me[p].target # NoRun /\ Exists(me[p].target) => Exists(me[p].target)'
      BY <1>0, <1>1, <1>4 DEF Grows, Invocation, SameCommand
    <2>3. me'[p].kind \in {"fresh", "resume", "review", "plain"} /\ SameCommand(p)
      BY <1>0, <1>1 DEF KindAt, SameCommand
    <2> QED
      BY <1>0, <1>1, <1>4, <2>1, <2>2, <2>3 DEF KindAt, SameCommand
  <1>10. Undisturbed(p)
    BY <1>1, <1>2 DEF Undisturbed, git, BaseInv, TypeInv, StateTyped
  <1>11. Holds(me[p])' => lock' = p /\ BranchAt(me[p])'
    <2> SUFFICES ASSUME Holds(me[p])' PROVE lock' = p /\ BranchAt(me[p])'
      OBVIOUS
    <2>1. Holds(me[p]) /\ lock = p /\ BranchAt(me[p]) /\ me[p].kind # "plain"
      BY <1>0, <1>1 DEF Holds, SameCommand
    <2> QED
      BY <1>0, <1>1, <1>2, <2>1 DEF BranchAt, SameCommand, git, KindAt
  <1> QED
    BY <1>1, <1>2, <1>4, <1>7, <1>8, <1>9, <1>10, <1>11, BaseKeep

LEMMA RecordBase == ASSUME BaseInv, NEW p \in Processes, Record(p) PROVE BaseInv'
  <1> USE DEF Recording, Looping, Leaving, Owning, RunKinds, DecisionKinds
  <1>0. /\ me[p] \in Invocation /\ KindAt(me[p])
        /\ Holds(me[p]) => lock = p /\ BranchAt(me[p])
    BY At_p
  <1> DEFINE m == WithIntegration(me[p].held, me[p].from, main.head)
  <1>1. /\ Moved(p) /\ SameCommand(p) /\ me[p].pc = "record"
        /\ me'[p].pc = "setup" /\ me'[p].run = me[p].run
        /\ me'[p].held = m /\ me'[p].next = m /\ me'[p].from = me[p].from
        /\ me'[p].launched = me[p].launched
        /\ me[p].run \in Runs /\ Exists(me[p].run) /\ m \in Manifests
        /\ me[p].held \in Manifests /\ me[p].from \in Integrations \union {NoIntegration}
        /\ main.head \in 0..MaxHead
        /\ manifest' = [manifest EXCEPT ![me[p].run] = m]
    BY RecordShape DEF BaseInv
  <1>2. UNCHANGED <<git, main, workers, lock, plan, history>>
    BY DEF Record
  <1>3. /\ me[p].from # NoIntegration => m.integration = me[p].from
        /\ me[p].from = NoIntegration => m.integration = [base |-> main.head, tip |-> At(main.head)]
        /\ m.integration # NoIntegration
    BY <1>1, WithIntegrationTyped
  <1> HIDE DEF m
  <1>4. /\ manifest' \in [Runs -> Manifests \union {NoManifest}]
        /\ \A s \in Runs : Exists(s)' <=> Exists(s)
        /\ Created' = Created /\ Grows
    BY <1>1, Rewritten DEF BaseInv, TypeInv
  <1>5. StateTyped'
    BY <1>2, <1>4 DEF BaseInv, TypeInv, StateTyped, git, workers
  <1>6. RunsInv'
    BY <1>2, <1>4, RunsKeep DEF BaseInv, TypeInv, StateTyped, Histories
  <1>7. KindAt(me[p])'
    BY <1>0, <1>1, <1>4, MarksAssumption DEF KindAt, SameCommand, Invocation
  <1>8. Holds(me[p]) /\ lock = p /\ BranchAt(me[p])
    BY <1>0, <1>1 DEF Holds, KindAt
  <1>9. m.integration.base <= IF me[p].from # NoIntegration THEN me[p].from.tip.base ELSE main.head
    BY <1>1, <1>3, ConstantFacts DEF Integrations
  <1>10. BranchAt(me[p])'
    BY <1>0, <1>1, <1>2, <1>3, <1>8, <1>9 DEF BranchAt, SameCommand, git
  <1> QED
    BY <1>1, <1>2, <1>4, <1>5, <1>6, <1>7, <1>8, <1>10, BaseKeep

(* A run that ends failed.                                                 *)
LEMMA EndFailedBase ==
  ASSUME BaseInv, NEW p \in Processes, me[p].pc \in Owning, EndFailed(p),
         UNCHANGED <<branch, refs, main, plan, history>>,
         worktrees' = worktrees, alive' \subseteq Tasks, strays' \subseteq Tasks,
         sentinels' \subseteq Tasks
  PROVE  BaseInv'
  <1>1. /\ me[p].run \in Runs /\ Exists(me[p].run)
        /\ WithStatus(me[p].held, "failed") \in Manifests
        /\ manifest' = [manifest EXCEPT ![me[p].run] = WithStatus(me[p].held, "failed")]
    BY EndFailedShape DEF BaseInv
  <1>2. /\ manifest' \in [Runs -> Manifests \union {NoManifest}]
        /\ \A s \in Runs : Exists(s)' <=> Exists(s)
        /\ Created' = Created /\ Grows
    BY <1>1, Rewritten DEF BaseInv, TypeInv
  <1>3. StateTyped'
    BY <1>2 DEF BaseInv, TypeInv, StateTyped
  <1>4. RunsInv'
    BY <1>2, RunsKeep DEF BaseInv, TypeInv, StateTyped, Histories
  <1> QED
    BY <1>2, <1>3, <1>4, LeaveBase DEF EndFailed

LEMMA SetupBase == ASSUME BaseInv, NEW p \in Processes, Setup(p) PROVE BaseInv'
  <1> USE DEF Recording, Looping, Leaving, Owning, RunKinds, DecisionKinds
  <1>0. /\ me[p] \in Invocation /\ KindAt(me[p]) /\ me[p].pc = "setup"
        /\ Holds(me[p]) /\ lock = p /\ BranchAt(me[p])
    BY At_p DEF Setup, Holds, KindAt
  <1>1. UNCHANGED <<refs, main, workers, plan>>
    BY DEF Setup
  <1>2. CASE EndFailed(p) /\ UNCHANGED <<branch, worktrees, history>>
    BY <1>0, <1>1, <1>2, EndFailedBase DEF workers, BaseInv, TypeInv, StateTyped
  <1>3. CASE ~(EndFailed(p) /\ UNCHANGED <<branch, worktrees, history>>)
    <2>1. /\ Moved(p) /\ SameCommand(p) /\ lock' = lock /\ manifest' = manifest
          /\ branch' = StartOf(me[p]) /\ branch' \in Commits
          /\ worktrees' \subseteq Tasks \union {Integration}
          /\ me[p].held \in Manifests
          /\ me'[p].pc = "loop"
          /\ me'[p].held = me[p].held /\ me'[p].next = me[p].next /\ me'[p].run = me[p].run
          /\ me'[p].launched = {} /\ me'[p].from = me[p].from
          /\ history' \in Histories /\ history'.last = me[p].run
          /\ history'.parent = history.parent
      BY <1>3, SetupShape
    <2>2. StateTyped'
      BY <1>1, <2>1 DEF BaseInv, TypeInv, StateTyped, workers
    <2>3. Created' = Created /\ Grows /\ \A s \in Runs : Exists(s)' <=> Exists(s)
      BY <2>1 DEF Created, Grows, Exists
    <2>4. RunsInv'
      BY <1>0, <2>1, <2>3, RunsKeep DEF BaseInv, TypeInv, StateTyped, Histories, KindAt, Invocation
    <2>5. KindAt(me[p])'
      BY <1>0, <2>1, <2>3 DEF KindAt, SameCommand, Invocation
    <2>6. me[p].next.integration # NoIntegration /\ me[p].next.integration.base <= branch'.base
      BY <1>0, <2>1 DEF BranchAt, StartOf, At
    <2>7. me[p].held.integration # NoIntegration /\ me[p].held.integration.base <= branch'.base
      BY <1>0, <2>1 DEF BranchAt, StartOf, At
    <2>8. branch' # NoBranch
      BY <2>1, MarksAssumption
    <2>9. BranchAt(me[p])'
      BY <1>0, <2>1, <2>6, <2>7, <2>8 DEF BranchAt, SameCommand
    <2> QED
      BY <1>0, <2>1, <2>2, <2>3, <2>4, <2>5, <2>9, BaseKeep
  <1> QED
    BY <1>2, <1>3

(***************************************************************************)
(* The loop of a run.                                                      *)
(***************************************************************************)
LEMMA SameRecords ==
  ASSUME BaseInv, manifest' = manifest, history'.parent = history.parent,
         history'.last = history.last
  PROVE  RunsInv' /\ Grows /\ \A s \in Runs : Exists(s)' <=> Exists(s)
  BY DEF BaseInv, RunsInv, Grows, Created, Exists

LEMMA OneRecord ==
  ASSUME BaseInv, NEW r \in Runs, Exists(r), NEW m \in Manifests,
         manifest' = [manifest EXCEPT ![r] = m],
         history'.parent = history.parent, history'.last = history.last
  PROVE  /\ RunsInv' /\ Grows /\ \A s \in Runs : Exists(s)' <=> Exists(s)
         /\ manifest' \in [Runs -> Manifests \union {NoManifest}]
  <1>1. /\ manifest' \in [Runs -> Manifests \union {NoManifest}]
        /\ \A s \in Runs : Exists(s)' <=> Exists(s)
        /\ Created' = Created /\ Grows
    BY Rewritten DEF BaseInv, TypeInv
  <1> QED
    BY <1>1, RunsKeep DEF BaseInv, TypeInv, StateTyped, Histories

(* A run that goes on in its loop.                                         *)
LEMMA LoopKeep ==
  ASSUME BaseInv, NEW p \in Processes, me[p].pc \in Looping,
         Moved(p), SameCommand(p), lock' = lock,
         me'[p].pc \in Looping, me'[p].run = me[p].run,
         me'[p].pc = "spawn" => me'[p].todo \subseteq Tasks,
         branch' \in Commits, branch'.base = branch.base, history'.last = history.last,
         me'[p].held \in Manifests, me'[p].next \in Manifests,
         me'[p].held.integration # NoIntegration,
         me'[p].next.integration # NoIntegration,
         me'[p].held.integration.base <= branch.base,
         me'[p].next.integration.base <= branch.base,
         StateTyped', RunsInv', Grows
  PROVE  BaseInv'
  <1> USE DEF Recording, Looping, Leaving, Owning, RunKinds, DecisionKinds
  <1>1. /\ Holds(me[p]) /\ me[p].kind \in RunKinds /\ lock = p
        /\ history.last = me[p].run /\ me[p].run \in Runs
        /\ me[p] \in Invocation /\ KindAt(me[p])
    BY LoopFacts, At_p
  <1>2. Exists(me[p].run)'
    BY <1>1 DEF KindAt, Grows
  <1>3. me[p].target # NoRun /\ Exists(me[p].target) => Exists(me[p].target)'
    BY <1>1 DEF Grows, SameCommand, Invocation
  <1>4. KindAt(me[p])'
    BY <1>1, <1>2, <1>3, MarksAssumption DEF KindAt, SameCommand
  <1>5. branch' # NoBranch
    BY MarksAssumption
  <1>6. BranchAt(me[p])'
    BY <1>1, <1>5 DEF BranchAt, SameCommand
  <1> QED
    BY <1>1, <1>4, <1>6, BaseKeep

LEMMA ReserveBase == ASSUME BaseInv, NEW p \in Processes, NEW t \in Tasks, Reserve(p, t) PROVE BaseInv'
  <1>1. PICK n \in Manifests :
        /\ Moved(p) /\ SameCommand(p) /\ me[p].pc = "loop" /\ n = Reserved(me[p].held)
        /\ manifest' = [manifest EXCEPT ![me[p].run] = n]
        /\ me'[p].pc = "spawn" /\ me'[p].todo = {t} /\ me'[p].held = n /\ me'[p].next = n
        /\ me'[p].run = me[p].run
    BY ReserveShape
  <1>2. /\ me[p].pc \in Looping /\ branch \in Commits
        /\ me[p].run \in Runs /\ Exists(me[p].run)
        /\ me[p].held \in Manifests
        /\ me[p].held.integration \in Integrations
        /\ me[p].held.integration.base <= branch.base
    BY <1>1, LoopFacts DEF Looping
  <1>3. n.integration = me[p].held.integration /\ n.integration # NoIntegration
    BY <1>1, <1>2, ReservedTyped, MarksAssumption
  <1>4. UNCHANGED <<branch, main, workers, lock, plan, history>>
    BY DEF Reserve
  <1>5. refs' \subseteq Tasks /\ worktrees' \subseteq Tasks \union {Integration}
    BY DEF Reserve, BaseInv, TypeInv, StateTyped
  <1>6. /\ RunsInv' /\ Grows
        /\ manifest' \in [Runs -> Manifests \union {NoManifest}]
    BY <1>1, <1>2, <1>4, OneRecord
  <1>7. StateTyped'
    BY <1>4, <1>5, <1>6 DEF BaseInv, TypeInv, StateTyped, workers
  <1>8. me'[p].pc \in Looping /\ me'[p].todo \subseteq Tasks
    BY <1>1 DEF Looping
  <1> QED
    BY <1>1, <1>2, <1>3, <1>4, <1>6, <1>7, <1>8, LoopKeep

LEMMA SpawnBase == ASSUME BaseInv, NEW p \in Processes, Spawn(p) PROVE BaseInv'
  <1>1. /\ Moved(p) /\ SameCommand(p) /\ me[p].pc = "spawn" /\ me[p].todo \subseteq Tasks
        /\ me'[p].pc = "loop"
        /\ me'[p].held = me[p].held /\ me'[p].next = me[p].next
        /\ me'[p].run = me[p].run
        /\ history' \in Histories /\ history'.last = history.last
        /\ history'.parent = history.parent
    BY SpawnShape
  <1>2. /\ me[p].pc \in Looping /\ me'[p].pc \in Looping /\ branch \in Commits
        /\ me[p].held \in Manifests /\ me[p].next \in Manifests
        /\ me[p].held.integration \in Integrations /\ me[p].next.integration \in Integrations
        /\ me[p].held.integration.base <= branch.base
        /\ me[p].next.integration.base <= branch.base
    BY <1>1, LoopFacts DEF Looping
  <1>3. UNCHANGED <<manifest, branch, refs, worktrees, main, lock, plan>>
        /\ alive' = alive \union me[p].todo /\ UNCHANGED <<strays, sentinels>>
    BY DEF Spawn, git
  <1>4. StateTyped'
    BY <1>1, <1>3 DEF BaseInv, TypeInv, StateTyped
  <1>5. RunsInv' /\ Grows
    BY <1>1, <1>3, SameRecords
  <1> QED
    BY <1>1, <1>2, <1>3, <1>4, <1>5, MarksAssumption, LoopKeep

LEMMA IntegrateBase ==
  ASSUME BaseInv, NEW p \in Processes, NEW t \in Tasks,
         NEW outcome \in {"merged", "unchanged", "failed"}, Integrate(p, t, outcome)
  PROVE  BaseInv'
  <1> DEFINE o == Checkpointed(me[p].held, DoneBy(t, outcome))
  <1>0. /\ o \in Manifests
        /\ Moved(p) /\ SameCommand(p) /\ me[p].pc \in {"loop", "integrate"}
        /\ branch' \in Commits /\ branch'.base = branch.base
        /\ o.integration # NoIntegration
        /\ o.integration.base = me[p].held.integration.base
        /\ me'[p].pc = "checkpoint" /\ me'[p].next = o /\ me'[p].held = me[p].held
        /\ me'[p].run = me[p].run
        /\ history' \in Histories /\ history'.last = history.last
        /\ history'.parent = history.parent
    BY IntegrateShape
  <1> HIDE DEF o
  <1>1. PICK n \in Manifests :
        /\ Moved(p) /\ SameCommand(p) /\ me[p].pc \in {"loop", "integrate"}
        /\ branch' \in Commits /\ branch'.base = branch.base
        /\ n.integration # NoIntegration
        /\ n.integration.base = me[p].held.integration.base
        /\ me'[p].pc = "checkpoint" /\ me'[p].next = n /\ me'[p].held = me[p].held
        /\ me'[p].run = me[p].run
        /\ history' \in Histories /\ history'.last = history.last
        /\ history'.parent = history.parent
    BY <1>0
  <1>2. /\ me[p].pc \in Looping /\ me'[p].pc \in Looping
        /\ me[p].held \in Manifests
        /\ me[p].held.integration \in Integrations
        /\ me[p].held.integration.base <= branch.base
    BY <1>1, LoopFacts DEF Looping
  <1>3. UNCHANGED <<manifest, refs, worktrees, main, workers, lock, plan>>
    BY DEF Integrate
  <1>4. StateTyped'
    BY <1>1, <1>3 DEF BaseInv, TypeInv, StateTyped, workers
  <1>5. RunsInv' /\ Grows
    BY <1>1, <1>3, SameRecords
  <1> QED
    BY <1>1, <1>2, <1>3, <1>4, <1>5, MarksAssumption, LoopKeep

LEMMA CheckpointBase == ASSUME BaseInv, NEW p \in Processes, Checkpoint(p) PROVE BaseInv'
  <1>1. /\ Moved(p) /\ SameCommand(p) /\ me[p].pc = "checkpoint"
        /\ me'[p].pc \in {"loop", "integrate"}
        /\ me'[p].held = me[p].next /\ me'[p].next = me[p].next
        /\ me'[p].run = me[p].run
        /\ manifest' = [manifest EXCEPT ![me[p].run] = me[p].next]
    BY CheckpointShape
  <1>2. /\ me[p].pc \in Looping /\ me'[p].pc \in Looping /\ branch \in Commits
        /\ me[p].run \in Runs /\ Exists(me[p].run)
        /\ me[p].next \in Manifests
        /\ me[p].next.integration \in Integrations
        /\ me[p].next.integration.base <= branch.base
    BY <1>1, LoopFacts DEF Looping
  <1>3. UNCHANGED <<branch, refs, worktrees, main, workers, lock, plan, history>>
    BY DEF Checkpoint, git
  <1>4. /\ RunsInv' /\ Grows
        /\ manifest' \in [Runs -> Manifests \union {NoManifest}]
    BY <1>1, <1>2, <1>3, OneRecord
  <1>5. StateTyped'
    BY <1>3, <1>4 DEF BaseInv, TypeInv, StateTyped, workers
  <1> QED
    BY <1>1, <1>2, <1>3, <1>4, <1>5, MarksAssumption, LoopKeep

LEMMA FinishBase ==
  ASSUME BaseInv, NEW p \in Processes, NEW aborted \in BOOLEAN, Finish(p, aborted)
  PROVE  BaseInv'
  <1> USE DEF Recording, Looping, Leaving, Owning, RunKinds, DecisionKinds
  <1>1. PICK n \in Manifests :
        /\ Moved(p) /\ SameCommand(p) /\ me[p].pc \in {"loop", "spawn"}
        /\ me'[p].pc = (IF branch.work = <<>> /\ ~me[p].held.keep THEN "clean" ELSE "close")
        /\ me'[p].next = n /\ me'[p].held = me[p].held /\ me'[p].launched = {}
        /\ me'[p].run = me[p].run
    BY FinishShape
  <1>2. /\ me[p].pc \in Looping /\ Holds(me[p]) /\ me[p].kind \in RunKinds /\ lock = p
        /\ branch \in Commits /\ me[p] \in Invocation /\ KindAt(me[p])
    BY <1>1, LoopFacts, At_p
  <1>3. UNCHANGED <<manifest, git, main, workers, lock, plan, history>> /\ Unmoved
    BY DEF Finish, Unmoved, git, workers
  <1>4. KindAt(me[p])'
    BY <1>1, <1>2, <1>3, MarksAssumption DEF KindAt, SameCommand, Unmoved, Exists
  <1>5. BranchAt(me[p])'
    BY <1>1, <1>2, <1>3, MarksAssumption DEF BranchAt, SameCommand, Unmoved
  <1> QED
    BY <1>1, <1>2, <1>3, <1>4, <1>5, UnmovedState, BaseKeep

LEMMA CloseBase == ASSUME BaseInv, NEW p \in Processes, Close(p) PROVE BaseInv'
  <1> USE DEF Recording, Looping, Leaving, Owning, RunKinds, DecisionKinds
  <1>1. /\ me[p] \in Invocation /\ KindAt(me[p]) /\ me[p].pc \in {"close", "plain"}
        /\ UNCHANGED <<git, main, workers, plan, history>> /\ Leave(p)
    BY At_p DEF Close
  <1>2. me[p].run \in Runs /\ Exists(me[p].run) /\ me[p].next \in Manifests /\ me[p].held \in Manifests
    BY <1>1 DEF KindAt, Invocation
  <1>3. PICK m \in Manifests : manifest' = [manifest EXCEPT ![me[p].run] = m]
    <2>1. CASE manifest' = [manifest EXCEPT ![me[p].run] = me[p].next]
      BY <1>2, <2>1
    <2>2. ASSUME NEW s \in {"completed", "failed", "cancelled"},
                 manifest' = [manifest EXCEPT ![me[p].run] = WithStatus(me[p].held, s)]
          PROVE  \E m \in Manifests : manifest' = [manifest EXCEPT ![me[p].run] = m]
      BY <1>2, <2>2, WithStatusTyped DEF TerminalStatus
    <2> QED
      BY <2>1, <2>2 DEF Close, Mine
  <1>4. /\ RunsInv' /\ Grows
        /\ manifest' \in [Runs -> Manifests \union {NoManifest}]
    BY <1>1, <1>2, <1>3, OneRecord
  <1>5. StateTyped'
    BY <1>1, <1>4 DEF BaseInv, TypeInv, StateTyped, workers, git
  <1> QED
    BY <1>1, <1>4, <1>5, LeaveBase DEF git

LEMMA ThrowBase == ASSUME BaseInv, NEW p \in Processes, Throw(p) PROVE BaseInv'
  <1>1. /\ me[p].pc \in Owning /\ EndFailed(p)
        /\ UNCHANGED <<branch, refs, worktrees, main, plan, history>>
    BY DEF Throw, git, Owning, Looping
  <1>2. alive' \subseteq Tasks /\ strays' \subseteq Tasks /\ sentinels' \subseteq Tasks
    BY DEF Throw, Unrecorded, BaseInv, TypeInv, StateTyped
  <1> QED
    BY <1>1, <1>2, EndFailedBase

LEMMA WriteFailsBase == ASSUME BaseInv, NEW p \in Processes, WriteFails(p) PROVE BaseInv'
  <1>1. /\ me[p].run \in Runs /\ Exists(me[p].run) /\ me[p].next \in Manifests
        /\ me[p].held \in Manifests /\ manifest[me[p].run] \in Manifests
        /\ UNCHANGED <<git, main, workers, plan, history>> /\ Leave(p)
    BY LoopFacts DEF WriteFails, Looping, BaseInv, TypeInv, StateTyped, Exists
  <1>2. PICK m \in Manifests : manifest' = [manifest EXCEPT ![me[p].run] = m]
    BY <1>1, UnrecoverableTyped DEF WriteFails, Mine
  <1>3. /\ RunsInv' /\ Grows
        /\ manifest' \in [Runs -> Manifests \union {NoManifest}]
    BY <1>1, <1>2, OneRecord
  <1>4. StateTyped'
    BY <1>1, <1>3 DEF BaseInv, TypeInv, StateTyped, workers, git
  <1> QED
    BY <1>1, <1>3, <1>4, LeaveBase DEF git

(***************************************************************************)
(* The decisions, the end of a process, and what happens around them.      *)
(***************************************************************************)
LEMMA ClearBase ==
  ASSUME BaseInv, NEW p \in Processes, Apply(p) \/ Abort(p) PROVE BaseInv'
  <1> USE DEF Recording, Looping, Leaving, Owning, RunKinds, DecisionKinds
  <1>0. /\ me[p] \in Invocation /\ KindAt(me[p])
        /\ Holds(me[p]) /\ lock = p
        /\ me[p].pc \in {"apply", "abort"} /\ me[p].kind \in DecisionKinds
    BY At_p DEF Holds, KindAt, Apply, Abort
  <1>1. /\ UNCHANGED <<manifest, git, plan, history>>
        /\ WorkersBlock \/ WorkersClear
    BY DEF Apply, Abort
  <1>2. main' = main \/ (main' = [main EXCEPT !.staged = branch.work] /\ AppliesCleanly(me[p].held))
    BY ApplyShape DEF Abort
  <1>3. main' \in [head: 0..MaxHead, committed: Works, staged: Works, dirty: BOOLEAN]
        /\ main'.head = main.head
    <2>1. CASE main' = main
      BY <2>1 DEF BaseInv, TypeInv, StateTyped
    <2>2. CASE main' = [main EXCEPT !.staged = branch.work] /\ AppliesCleanly(me[p].held)
      <3>1. branch = me[p].held.integration.tip /\ me[p].held.integration \in Integrations
        BY <1>0, <2>2 DEF KindAt, AppliesCleanly, Manifests, Invocation
      <3>2. branch.work \in Works
        BY <3>1 DEF Integrations, Commits
      <3> QED
        BY <2>2, <3>2 DEF BaseInv, TypeInv, StateTyped
    <2> QED
      BY <1>2, <2>1, <2>2
  <1>4. StateTyped' /\ RunsInv' /\ Grows
    BY <1>1, <1>3, SameRecords DEF BaseInv, TypeInv, StateTyped, git, WorkersBlock, WorkersClear, Blocking
  <1>5. CASE Leave(p)
    BY <1>0, <1>4, <1>5, LeaveBase
  <1>6. ASSUME Moved(p), SameCommand(p), lock' = lock, branch = me[p].held.integration.tip,
               me'[p].pc \in {"decide", "clean"}, NEW status \in {"applied", "aborted"},
               me'[p].next \in Manifests, me'[p].held = me[p].held, me'[p].run = me[p].run,
               me'[p].launched = me[p].launched
        PROVE  BaseInv'
    <2>1. KindAt(me[p])'
      BY <1>0, <1>1, <1>6, MarksAssumption DEF KindAt, SameCommand, Exists
    <2>2. BranchAt(me[p])'
      BY <1>0, <1>1, <1>6 DEF BranchAt, SameCommand, git
    <2> QED
      BY <1>0, <1>4, <1>6, <2>1, <2>2, BaseKeep
  <1>7. CASE Apply(p) /\ ~Leave(p)
    BY <1>6, <1>7, ApplyShape DEF AppliesCleanly
  <1>8. CASE Abort(p) /\ ~Leave(p)
    BY <1>6, <1>8, AbortShape DEF TipIsRecorded
  <1> QED
    BY <1>5, <1>7, <1>8

LEMMA DecideBase == ASSUME BaseInv, NEW p \in Processes, Decide(p) PROVE BaseInv'
  <1> USE DEF Recording, Looping, Leaving, Owning, RunKinds, DecisionKinds
  <1>0. /\ me[p] \in Invocation /\ KindAt(me[p]) /\ me[p].pc = "decide"
        /\ Holds(me[p]) /\ lock = p /\ BranchAt(me[p]) /\ me[p].kind \in DecisionKinds
        /\ me[p].run \in Runs /\ Exists(me[p].run) /\ me[p].next \in Manifests
    BY At_p DEF Holds, KindAt, Decide, Invocation
  <1>1. /\ UNCHANGED <<git, main, workers, plan, history>>
        /\ manifest' = [manifest EXCEPT ![me[p].run] = me[p].next]
        /\ Leave(p) \/ (Goto(p, "clean") /\ lock' = lock)
    BY DEF Decide
  <1>2. /\ RunsInv' /\ Grows /\ \A s \in Runs : Exists(s)' <=> Exists(s)
        /\ manifest' \in [Runs -> Manifests \union {NoManifest}]
    BY <1>0, <1>1, OneRecord
  <1>3. StateTyped'
    BY <1>1, <1>2 DEF BaseInv, TypeInv, StateTyped, workers, git
  <1>4. CASE Leave(p)
    BY <1>0, <1>2, <1>3, <1>4, LeaveBase
  <1>5. CASE Goto(p, "clean") /\ lock' = lock
    <2>1. /\ Moved(p) /\ SameCommand(p) /\ me'[p].pc = "clean"
          /\ me'[p].run = me[p].run /\ me'[p].held = me[p].held /\ me'[p].next = me[p].next
          /\ me'[p].launched = me[p].launched
      BY <1>5, GotoShape DEF BaseInv, Places
    <2>2. KindAt(me[p])'
      BY <1>0, <1>2, <2>1 DEF KindAt, SameCommand
    <2>3. BranchAt(me[p])'
      BY <1>0, <1>1, <2>1 DEF BranchAt, SameCommand, git
    <2> QED
      BY <1>0, <1>2, <1>3, <1>5, <2>1, <2>2, <2>3, BaseKeep
  <1> QED
    BY <1>1, <1>4, <1>5

LEMMA CleanBase == ASSUME BaseInv, NEW p \in Processes, Clean(p) PROVE BaseInv'
  <1> USE DEF Recording, Looping, Leaving, Owning, RunKinds, DecisionKinds
  <1>0. /\ me[p] \in Invocation /\ KindAt(me[p]) /\ me[p].pc = "clean"
        /\ Holds(me[p]) /\ lock = p /\ BranchAt(me[p])
    BY At_p DEF Holds, KindAt, Clean
  <1>1. /\ UNCHANGED <<manifest, branch, refs, main, workers, lock, plan, history>>
        /\ worktrees' \in {{}, worktrees} /\ Goto(p, "prune")
    BY DEF Clean
  <1>2. StateTyped' /\ RunsInv' /\ Grows
    BY <1>1, SameRecords DEF BaseInv, TypeInv, StateTyped, workers
  <1>3. /\ Moved(p) /\ SameCommand(p) /\ me'[p].pc = "prune"
        /\ me'[p].run = me[p].run /\ me'[p].held = me[p].held /\ me'[p].next = me[p].next
        /\ me'[p].launched = me[p].launched
    BY <1>1, GotoShape DEF BaseInv, Places
  <1>4. KindAt(me[p])'
    BY <1>0, <1>1, <1>3 DEF KindAt, SameCommand, Exists
  <1>5. BranchAt(me[p])'
    BY <1>0, <1>1, <1>3 DEF BranchAt, SameCommand
  <1> QED
    BY <1>0, <1>1, <1>2, <1>3, <1>4, <1>5, BaseKeep

LEMMA PruneBase == ASSUME BaseInv, NEW p \in Processes, Prune(p) PROVE BaseInv'
  <1> USE DEF Recording, Looping, Leaving, Owning, RunKinds, DecisionKinds
  <1>0. /\ me[p] \in Invocation /\ KindAt(me[p]) /\ me[p].pc = "prune"
        /\ Holds(me[p]) /\ lock = p /\ BranchAt(me[p])
    BY At_p DEF Holds, KindAt, Prune
  <1>1. /\ UNCHANGED <<manifest, worktrees, main, workers, plan, history>>
        /\ branch' \in {branch, NoBranch} /\ refs' \subseteq refs
    BY DEF Prune
  <1>2. StateTyped' /\ RunsInv' /\ Grows
    BY <1>1, SameRecords DEF BaseInv, TypeInv, StateTyped, workers
  <1>3. \/ me[p].kind = "apply" /\ Leave(p)
        \/ me[p].kind = "abort" /\ Goto(p, "decide") /\ lock' = lock
        \/ me[p].kind \notin DecisionKinds /\ Goto(p, "close") /\ lock' = lock
    BY DEF Prune
  <1>4. CASE Leave(p)
    BY <1>0, <1>2, <1>4, LeaveBase
  <1>5. ASSUME NEW pc \in {"decide", "close"}, Goto(p, pc), lock' = lock,
               pc = "decide" => me[p].kind \in DecisionKinds,
               pc = "close" => me[p].kind \in RunKinds
        PROVE  BaseInv'
    <2>1. /\ Moved(p) /\ SameCommand(p) /\ me'[p].pc = pc
          /\ me'[p].run = me[p].run /\ me'[p].held = me[p].held /\ me'[p].next = me[p].next
          /\ me'[p].launched = me[p].launched
      BY <1>5, GotoShape DEF BaseInv, Places
    <2>2. KindAt(me[p])'
      BY <1>0, <1>1, <1>5, <2>1 DEF KindAt, SameCommand, Exists
    <2>3. BranchAt(me[p])'
      BY <1>0, <1>1, <1>5, <2>1 DEF BranchAt, SameCommand
    <2> QED
      BY <1>0, <1>2, <1>5, <2>1, <2>2, <2>3, BaseKeep
  <1> QED
    BY <1>0, <1>3, <1>4, <1>5 DEF KindAt

(* What is not a step of a command.                                        *)
LEMMA AroundBase ==
  ASSUME BaseInv, (\E t \in Tasks : WorkerMoves(t)) \/ Commit \/ Edit \/ Discard \/ ApprovePlan
  PROVE  BaseInv'
  <1>1. /\ UNCHANGED <<manifest, git, lock, me, history>>
        /\ alive' \subseteq Tasks /\ strays' \subseteq Tasks /\ sentinels' \subseteq Tasks
    BY DEF WorkerMoves, WorkerEnds, WriteSentinel, Commit, Edit, Discard, ApprovePlan, workers, BaseInv, TypeInv, StateTyped
  <1>2. /\ main' \in [head: 0..MaxHead, committed: Works, staged: Works, dirty: BOOLEAN]
        /\ main'.head >= main.head
    <2>1. main \in [head: 0..MaxHead, committed: Works, staged: Works, dirty: BOOLEAN]
      BY DEF BaseInv, TypeInv, StateTyped
    <2>2. main.committed \o main.staged \in Works /\ <<>> \in Works
      BY <2>1 DEF Works
    <2>3. CASE Commit
      BY <2>1, <2>2, <2>3, ConstantFacts DEF Commit
    <2>4. CASE Edit \/ Discard
      <3>1. main.head \in 0..MaxHead /\ main'.head = main.head
        BY <2>1, <2>4 DEF Edit, Discard
      <3>2. main'.head >= main.head
        BY <3>1, ConstantFacts
      <3>3. main' \in [head: 0..MaxHead, committed: Works, staged: Works, dirty: BOOLEAN]
        BY <2>1, <2>2, <2>4 DEF Edit, Discard
      <3> QED
        BY <3>2, <3>3
    <2>5. CASE main' = main
      BY <2>1, <2>5, ConstantFacts
    <2> QED
      BY <2>3, <2>4, <2>5 DEF WorkerMoves, WorkerEnds, WriteSentinel, ApprovePlan
  <1>3. plan' \in Plans
    BY ConstantFacts DEF WorkerMoves, WorkerEnds, WriteSentinel, Commit, Edit, Discard, ApprovePlan, BaseInv, TypeInv, StateTyped
  <1>4. StateTyped' /\ RunsInv' /\ Grows
    BY <1>1, <1>2, <1>3, SameRecords DEF BaseInv, TypeInv, StateTyped, git
  <1>5. TypeInv'
    BY <1>1, <1>4 DEF BaseInv, TypeInv
  <1>6. KindInv'
    BY <1>1 DEF BaseInv, KindInv, KindAt, Exists
  <1>7. LockInv'
    <2> SUFFICES ASSUME NEW p \in Processes, Holds(me[p]) PROVE BranchAt(me[p])'
      BY <1>1, At_p DEF LockInv, Holds
    <2>1. BranchAt(me[p]) /\ me[p] \in Invocation /\ KindAt(me[p])
      BY At_p
    <2>2. /\ me[p].held.integration # NoIntegration
          /\ me[p].held.integration.base <= main.head
          /\ me[p].pc = "setup"
          => me[p].held.integration.base <= main'.head
      BY <1>2, <2>1 DEF Invocation, Manifests, Integrations, KindAt, Owning, Recording, BaseInv,
         TypeInv, StateTyped
    <2> QED
      BY <1>1, <2>1, <2>2 DEF BranchAt, git
  <1> QED
    BY <1>4, <1>5, <1>6, <1>7 DEF BaseInv

LEMMA CrashBase == ASSUME BaseInv, NEW p \in Processes, Crash(p) PROVE BaseInv'
  <1>1. Leave(p) /\ UNCHANGED <<manifest, branch, refs, worktrees, main, plan, history>>
    BY DEF Crash, git
  <1>2. alive' \subseteq Tasks /\ strays' \subseteq Tasks /\ sentinels' \subseteq Tasks
    BY DEF Crash, Unrecorded, BaseInv, TypeInv, StateTyped
  <1>3. StateTyped' /\ RunsInv' /\ Grows
    BY <1>1, <1>2, SameRecords DEF BaseInv, TypeInv, StateTyped
  <1> QED
    BY <1>1, <1>3, LeaveBase

LEMMA InitBase == Init => BaseInv
  <1> SUFFICES ASSUME Init PROVE BaseInv
    OBVIOUS
  <1>1. /\ me \in [Processes -> Invocation]
        /\ \A p \in Processes : me[p] = Idle /\ KindAt(me[p]) /\ ~Holds(me[p])
    BY IdleTyped DEF Init
  <1>2. <<>> \in Works
    BY DEF Works
  <1>3. TypeInv
    BY <1>1, <1>2, ConstantFacts DEF Init, TypeInv, StateTyped, Histories
  <1>4. RunsInv
    <2>1. Created = 1..0
      BY DEF Init, Created, Exists
    <2>2. 0 \in 0..MaxRuns
      BY ConstantFacts
    <2> QED
      BY <2>1, <2>2 DEF Init, RunsInv
  <1> QED
    BY <1>1, <1>3, <1>4 DEF BaseInv, KindInv, LockInv

LEMMA StutterBase == ASSUME BaseInv, UNCHANGED vars PROVE BaseInv'
  <1>1. UNCHANGED <<manifest, branch, refs, worktrees, main, alive, strays, sentinels, lock, plan, me,
                  history>>
    BY DEF vars, git, workers
  <1> QED
    BY <1>1 DEF BaseInv, TypeInv, StateTyped, RunsInv, KindInv, LockInv, KindAt, BranchAt,
       Created, Exists

(* One command of the session at a time holds its lock; the records it    *)
(* goes by are there, and the branch is where it takes it to be (run.ts,  *)
(* session-lock.ts, worktree.ts).                                         *)
THEOREM BaseInvariant == Spec => []BaseInv
  <1>1. BaseInv /\ [Next]_vars => BaseInv'
    <2> SUFFICES ASSUME BaseInv, [Next]_vars PROVE BaseInv'
      OBVIOUS
    <2>1. ASSUME NEW p \in Processes, Begin(p) \/ Start(p) \/ Loop(p) \/ Decision(p) \/ Crash(p)
          PROVE  BaseInv'
      <3>1. CASE Begin(p) \/ Crash(p)
        BY <3>1, BeginBase, CrashBase
      <3>2. CASE Start(p)
        BY <3>2, GuardBase, StaleBase, CreateBase, RecordBase, SetupBase DEF Start
      <3>3. CASE Loop(p)
        BY <3>3, ReserveBase, IntegrateBase, FinishBase, SpawnBase, CheckpointBase, CloseBase,
           ThrowBase, WriteFailsBase DEF Loop
      <3>4. CASE Decision(p)
        BY <3>4, ClearBase, DecideBase, CleanBase, PruneBase DEF Decision
      <3> QED
        BY <2>1, <3>1, <3>2, <3>3, <3>4
    <2>2. CASE UNCHANGED vars
      BY <2>2, StutterBase
    <2> QED
      BY <2>1, <2>2, AroundBase DEF Next
  <1> QED
    BY <1>1, InitBase, PTL DEF Spec

(***************************************************************************)
(* Work leaves the branch only by a decision.                              *)
(***************************************************************************)
LEMMA PrefixSelf ==
  ASSUME NEW S, NEW s \in Seq(S)
  PROVE  IsPrefix(s, s)
  BY DEF IsPrefix

LEMMA PrefixAppend ==
  ASSUME NEW S, NEW s \in Seq(S), NEW e \in S
  PROVE  IsPrefix(s, Append(s, e))
  <1>1. Len(s) \in Nat /\ Len(Append(s, e)) = Len(s) + 1
    OBVIOUS
  <1>2. \A i \in 1..Len(s) : Append(s, e)[i] = s[i]
    OBVIOUS
  <1>3. SubSeq(s, 1, Len(s)) = s
    OBVIOUS
  <1>4. SubSeq(Append(s, e), 1, Len(s)) = s
    BY <1>1, <1>2
  <1> QED
    BY <1>1, <1>3, <1>4 DEF IsPrefix

(* The branch changes where a run sets it up or merges, and where it is    *)
(* removed.                                                                *)
LEMMA BranchSteps ==
  ASSUME BaseInv, Next, branch' # branch
  PROVE  \E p \in Processes :
           \/ Setup(p)
           \/ \E t \in Tasks, o \in {"merged", "unchanged", "failed"} : Integrate(p, t, o)
           \/ Prune(p) /\ branch' = NoBranch
  <1>1. ASSUME NEW p \in Processes, Begin(p) \/ Crash(p) PROVE FALSE
    BY <1>1 DEF Begin, Crash, BeginLocked, BeginPlain, BeginDecision, TakeLock, git
  <1>2. ASSUME NEW p \in Processes, Start(p), ~Setup(p) PROVE FALSE
    BY <1>2 DEF Start, Fresh, Resume, Review, Mark, NoneStale, ReadStale, Create, Record, git
  <1>3. ASSUME NEW p \in Processes, Loop(p),
               ~\E t \in Tasks, o \in {"merged", "unchanged", "failed"} : Integrate(p, t, o)
        PROVE  FALSE
    BY <1>3 DEF Loop, Reserve, Finish, Spawn, Checkpoint, Close, Throw, WriteFails, git
  <1>4. ASSUME NEW p \in Processes, Decision(p), ~(Prune(p) /\ branch' = NoBranch) PROVE FALSE
    BY <1>4 DEF Decision, Apply, Abort, Decide, Clean, Prune, git
  <1>5. ~((\E t \in Tasks : WorkerMoves(t)) \/ Commit \/ Edit \/ Discard \/ ApprovePlan)
    BY DEF WorkerMoves, WorkerEnds, WriteSentinel, Commit, Edit, Discard, ApprovePlan, git
  <1> QED
    BY <1>1, <1>2, <1>3, <1>4, <1>5 DEF Next

(* Work leaves the integration branch only when an apply or an abort was   *)
(* asked for a run whose record is exactly that work.                      *)
THEOREM OnlyDecisionsRemoveWork == Spec => WorkLeavesDecided
  <1> DEFINE Kept == branch' # NoBranch /\ branch'.base = branch.base
                       /\ IsPrefix(branch.work, branch'.work)
             Decided == \E p \in Processes : /\ me[p].kind \in {"apply", "abort"}
                                             /\ me[p].held.integration.tip = branch
  <1>1. ASSUME BaseInv, Next, branch # NoBranch, branch.work # <<>> PROVE Kept \/ Decided
    <2>1. branch \in Commits /\ branch.work \in Seq(Merges)
      BY <1>1 DEF BaseInv, TypeInv, StateTyped, Commits, Works
    <2>2. CASE branch' = branch
      BY <1>1, <2>1, <2>2, PrefixSelf
    <2>3. ASSUME NEW p \in Processes, Setup(p), branch' # branch PROVE FALSE
      BY <1>1, <2>3, SetupShape DEF SetsUp
    <2>4. ASSUME NEW p \in Processes, NEW t \in Tasks,
                 NEW o \in {"merged", "unchanged", "failed"}, Integrate(p, t, o)
          PROVE  Kept
      <3>1. /\ branch' \in Commits /\ branch'.base = branch.base
            /\ branch'.work \in {branch.work, Append(branch.work, Merged(t, me[p].run))}
            /\ Merged(t, me[p].run) \in Merges
        BY <1>1, <2>4, IntegrateShape
      <3>2. IsPrefix(branch.work, branch.work)
        BY <2>1, PrefixSelf
      <3>3. IsPrefix(branch.work, Append(branch.work, Merged(t, me[p].run)))
        BY <2>1, <3>1, PrefixAppend
      <3>4. IsPrefix(branch.work, branch'.work)
        BY <3>1, <3>2, <3>3
      <3> QED
        BY <3>1, <3>4, MarksAssumption
    <2>5. ASSUME NEW p \in Processes, Prune(p) PROVE Decided
      <3>1. /\ me[p].pc = "prune" /\ KindAt(me[p])
            /\ Holds(me[p]) /\ BranchAt(me[p])
        BY <1>1, <2>5, At_p DEF Prune, Holds, KindAt, RunKinds, DecisionKinds, Leaving
      <3> QED
        BY <1>1, <3>1 DEF BranchAt, KindAt, RunKinds, DecisionKinds
    <2> QED
      BY <1>1, <2>2, <2>3, <2>4, <2>5, BranchSteps
  <1>2. BaseInv /\ [Next]_vars => [branch # NoBranch /\ branch.work # <<>> => Kept \/ Decided]_vars
    BY <1>1
  <1> QED
    BY <1>2, BaseInvariant, PTL DEF Spec, WorkLeavesDecided

(***************************************************************************)
(* The workers that something knows: every one of them has a worktree, and *)
(* the loop that has launched it or a sentinel.  A run in its loop has     *)
(* launched them all; one that merges, or a command that is past the       *)
(* guard, knows that there are none.                                       *)
(***************************************************************************)
AliveInv ==
  /\ alive \subseteq worktrees
  /\ \A t \in alive : t \in sentinels \/ \E p \in Processes : t \in me[p].launched

WorkersAt(m) ==
  /\ m.pc \notin {"guard", "apply", "abort", "loop", "spawn"} => alive = {}
  /\ m.pc \in Looping => alive \subseteq m.launched /\ m.launched \subseteq worktrees
  /\ m.pc = "spawn" => m.todo \subseteq worktrees

WorkersInv == AliveInv /\ \A p \in Processes : Holds(me[p]) => WorkersAt(me[p])

(* While a command has the lock, or takes it, no other command has it.     *)
LEMMA Alone ==
  ASSUME BaseInv, NEW p \in Processes, Moved(p), Holds(me[p]) \/ lock = Nobody,
         NEW q \in Processes, q # p
  PROVE  me'[q] = me[q] /\ ~Holds(me[q]) /\ ~Holds(me[q])'
  <1>1. me'[q] = me[q]
    BY DEF Moved, Others
  <1>2. ~Holds(me[q])
    BY At_p, MarksAssumption
  <1> QED
    BY <1>1, <1>2 DEF Holds

(* Outside of a loop nobody has launched a worker.                         *)
LEMMA Unlaunched ==
  ASSUME BaseInv, NEW p \in Processes, me[p].launched # {}
  PROVE  me[p].pc \in Looping /\ Holds(me[p])
  BY At_p DEF KindAt, Holds, Looping, Owning, RunKinds

(* When nobody is in a loop, every worker has its sentinel.                *)
LEMMA HaveSentinels ==
  ASSUME BaseInv, WorkersInv, NEW p \in Processes,
         lock = Nobody \/ (Holds(me[p]) /\ me[p].pc \notin Looping)
  PROVE  alive \subseteq sentinels
  <1> SUFFICES ASSUME NEW q \in Processes, me[q].launched # {} PROVE FALSE
    BY DEF WorkersInv, AliveInv
  <1>1. me[q].pc \in Looping /\ Holds(me[q])
    BY Unlaunched
  <1> QED
    BY <1>1, At_p, MarksAssumption

(* The workers after a step of p are known by a sentinel, or to p, or they *)
(* are the same and nothing is forgotten of them.                          *)
StillKnown(p) ==
  \/ alive' \subseteq sentinels' \union me'[p].launched
  \/ UNCHANGED <<alive, sentinels>> /\ me[p].launched \subseteq me'[p].launched

LEMMA WorkersKeep ==
  ASSUME BaseInv, WorkersInv, NEW p \in Processes, Moved(p),
         alive' \subseteq worktrees', StillKnown(p),
         Holds(me[p]) \/ lock = Nobody \/ UNCHANGED <<alive, worktrees>>,
         Holds(me[p])' => WorkersAt(me[p])'
  PROVE  WorkersInv'
  <1>1. ASSUME NEW q \in Processes, q # p, Holds(me[q])' PROVE WorkersAt(me[q])'
    <2>1. UNCHANGED <<alive, worktrees>>
      BY <1>1, Alone
    <2>2. me'[q] = me[q] /\ Holds(me[q])
      BY <1>1 DEF Moved, Others, Holds
    <2> QED
      BY <2>1, <2>2 DEF WorkersInv, WorkersAt
  <1>2. ASSUME NEW t \in alive', t \notin sentinels'
        PROVE  \E q \in Processes : t \in me'[q].launched
    <2>1. CASE t \in me'[p].launched
      BY <2>1
    <2>2. CASE UNCHANGED <<alive, sentinels>> /\ me[p].launched \subseteq me'[p].launched
      <3>1. PICK q \in Processes : t \in me[q].launched
        BY <1>2, <2>2 DEF WorkersInv, AliveInv
      <3> QED
        BY <2>2, <3>1 DEF Moved, Others
    <2> QED
      BY <1>2, <2>1, <2>2 DEF StillKnown
  <1> QED
    BY <1>1, <1>2 DEF WorkersInv, AliveInv

LEMMA LeaveWorkers ==
  ASSUME BaseInv, WorkersInv, NEW p \in Processes, Leave(p), alive' \subseteq worktrees',
         alive' \subseteq sentinels' \/ (UNCHANGED <<alive, sentinels>> /\ me[p].launched = {}),
         Holds(me[p]) \/ UNCHANGED <<alive, worktrees>>
  PROVE  WorkersInv'
  <1>1. Moved(p) /\ ~Holds(me[p])'
    BY LeaveShape, IdleTyped DEF BaseInv, Holds
  <1> QED
    BY <1>1, WorkersKeep DEF StillKnown

(* A step outside the loop, before and after, that changes no worker.      *)
LEMMA CarryOn ==
  ASSUME BaseInv, WorkersInv, NEW p \in Processes, Moved(p), SameCommand(p),
         me[p].pc \in {"stale", "mark", "create", "record"},
         me'[p].pc \in {"stale", "mark", "create", "plain", "record", "setup"},
         UNCHANGED workers, worktrees' = worktrees
  PROVE  WorkersInv'
  <1>1. Holds(me[p])' => Holds(me[p]) /\ alive = {}
    BY DEF Holds, SameCommand, WorkersInv, WorkersAt, Looping
  <1>2. alive' \subseteq worktrees' /\ StillKnown(p)
    BY Unlaunched DEF WorkersInv, AliveInv, workers, StillKnown, Looping
  <1>3. Holds(me[p])' => WorkersAt(me[p])'
    BY <1>1 DEF WorkersAt, workers, Looping
  <1>4. Holds(me[p]) \/ UNCHANGED <<alive, worktrees>>
    BY DEF workers
  <1> QED
    BY <1>2, <1>3, <1>4, WorkersKeep

LEMMA WorkersBegin == ASSUME BaseInv, WorkersInv, NEW p \in Processes, Begin(p) PROVE WorkersInv'
  <1>0. /\ UNCHANGED <<alive, worktrees, sentinels>> /\ alive' \subseteq worktrees'
        /\ me[p].launched = {} /\ StillKnown(p)
    <2>1. me[p].pc \in {"idle", "lock"}
      BY DEF Begin, BeginLocked, BeginPlain, BeginDecision, TakeLock
    <2> QED
      BY <2>1, Unlaunched DEF Begin, BeginLocked, BeginPlain, BeginDecision, TakeLock, workers, git,
         WorkersInv, AliveInv, StillKnown, Looping
  <1>1. ASSUME NEW kind \in Kinds, NEW target \in Runs \union {NoRun}, NEW keep \in Keeps,
               NEW max \in Limits, BeginLocked(p, kind, target, keep, max)
        PROVE WorkersInv'
    <2>1. Moved(p) /\ me'[p].pc = "guard"
      BY <1>1, BeginLockedShape DEF BaseInv
    <2> QED
      BY <1>0, <2>1, WorkersKeep DEF WorkersAt, Looping
  <1>2. ASSUME NEW max \in Limits, BeginPlain(p, max) PROVE WorkersInv'
    <2>1. Moved(p) /\ me'[p].kind = "plain"
      BY <1>2, BeginPlainShape DEF BaseInv
    <2> QED
      BY <1>0, <2>1, WorkersKeep DEF Holds
  <1>3. ASSUME NEW kind \in {"apply", "abort"}, NEW r \in Runs, BeginDecision(p, kind, r)
        PROVE WorkersInv'
    <2>1. Moved(p) /\ me'[p].pc = "lock"
      BY <1>3, BeginDecisionShape DEF BaseInv
    <2> QED
      BY <1>0, <2>1, WorkersKeep DEF Holds
  <1>4. CASE TakeLock(p)
    <2>1. CASE Leave(p)
      BY <1>0, <2>1, LeaveWorkers
    <2>2. CASE me[p].kind \in Places /\ Goto(p, me[p].kind)
      <3>1. me[p].kind \in DecisionKinds
        BY <1>4, At_p DEF TakeLock, KindAt
      <3>2. Moved(p) /\ me'[p].pc = me[p].kind
        BY <2>2, GotoShape DEF BaseInv
      <3> QED
        BY <1>0, <3>1, <3>2, WorkersKeep DEF WorkersAt, Looping, DecisionKinds
    <2> QED
      BY <1>4, <2>1, <2>2, TakeLockShape DEF BaseInv
  <1> QED
    BY <1>1, <1>2, <1>3, <1>4 DEF Begin

(* What the guards leave of the workers and their sentinels.               *)
LEMMA GuardedWorkers ==
  ASSUME alive \subseteq sentinels, alive \subseteq worktrees,
         UNCHANGED workers \/ WorkersBlock \/ WorkersClear, worktrees' = worktrees
  PROVE  /\ alive' \subseteq worktrees' /\ alive' \subseteq sentinels'
         /\ WorkersClear => alive' = {}
  BY DEF WorkersBlock, WorkersClear, Blocking, workers

LEMMA WorkersGuards ==
  ASSUME BaseInv, WorkersInv, NEW p \in Processes,
         Fresh(p) \/ Resume(p) \/ Review(p) \/ Apply(p) \/ Abort(p)
  PROVE  WorkersInv'
  <1>1. Holds(me[p]) /\ me[p].pc \notin Looping
    BY At_p DEF Fresh, Resume, Review, Apply, Abort, KindAt, Holds, RunKinds, DecisionKinds, Looping
  <1>2. /\ UNCHANGED workers \/ WorkersBlock \/ WorkersClear
        /\ worktrees' = worktrees
    BY DEF Fresh, Resume, Review, Apply, Abort, git
  <1>3. /\ alive' \subseteq worktrees' /\ alive' \subseteq sentinels'
        /\ WorkersClear => alive' = {}
    BY <1>1, <1>2, HaveSentinels, GuardedWorkers DEF WorkersInv, AliveInv
  <1>4. CASE Leave(p)
    BY <1>1, <1>3, <1>4, LeaveWorkers
  <1>5. ASSUME Moved(p), alive' = {}, me'[p].pc \notin Looping PROVE WorkersInv'
    BY <1>1, <1>3, <1>5, WorkersKeep DEF WorkersAt, Looping, StillKnown
  <1>6. CASE Fresh(p) /\ ~Leave(p)
    <2>1. alive' = {} /\ Moved(p) /\ me'[p].pc = "stale"
      BY <1>6, FreshShape DEF HasResidue, WorkersInv, AliveInv, Fresh, workers, BaseInv
    <2> QED
      BY <1>5, <2>1 DEF Looping
  <1>7. CASE Resume(p) /\ ~Leave(p)
    <2>1. alive' = {} /\ Moved(p) /\ me'[p].pc = "create"
      BY <1>3, <1>7, ResumeShape DEF BaseInv
    <2> QED
      BY <1>5, <2>1 DEF Looping
  <1>8. CASE Review(p) /\ ~Leave(p)
    <2>1. alive' = {} /\ Moved(p) /\ me'[p].pc = "stale"
      BY <1>3, <1>8, ReviewShape DEF BaseInv
    <2> QED
      BY <1>5, <2>1 DEF Looping
  <1>9. CASE Apply(p) /\ ~Leave(p)
    <2>1. alive' = {} /\ Moved(p) /\ me'[p].pc = "decide"
      BY <1>3, <1>9, ApplyShape
    <2> QED
      BY <1>5, <2>1 DEF Looping
  <1>10. CASE Abort(p) /\ ~Leave(p)
    <2>1. alive' = {} /\ Moved(p) /\ me'[p].pc = "clean"
      BY <1>3, <1>10, AbortShape
    <2> QED
      BY <1>5, <2>1 DEF Looping
  <1> QED
    BY <1>4, <1>6, <1>7, <1>8, <1>9, <1>10

LEMMA WorkersStart == ASSUME BaseInv, WorkersInv, NEW p \in Processes, Start(p) PROVE WorkersInv'
  <1>1. CASE Fresh(p) \/ Resume(p) \/ Review(p)
    BY <1>1, WorkersGuards
  <1>2. CASE Mark(p)
    <2>1. UNCHANGED workers /\ worktrees' = worktrees /\ Moved(p) /\ SameCommand(p)
          /\ me[p].pc = "mark" /\ me'[p].pc = "stale"
      BY <1>2, MarkShape DEF Mark, git, BaseInv
    <2> QED
      BY <2>1, CarryOn
  <1>3. CASE NoneStale(p)
    <2>1. UNCHANGED workers /\ worktrees' = worktrees /\ Moved(p) /\ SameCommand(p)
          /\ me[p].pc = "stale" /\ me'[p].pc = "create"
      BY <1>3, NoneStaleShape DEF NoneStale, git, BaseInv
    <2> QED
      BY <2>1, CarryOn
  <1>4. ASSUME NEW r \in Runs, ReadStale(p, r) PROVE WorkersInv'
    <2>1. UNCHANGED workers /\ worktrees' = worktrees /\ Moved(p) /\ SameCommand(p)
          /\ me[p].pc = "stale" /\ me'[p].pc = "mark"
      BY <1>4, ReadStaleShape DEF ReadStale, git, BaseInv
    <2> QED
      BY <2>1, CarryOn
  <1>5. CASE Create(p)
    <2>1. UNCHANGED workers /\ worktrees' = worktrees /\ Moved(p) /\ SameCommand(p)
          /\ me[p].pc = "create" /\ me'[p].pc \in {"plain", "record"}
      BY <1>5, CreateShape DEF Create, git, BaseInv
    <2> QED
      BY <2>1, CarryOn
  <1>6. CASE Record(p)
    <2>1. UNCHANGED workers /\ worktrees' = worktrees /\ Moved(p) /\ SameCommand(p)
          /\ me[p].pc = "record" /\ me'[p].pc = "setup"
      BY <1>6, RecordShape DEF Record, git, BaseInv
    <2> QED
      BY <2>1, CarryOn
  <1>7. CASE Setup(p)
    <2>1. me[p].pc = "setup" /\ Holds(me[p]) /\ UNCHANGED workers
      BY <1>7, At_p DEF Setup, KindAt, Holds, RunKinds, Owning, Recording
    <2>2. alive = {} /\ alive' = {}
      BY <2>1 DEF WorkersInv, WorkersAt, workers
    <2>3. CASE EndFailed(p)
      BY <2>1, <2>2, <2>3, LeaveWorkers DEF EndFailed
    <2>4. CASE ~EndFailed(p)
      <3>1. Moved(p) /\ me'[p].pc = "loop" /\ me'[p].launched = {}
        BY <1>7, <2>4, SetupShape
      <3> QED
        BY <2>1, <2>2, <3>1, WorkersKeep DEF WorkersAt, Looping, StillKnown
    <2> QED
      BY <2>3, <2>4
  <1> QED
    BY <1>1, <1>2, <1>3, <1>4, <1>5, <1>6, <1>7 DEF Start

LEMMA WorkersLoop == ASSUME BaseInv, WorkersInv, NEW p \in Processes, Loop(p) PROVE WorkersInv'
  <1> USE DEF Looping
  <1>0. /\ me[p].pc \in Looping => /\ Holds(me[p]) /\ alive \subseteq me[p].launched
                                  /\ me[p].launched \subseteq worktrees
        /\ me[p].pc \in {"integrate", "checkpoint"} => alive = {}
        /\ alive \subseteq worktrees
    BY LoopFacts DEF WorkersInv, WorkersAt, AliveInv
  <1>1. ASSUME NEW t \in Tasks, Reserve(p, t) PROVE WorkersInv'
    <2>1. /\ Moved(p) /\ me[p].pc = "loop" /\ me'[p].pc = "spawn" /\ me'[p].todo = {t}
          /\ me'[p].launched = me[p].launched
      BY <1>1, ReserveShape
    <2>2. worktrees' = worktrees \union {t} /\ UNCHANGED workers
      BY <1>1 DEF Reserve
    <2> QED
      BY <1>0, <2>1, <2>2, WorkersKeep DEF WorkersAt, StillKnown, workers
  <1>2. CASE Spawn(p)
    <2>1. /\ Moved(p) /\ me[p].pc = "spawn" /\ me'[p].pc = "loop"
          /\ me'[p].launched = me[p].launched \union me[p].todo
      BY <1>2, SpawnShape
    <2>2. /\ alive' = alive \union me[p].todo /\ sentinels' = sentinels
          /\ worktrees' = worktrees /\ me[p].todo \subseteq worktrees
      BY <1>0, <1>2, <2>1 DEF Spawn, git, WorkersInv, WorkersAt
    <2> QED
      BY <1>0, <2>1, <2>2, WorkersKeep DEF WorkersAt, StillKnown
  <1>3. ASSUME NEW t \in Tasks, NEW o \in {"merged", "unchanged", "failed"}, Integrate(p, t, o)
        PROVE  WorkersInv'
    <2>1. /\ Moved(p) /\ me[p].pc \in {"loop", "integrate"} /\ me'[p].pc = "checkpoint"
          /\ me'[p].launched = me[p].launched \ {t} /\ Settled(p)
      BY <1>3, IntegrateShape
    <2>2. UNCHANGED workers /\ worktrees' = worktrees
      BY <1>3 DEF Integrate
    <2> QED
      BY <1>0, <2>1, <2>2, WorkersKeep DEF WorkersAt, StillKnown, workers, Settled
  <1>4. CASE Checkpoint(p)
    <2>1. /\ Moved(p) /\ me[p].pc = "checkpoint" /\ me'[p].pc \in {"loop", "integrate"}
          /\ me'[p].launched = me[p].launched
      BY <1>4, CheckpointShape
    <2>2. UNCHANGED workers /\ worktrees' = worktrees
      BY <1>4 DEF Checkpoint, git
    <2> QED
      BY <1>0, <2>1, <2>2, WorkersKeep DEF WorkersAt, StillKnown, workers
  <1>5. ASSUME NEW aborted \in BOOLEAN, Finish(p, aborted) PROVE WorkersInv'
    <2>1. /\ Moved(p) /\ me[p].pc \in {"loop", "spawn"} /\ me'[p].pc \in {"clean", "close"}
          /\ Settled(p)
      BY <1>5, FinishShape
    <2>2. UNCHANGED workers /\ worktrees' = worktrees
      BY <1>5 DEF Finish, git
    <2>3. alive' = {}
      BY <1>0, <2>1, <2>2 DEF Settled, workers
    <2> QED
      BY <1>0, <2>1, <2>2, <2>3, WorkersKeep DEF WorkersAt, StillKnown
  <1>6. CASE Close(p) \/ WriteFails(p)
    <2>1. Leave(p) /\ UNCHANGED <<alive, sentinels, worktrees>>
          /\ me[p].pc \in {"close", "plain", "checkpoint"}
      BY <1>6 DEF Close, WriteFails, workers, git
    <2>2. alive = {} \/ me[p].launched = {}
      BY <1>0, <2>1, Unlaunched
    <2> QED
      BY <1>0, <2>1, <2>2, LeaveWorkers
  <1>7. CASE Throw(p)
    <2>1. Leave(p) /\ me[p].pc \in Looping /\ worktrees' = worktrees
          /\ alive' = alive \ me[p].launched
      BY <1>7 DEF Throw, EndFailed, git
    <2>2. alive' = {}
      BY <1>0, <2>1
    <2> QED
      BY <1>0, <2>1, <2>2, LeaveWorkers
  <1> QED
    BY <1>1, <1>2, <1>3, <1>4, <1>5, <1>6, <1>7 DEF Loop

LEMMA WorkersDecision == ASSUME BaseInv, WorkersInv, NEW p \in Processes, Decision(p) PROVE WorkersInv'
  <1>1. CASE Apply(p) \/ Abort(p)
    BY <1>1, WorkersGuards
  <1>2. CASE Decide(p) \/ Clean(p) \/ Prune(p)
    <2>1. /\ me[p].pc \in {"decide", "clean", "prune"} /\ Holds(me[p]) /\ UNCHANGED workers
      BY <1>2, At_p DEF Decide, Clean, Prune, KindAt, Holds, RunKinds, DecisionKinds, Leaving
    <2>2. alive = {} /\ alive' = {}
      BY <2>1 DEF WorkersInv, WorkersAt, workers
    <2>3. CASE Leave(p)
      BY <2>1, <2>2, <2>3, LeaveWorkers
    <2>4. ASSUME NEW pc \in {"clean", "prune", "decide", "close"}, Goto(p, pc) PROVE WorkersInv'
      <3>1. Moved(p) /\ me'[p].pc = pc
        BY <2>4, GotoShape DEF Places, BaseInv
      <3> QED
        BY <2>1, <2>2, <3>1, WorkersKeep DEF WorkersAt, Looping, StillKnown
    <2> QED
      BY <1>2, <2>3, <2>4 DEF Decide, Clean, Prune
  <1> QED
    BY <1>1, <1>2 DEF Decision

LEMMA WorkersAround ==
  ASSUME BaseInv, WorkersInv,
         (\E t \in Tasks : WorkerMoves(t)) \/ Commit \/ Edit \/ Discard \/ ApprovePlan
  PROVE  WorkersInv'
  <1>1. UNCHANGED <<me, worktrees>> /\ alive' \subseteq alive
    BY DEF WorkerMoves, WorkerEnds, WriteSentinel, Commit, Edit, Discard, ApprovePlan, workers, git
  <1>2. sentinels \cap alive' \subseteq sentinels'
    BY DEF WorkerMoves, WorkerEnds, WriteSentinel, Commit, Edit, Discard, ApprovePlan, workers
  <1> QED
    BY <1>1, <1>2 DEF WorkersInv, AliveInv, WorkersAt, Holds

LEMMA WorkersCrash == ASSUME BaseInv, WorkersInv, NEW p \in Processes, Crash(p) PROVE WorkersInv'
  <1>1. /\ Leave(p) /\ UNCHANGED <<sentinels, worktrees>>
        /\ alive' = alive \ ((me[p].launched \cap alive) \ sentinels)
    BY DEF Crash, Unrecorded, git
  <1>2. alive' \subseteq worktrees'
    BY <1>1 DEF WorkersInv, AliveInv
  <1>3. CASE me[p].launched = {}
    BY <1>1, <1>2, <1>3, LeaveWorkers
  <1>4. CASE me[p].launched # {}
    <2>1. Holds(me[p]) /\ alive \subseteq me[p].launched
      BY <1>4, Unlaunched DEF WorkersInv, WorkersAt
    <2> QED
      BY <1>1, <1>2, <2>1, LeaveWorkers
  <1> QED
    BY <1>3, <1>4

(* Every worker alive that is not a stray is in a worktree that exists,    *)
(* and is known to the loop that has started it or by its worker.json;     *)
(* with nobody in a loop, by its worker.json (run-parallel.ts,             *)
(* worker-sentinels.ts).  A stray is what a death or a failure leaves      *)
(* between the start of a worker and its worker.json.                      *)
THEOREM WorkersInvariant == Spec => []WorkersInv
  <1>1. Init => WorkersInv
    BY IdleTyped DEF Init, WorkersInv, AliveInv
  <1>2. BaseInv /\ WorkersInv /\ [Next]_vars => WorkersInv'
    <2> SUFFICES ASSUME BaseInv, WorkersInv, [Next]_vars PROVE WorkersInv'
      OBVIOUS
    <2>1. CASE UNCHANGED vars
      BY <2>1 DEF vars, git, workers, WorkersInv, AliveInv, WorkersAt, Holds
    <2> QED
      BY <2>1, WorkersBegin, WorkersStart, WorkersLoop, WorkersDecision, WorkersCrash,
         WorkersAround DEF Next
  <1> QED
    BY <1>1, <1>2, BaseInvariant, PTL DEF Spec

(* No worktree is removed under a worker that a loop or a worker.json      *)
(* knows: also the ones of a run that has died are found before a command  *)
(* removes worktrees (run.ts: the guard refuses instead of racing it).     *)
(* Nothing is said of the strays, which no guard can find.                 *)
THEOREM NoWorkerIsUndercut == Spec => WorkersNotUndercut
  <1>1. ASSUME BaseInv, WorkersInv, Next, worktrees \ worktrees' # {} PROVE alive = {}
    <2>1. PICK p \in Processes : Setup(p) \/ Clean(p)
      <3>1. ASSUME NEW p \in Processes, Begin(p) \/ Crash(p) PROVE FALSE
        BY <1>1, <3>1 DEF Begin, Crash, BeginLocked, BeginPlain, BeginDecision, TakeLock, git
      <3>2. ASSUME NEW p \in Processes, Start(p), ~Setup(p) PROVE FALSE
        BY <1>1, <3>2 DEF Start, Fresh, Resume, Review, Mark, NoneStale, ReadStale, Create, Record, git
      <3>3. ASSUME NEW p \in Processes, Loop(p) PROVE FALSE
        BY <1>1, <3>3 DEF Loop, Reserve, Integrate, Finish, Spawn, Checkpoint, Close, Throw,
           WriteFails, git
      <3>4. ASSUME NEW p \in Processes, Decision(p), ~Clean(p) PROVE FALSE
        BY <1>1, <3>4 DEF Decision, Apply, Abort, Decide, Prune, git
      <3>5. ~((\E t \in Tasks : WorkerMoves(t)) \/ Commit \/ Edit \/ Discard \/ ApprovePlan)
        BY <1>1 DEF WorkerMoves, WorkerEnds, WriteSentinel, Commit, Edit, Discard, ApprovePlan, git
      <3> QED
        BY <1>1, <3>1, <3>2, <3>3, <3>4, <3>5 DEF Next
    <2>2. Holds(me[p]) /\ me[p].pc \in {"setup", "clean"}
      BY <1>1, <2>1, At_p DEF Setup, Clean, KindAt, Holds, RunKinds, DecisionKinds, Owning,
         Recording, Leaving
    <2> QED
      BY <1>1, <2>2 DEF WorkersInv, WorkersAt, Looping
  <1>2. BaseInv /\ WorkersInv /\ [Next]_vars => [(worktrees \ worktrees') \cap alive = {}]_vars
    BY <1>1
  <1> QED
    BY <1>2, BaseInvariant, WorkersInvariant, PTL DEF Spec, WorkersNotUndercut

(***************************************************************************)
(* The records: what the manifests say of the branch, and what is merged   *)
(* and applied; one layer for each property, on top of the base invariant. *)
(***************************************************************************)

(***************************************************************************)
(* The last run on the branch.                                             *)
(***************************************************************************)
(* An outcome a later command goes by.                                     *)
Ready(m) == m.status = "review_pending" \/ (m.status = "interrupted" /\ m.safe)

Claims(m) == Recorded(m) /\ m.integration.tip = branch

(* A run under way is not ready on record, nor does it write before its    *)
(* loop has ended that it is; what it writes then is what the branch is.   *)
ReadyAt(m) ==
  /\ m.pc \in Owning => ~Ready(manifest[m.run])
  /\ m.pc \in Looping => m.held.status = "running" /\ m.next.status = "running"
  /\ m.pc = "setup" => m.held.status = "running"
  /\ m.kind \in RunKinds /\ m.pc \in Leaving =>
       /\ history.last = m.run
       /\ branch # NoBranch /\ Ready(m.next) => Claims(m.next)
  /\ m.kind \in DecisionKinds /\ m.pc \in {"decide", "clean", "prune"} =>
       m.next.status \in {"applied", "aborted"}

(* What a stale record is marked with is never ready.                      *)
MarkAt(m) == m.pc = "mark" => ~Ready(m.next)

ReadyInv ==
  /\ LastRecordExact
  /\ \A p \in Processes : MarkAt(me[p]) /\ (Holds(me[p]) => ReadyAt(me[p]))

(* No record becomes ready.                                                *)
NoneReadier ==
  /\ branch' \in {branch, NoBranch} /\ history'.last = history.last
  /\ \A r \in Runs : Exists(r) /\ Ready(manifest'[r]) => manifest'[r] = manifest[r]

LEMMA WrittenUnready ==
  ASSUME BaseInv, NEW r \in Runs, NEW m, ~Ready(m), manifest' = [manifest EXCEPT ![r] = m],
         branch' \in {branch, NoBranch}, history'.last = history.last
  PROVE  NoneReadier
  BY DEF BaseInv, TypeInv, StateTyped, NoneReadier

LEMMA UntouchedRecords ==
  ASSUME manifest' = manifest, branch' \in {branch, NoBranch}, history'.last = history.last
  PROVE  NoneReadier
  BY DEF NoneReadier

LEMMA ExactKeep ==
  ASSUME BaseInv, LastRecordExact, NoneReadier
  PROVE  LastRecordExact'
  <1> SUFFICES ASSUME history.last # NoRun, branch # NoBranch, branch' = branch,
                      Ready(manifest'[history.last])
               PROVE  Recorded(manifest'[history.last])
                        /\ manifest'[history.last].integration.tip = branch
    BY DEF LastRecordExact, NoneReadier, Ready
  <1>1. history.last \in Runs /\ Exists(history.last)
    BY DEF BaseInv, RunsInv, TypeInv, StateTyped, Histories
  <1>2. manifest'[history.last] = manifest[history.last]
    BY <1>1 DEF NoneReadier
  <1> QED
    BY <1>2 DEF LastRecordExact, Ready

LEMMA ReadyKeep ==
  ASSUME BaseInv, ReadyInv, NEW p \in Processes, Moved(p), LastRecordExact', MarkAt(me[p])',
         Holds(me[p]) \/ lock = Nobody \/ (NoneReadier /\ branch' = branch),
         Holds(me[p])' => ReadyAt(me[p])'
  PROVE  ReadyInv'
  <1> SUFFICES ASSUME NEW q \in Processes, q # p
               PROVE  MarkAt(me[q])' /\ (Holds(me[q])' => ReadyAt(me[q])')
    BY DEF ReadyInv
  <1>1. me'[q] = me[q] /\ (Holds(me[q])' => Holds(me[q]))
    BY DEF Moved, Others, Holds
  <1>2. MarkAt(me[q])'
    BY <1>1 DEF ReadyInv, MarkAt
  <1>3. ASSUME Holds(me[q])' PROVE ReadyAt(me[q])'
    <2>1. NoneReadier /\ branch' = branch /\ ReadyAt(me[q])
      BY <1>1, <1>3, Alone DEF ReadyInv
    <2>2. me[q].pc \in Owning => me[q].run \in Runs /\ Exists(me[q].run)
      BY At_p DEF KindAt, Invocation
    <2> QED
      BY <1>1, <2>1, <2>2 DEF ReadyAt, NoneReadier, Claims
  <1> QED
    BY <1>2, <1>3

LEMMA LeaveReady ==
  ASSUME BaseInv, ReadyInv, NEW p \in Processes, Leave(p), LastRecordExact',
         Holds(me[p]) \/ (NoneReadier /\ branch' = branch)
  PROVE  ReadyInv'
  <1>1. Moved(p) /\ me'[p] = Idle
    BY LeaveShape DEF BaseInv
  <1>2. ~Holds(me[p])' /\ MarkAt(me[p])'
    BY <1>1, IdleTyped DEF Holds, MarkAt
  <1> QED
    BY <1>1, <1>2, ReadyKeep

LEMMA LeaveUnready ==
  ASSUME BaseInv, ReadyInv, NEW p \in Processes, Leave(p), NoneReadier, branch' = branch
  PROVE  ReadyInv'
  BY LeaveReady, ExactKeep DEF ReadyInv

(* A step that makes no record ready, into a place of no consequence.      *)
LEMMA UnreadyKeep ==
  ASSUME BaseInv, ReadyInv, NEW p \in Processes, Moved(p), NoneReadier, branch' = branch,
         me'[p].pc \in {"lock", "guard", "stale", "create", "apply", "abort", "plain"}
  PROVE  ReadyInv'
  <1>1. MarkAt(me[p])' /\ ReadyAt(me[p])'
    BY DEF MarkAt, ReadyAt, Owning, Recording, Looping, Leaving
  <1> QED
    BY <1>1, ReadyKeep, ExactKeep DEF ReadyInv

LEMMA ReadyBegin == ASSUME BaseInv, ReadyInv, NEW p \in Processes, Begin(p) PROVE ReadyInv'
  <1>0. NoneReadier /\ branch' = branch
    BY UntouchedRecords
    DEF Begin, BeginLocked, BeginPlain, BeginDecision, TakeLock, git
  <1>1. ASSUME NEW kind \in Kinds, NEW target \in Runs \union {NoRun}, NEW keep \in Keeps,
               NEW max \in Limits, BeginLocked(p, kind, target, keep, max)
        PROVE ReadyInv'
    <2>1. Moved(p) /\ me'[p].pc = "guard"
      BY <1>1, BeginLockedShape DEF BaseInv
    <2> QED
      BY <1>0, <2>1, UnreadyKeep
  <1>2. ASSUME NEW max \in Limits, BeginPlain(p, max) PROVE ReadyInv'
    <2>1. Moved(p) /\ me'[p].pc = "stale"
      BY <1>2, BeginPlainShape DEF BaseInv
    <2> QED
      BY <1>0, <2>1, UnreadyKeep
  <1>3. ASSUME NEW kind \in {"apply", "abort"}, NEW r \in Runs, BeginDecision(p, kind, r)
        PROVE ReadyInv'
    <2>1. Moved(p) /\ me'[p].pc = "lock"
      BY <1>3, BeginDecisionShape DEF BaseInv
    <2> QED
      BY <1>0, <2>1, UnreadyKeep
  <1>4. CASE TakeLock(p)
    <2>1. CASE Leave(p)
      BY <1>0, <2>1, LeaveUnready
    <2>2. CASE me[p].kind \in Places /\ Goto(p, me[p].kind)
      <3>1. me[p].kind \in DecisionKinds
        BY <1>4, At_p DEF TakeLock, KindAt
      <3>2. Moved(p) /\ me'[p].pc = me[p].kind
        BY <2>2, GotoShape DEF BaseInv
      <3> QED
        BY <1>0, <3>1, <3>2, UnreadyKeep DEF DecisionKinds
    <2> QED
      BY <1>4, <2>1, <2>2, TakeLockShape DEF BaseInv
  <1> QED
    BY <1>1, <1>2, <1>3, <1>4 DEF Begin

LEMMA ReadyStart == ASSUME BaseInv, ReadyInv, NEW p \in Processes, Start(p) PROVE ReadyInv'
  <1> USE DEF Recording, Looping, Leaving, Owning, RunKinds, DecisionKinds
  <1>1. CASE Fresh(p) \/ Resume(p) \/ Review(p)
    <2>1. NoneReadier /\ branch' = branch
      BY <1>1, UntouchedRecords DEF Fresh, Resume, Review, git
    <2>2. Leave(p) \/ (Moved(p) /\ me'[p].pc \in {"stale", "create"})
      BY <1>1, FreshShape, ResumeShape, ReviewShape DEF BaseInv
    <2> QED
      BY <2>1, <2>2, LeaveUnready, UnreadyKeep
  <1>2. CASE Mark(p)
    <2>1. /\ Moved(p) /\ me[p].pc = "mark" /\ me'[p].pc = "stale" /\ me[p].run \in Runs
          /\ manifest' = [manifest EXCEPT ![me[p].run] = me[p].next]
      BY <1>2, MarkShape DEF BaseInv
    <2>2. ~Ready(me[p].next)
      BY <2>1 DEF ReadyInv, MarkAt
    <2>3. NoneReadier /\ branch' = branch
      BY <1>2, <2>1, <2>2, WrittenUnready DEF Mark, git
    <2> QED
      BY <2>1, <2>3, UnreadyKeep
  <1>3. CASE NoneStale(p)
    <2>1. Moved(p) /\ me'[p].pc = "create"
      BY <1>3, NoneStaleShape DEF BaseInv
    <2> QED
      BY <1>3, <2>1, UntouchedRecords, UnreadyKeep DEF NoneStale, git
  <1>4. ASSUME NEW r \in Runs, ReadStale(p, r) PROVE ReadyInv'
    <2>1. /\ Moved(p) /\ me'[p].pc = "mark" /\ me'[p].next = Unrecoverable(manifest[r])
          /\ Exists(r)
      BY <1>4, ReadStaleShape DEF BaseInv
    <2>2. manifest[r] \in Manifests
      BY <2>1 DEF BaseInv, TypeInv, StateTyped, Exists
    <2>3. MarkAt(me[p])' /\ ReadyAt(me[p])'
      BY <2>1, <2>2, UnrecoverableTyped DEF MarkAt, ReadyAt, Ready
    <2>4. NoneReadier /\ branch' = branch
      BY <1>4, UntouchedRecords DEF ReadStale, git
    <2> QED
      BY <2>1, <2>3, <2>4, ReadyKeep, ExactKeep DEF ReadyInv
  <1>5. CASE Create(p)
    <2>1. PICK r \in Runs, m \in Manifests :
            /\ Moved(p) /\ me'[p].pc \in {"plain", "record"} /\ me'[p].run = r
            /\ m.status \in {"starting", "running"}
            /\ manifest' = [manifest EXCEPT ![r] = m]
            /\ history'.last = history.last
      BY <1>5, CreateShape, StartedTyped DEF BaseInv
    <2>2. NoneReadier /\ branch' = branch
      BY <1>5, <2>1, WrittenUnready DEF Create, git, Ready
    <2>3. manifest'[r] = m
      BY <2>1 DEF BaseInv, TypeInv, StateTyped
    <2>4. MarkAt(me[p])' /\ ReadyAt(me[p])'
      BY <2>1, <2>3 DEF MarkAt, ReadyAt, Ready
    <2> QED
      BY <2>1, <2>2, <2>4, ReadyKeep, ExactKeep DEF ReadyInv
  <1>6. CASE Record(p)
    <2> DEFINE n == WithIntegration(me[p].held, me[p].from, main.head)
    <2>0. /\ Moved(p) /\ me'[p].pc = "setup" /\ me'[p].run = me[p].run /\ me[p].run \in Runs
          /\ me'[p].held = n /\ n \in Manifests
          /\ me[p].held \in Manifests /\ me[p].from \in Integrations \union {NoIntegration}
          /\ main.head \in 0..MaxHead
          /\ manifest' = [manifest EXCEPT ![me[p].run] = n]
      BY <1>6, RecordShape DEF BaseInv
    <2>00. n.status = "running"
      BY <2>0, WithIntegrationTyped
    <2> HIDE DEF n
    <2>1. PICK m \in Manifests :
            /\ Moved(p) /\ me'[p].pc = "setup" /\ me'[p].run = me[p].run /\ me[p].run \in Runs
            /\ m.status = "running" /\ me'[p].held = m
            /\ manifest' = [manifest EXCEPT ![me[p].run] = m]
      BY <2>0, <2>00
    <2>2. NoneReadier /\ branch' = branch
      BY <1>6, <2>1, WrittenUnready DEF Record, git, Ready
    <2>3. manifest'[me[p].run] = m
      BY <2>1 DEF BaseInv, TypeInv, StateTyped
    <2>4. MarkAt(me[p])' /\ ReadyAt(me[p])'
      BY <2>1, <2>3 DEF MarkAt, ReadyAt, Ready
    <2> QED
      BY <2>1, <2>2, <2>4, ReadyKeep, ExactKeep DEF ReadyInv
  <1>7. CASE Setup(p)
    <2>1. /\ me[p].pc = "setup" /\ Holds(me[p]) /\ ReadyAt(me[p]) /\ BranchAt(me[p])
      BY <1>7, At_p DEF Setup, KindAt, Holds, ReadyInv
    <2>2. CASE EndFailed(p) /\ UNCHANGED <<branch, history>>
      <3>1. PICK m \in Manifests : ~Ready(m) /\ manifest' = [manifest EXCEPT ![me[p].run] = m]
                                   /\ me[p].run \in Runs
        BY <2>1, <2>2, EndFailedShape, WithStatusTyped DEF BaseInv, Ready, TerminalStatus
      <3> QED
        BY <2>2, <3>1, WrittenUnready, LeaveUnready DEF EndFailed
    <2>3. CASE ~(EndFailed(p) /\ UNCHANGED <<branch, history>>)
      <3>1. /\ Moved(p) /\ manifest' = manifest /\ me'[p].pc = "loop"
            /\ me'[p].held = me[p].held /\ me'[p].next = me[p].next /\ me'[p].run = me[p].run
            /\ history'.last = me[p].run
        BY <1>7, <2>3, SetupShape
      <3>2. ~Ready(manifest'[me[p].run])
        BY <2>1, <3>1 DEF ReadyAt
      <3>3. LastRecordExact'
        BY <3>1, <3>2 DEF LastRecordExact, Ready
      <3>4. MarkAt(me[p])' /\ ReadyAt(me[p])'
        BY <2>1, <3>1, <3>2 DEF MarkAt, ReadyAt, BranchAt
      <3> QED
        BY <2>1, <3>1, <3>3, <3>4, ReadyKeep
    <2> QED
      BY <2>2, <2>3
  <1> QED
    BY <1>1, <1>2, <1>3, <1>4, <1>5, <1>6, <1>7 DEF Start

LEMMA ReadyLoop == ASSUME BaseInv, ReadyInv, NEW p \in Processes, Loop(p) PROVE ReadyInv'
  <1> USE DEF Recording, Looping, Leaving, Owning, RunKinds, DecisionKinds
  <1>0. me[p].pc \in Looping =>
          /\ Holds(me[p]) /\ ReadyAt(me[p]) /\ history.last = me[p].run
          /\ me[p].kind \in RunKinds /\ me[p].run \in Runs
          /\ me[p].held \in Manifests /\ me[p].next \in Manifests /\ branch \in Commits
    BY LoopFacts DEF ReadyInv
  <1>1. ASSUME NEW m \in Manifests, m.status = "running", Moved(p), me[p].pc \in Looping,
               manifest' = [manifest EXCEPT ![me[p].run] = m],
               branch' = branch, history' = history,
               me'[p].pc \in Looping, me'[p].run = me[p].run, SameCommand(p),
               me'[p].held = m, me'[p].next = m
        PROVE  ReadyInv'
    <2>1. NoneReadier /\ manifest'[me[p].run] = m /\ ~Ready(m)
      BY <1>0, <1>1, WrittenUnready DEF Ready, BaseInv, TypeInv, StateTyped
    <2>2. MarkAt(me[p])' /\ ReadyAt(me[p])'
      BY <1>0, <1>1, <2>1 DEF MarkAt, ReadyAt, SameCommand
    <2> QED
      BY <1>1, <2>1, <2>2, <1>0, ReadyKeep, ExactKeep DEF ReadyInv
  <1>2. ASSUME NEW t \in Tasks, Reserve(p, t) PROVE ReadyInv'
    <2> DEFINE n == Reserved(me[p].held)
    <2>1. /\ Moved(p) /\ SameCommand(p) /\ me[p].pc = "loop" /\ me'[p].pc = "spawn"
          /\ n \in Manifests /\ manifest' = [manifest EXCEPT ![me[p].run] = n]
          /\ me'[p].held = n /\ me'[p].next = n /\ me'[p].run = me[p].run
      BY <1>2, ReserveShape
    <2>2. n.status = "running"
      BY <1>0, <2>1, ReservedTyped DEF ReadyAt
    <2>3. branch' = branch /\ history' = history
      BY <1>2 DEF Reserve
    <2> HIDE DEF n
    <2> QED
      BY <1>1, <2>1, <2>2, <2>3
  <1>3. CASE Checkpoint(p)
    <2>1. /\ Moved(p) /\ SameCommand(p) /\ me[p].pc = "checkpoint"
          /\ me'[p].pc \in {"loop", "integrate"}
          /\ manifest' = [manifest EXCEPT ![me[p].run] = me[p].next]
          /\ me'[p].held = me[p].next /\ me'[p].next = me[p].next /\ me'[p].run = me[p].run
      BY <1>3, CheckpointShape
    <2>2. me[p].next.status = "running"
      BY <1>0, <2>1 DEF ReadyAt
    <2>3. branch' = branch /\ history' = history
      BY <1>3 DEF Checkpoint, git
    <2> QED
      BY <1>0, <1>1, <2>1, <2>2, <2>3
  <1>4. CASE Spawn(p)
    <2>1. /\ Moved(p) /\ SameCommand(p) /\ me[p].pc = "spawn" /\ me'[p].pc = "loop"
          /\ me'[p].held = me[p].held /\ me'[p].next = me[p].next /\ me'[p].run = me[p].run
          /\ history'.last = history.last
      BY <1>4, SpawnShape
    <2>2. NoneReadier /\ branch' = branch /\ manifest' = manifest
      BY <1>4, <2>1, UntouchedRecords DEF Spawn, git
    <2>3. MarkAt(me[p])' /\ ReadyAt(me[p])'
      BY <1>0, <2>1, <2>2 DEF MarkAt, ReadyAt, SameCommand
    <2> QED
      BY <2>1, <2>2, <2>3, ReadyKeep, ExactKeep DEF ReadyInv
  <1>5. ASSUME NEW t \in Tasks, NEW o \in {"merged", "unchanged", "failed"}, Integrate(p, t, o)
        PROVE  ReadyInv'
    <2> DEFINE n == Checkpointed(me[p].held, DoneBy(t, o))
    <2>1. /\ Moved(p) /\ SameCommand(p) /\ me[p].pc \in {"loop", "integrate"}
          /\ me'[p].pc = "checkpoint" /\ me'[p].next = n /\ n.status = me[p].held.status
          /\ me'[p].held = me[p].held /\ me'[p].run = me[p].run
          /\ history'.last = history.last
      BY <1>5, IntegrateShape
    <2> HIDE DEF n
    <2>2. manifest' = manifest
      BY <1>5 DEF Integrate
    <2>3. ~Ready(manifest'[history'.last])
      BY <1>0, <2>1, <2>2 DEF ReadyAt
    <2>4. LastRecordExact'
      BY <2>3 DEF LastRecordExact, Ready
    <2>5. MarkAt(me[p])' /\ ReadyAt(me[p])'
      BY <1>0, <2>1, <2>2 DEF MarkAt, ReadyAt, SameCommand
    <2> QED
      BY <1>0, <2>1, <2>4, <2>5, ReadyKeep
  <1>6. ASSUME NEW aborted \in BOOLEAN, Finish(p, aborted) PROVE ReadyInv'
    <2> DEFINE n == Final(me[p].held, aborted)
    <2>1. /\ Moved(p) /\ SameCommand(p) /\ me[p].pc \in {"loop", "spawn"}
          /\ me'[p].pc \in {"clean", "close"} /\ me'[p].next = n
          /\ me'[p].held = me[p].held /\ me'[p].run = me[p].run
      BY <1>6, FinishShape
    <2>2. NoneReadier /\ branch' = branch /\ manifest' = manifest /\ history' = history
      BY <1>6, UntouchedRecords DEF Finish, git
    <2>3. Ready(n) => n.integration # NoIntegration /\ n.integration.tip = branch
      BY <1>0, <2>1, FinalTyped DEF Ready
    <2> HIDE DEF n
    <2>4. MarkAt(me[p])' /\ ReadyAt(me[p])'
      BY <1>0, <2>1, <2>2, <2>3 DEF MarkAt, ReadyAt, SameCommand, Claims, Recorded
    <2> QED
      BY <2>1, <2>2, <2>4, ReadyKeep, ExactKeep DEF ReadyInv
  <1>7. CASE Close(p)
    <2>1. /\ Leave(p) /\ UNCHANGED <<branch, history>> /\ me[p] \in Invocation /\ KindAt(me[p])
          /\ me[p].pc \in {"close", "plain"} /\ me[p].run \in Runs
          /\ me[p].held \in Manifests /\ me[p].next \in Manifests
      BY <1>7, At_p DEF Close, git, KindAt, Invocation
    <2>2. CASE me[p].pc = "close" /\ manifest' = [manifest EXCEPT ![me[p].run] = me[p].next]
      <3>1. Holds(me[p]) /\ me[p].kind \in RunKinds /\ ReadyAt(me[p])
        BY <2>1, <2>2 DEF KindAt, Holds, ReadyInv
      <3>2. manifest'[history'.last] = me[p].next
        BY <2>1, <2>2, <3>1 DEF ReadyAt, BaseInv, TypeInv, StateTyped
      <3>3. LastRecordExact'
        BY <2>1, <2>2, <3>1, <3>2 DEF LastRecordExact, ReadyAt, Ready, Claims, Recorded
      <3> QED
        BY <2>1, <3>1, <3>3, LeaveReady
    <2>3. ASSUME NEW s \in {"completed", "failed", "cancelled"},
                 manifest' = [manifest EXCEPT ![me[p].run] = WithStatus(me[p].held, s)]
          PROVE  ReadyInv'
      <3>1. ~Ready(WithStatus(me[p].held, s))
        BY <2>1, <2>3, WithStatusTyped DEF Ready, TerminalStatus
      <3> QED
        BY <2>1, <2>3, <3>1, WrittenUnready, LeaveUnready
    <2> QED
      BY <1>7, <2>2, <2>3 DEF Close, Mine
  <1>8. CASE Throw(p)
    <2>1. /\ me[p].pc \in Looping /\ Leave(p) /\ UNCHANGED <<branch, history>>
          /\ manifest' = [manifest EXCEPT ![me[p].run] = WithStatus(me[p].held, "failed")]
      BY <1>8 DEF Throw, EndFailed, git
    <2>2. ~Ready(WithStatus(me[p].held, "failed"))
      BY <1>0, <2>1, WithStatusTyped DEF Ready, TerminalStatus
    <2> QED
      BY <1>0, <2>1, <2>2, WrittenUnready, LeaveUnready
  <1>9. CASE WriteFails(p)
    <2>1. /\ me[p].pc \in Looping /\ Leave(p) /\ UNCHANGED <<branch, history>>
      BY <1>9 DEF WriteFails, git
    <2>2. PICK m : /\ manifest' = [manifest EXCEPT ![me[p].run] = m]
                   /\ m \in {manifest[me[p].run], me[p].next, Unrecoverable(me[p].held)}
      BY <1>9 DEF WriteFails, Mine
    <2>3. ~Ready(m)
      BY <1>0, <2>1, <2>2, UnrecoverableTyped DEF Ready, ReadyAt
    <2> QED
      BY <1>0, <2>1, <2>2, <2>3, WrittenUnready, LeaveUnready
  <1> QED
    BY <1>2, <1>3, <1>4, <1>5, <1>6, <1>7, <1>8, <1>9 DEF Loop

LEMMA ReadyDecision == ASSUME BaseInv, ReadyInv, NEW p \in Processes, Decision(p) PROVE ReadyInv'
  <1> USE DEF Recording, Looping, Leaving, Owning, RunKinds, DecisionKinds
  <1>0. /\ me[p].pc \in {"apply", "abort", "decide", "clean", "prune"}
        /\ Holds(me[p]) /\ ReadyAt(me[p]) /\ KindAt(me[p]) /\ me[p] \in Invocation
    BY At_p DEF Decision, Apply, Abort, Decide, Clean, Prune, KindAt, Holds, ReadyInv
  <1>1. CASE Apply(p) \/ Abort(p)
    <2>1. NoneReadier /\ branch' = branch
      BY <1>1, UntouchedRecords DEF Apply, Abort, git
    <2>2. ASSUME Moved(p), SameCommand(p), me'[p].pc \in {"decide", "clean"},
                 me'[p].next.status \in {"applied", "aborted"}, me[p].kind \in DecisionKinds
          PROVE  ReadyInv'
      <3>1. MarkAt(me[p])' /\ ReadyAt(me[p])'
        BY <2>2 DEF MarkAt, ReadyAt, SameCommand
      <3> QED
        BY <2>1, <2>2, <3>1, ReadyKeep, ExactKeep DEF ReadyInv
    <2>3. CASE Leave(p)
      BY <2>1, <2>3, LeaveUnready
    <2>4. CASE Apply(p) /\ ~Leave(p)
      <3>1. /\ Moved(p) /\ SameCommand(p) /\ me'[p].pc = "decide" /\ me[p].held \in Manifests
            /\ me'[p].next = WithStatus(me[p].held, "applied")
        BY <2>4, ApplyShape
      <3>2. me'[p].next.status = "applied"
        BY <3>1, WithStatusTyped DEF TerminalStatus
      <3> QED
        BY <1>0, <2>2, <2>4, <3>1, <3>2 DEF KindAt, Apply
    <2>5. CASE Abort(p) /\ ~Leave(p)
      <3>1. /\ Moved(p) /\ SameCommand(p) /\ me'[p].pc = "clean" /\ me[p].held \in Manifests
            /\ me'[p].next = WithStatus(me[p].held, "aborted")
        BY <2>5, AbortShape
      <3>2. me'[p].next.status = "aborted"
        BY <3>1, WithStatusTyped DEF TerminalStatus
      <3> QED
        BY <1>0, <2>2, <2>5, <3>1, <3>2 DEF KindAt, Abort
    <2> QED
      BY <1>1, <2>3, <2>4, <2>5
  <1>2. CASE Decide(p) \/ Clean(p) \/ Prune(p)
    <2>1. NoneReadier
      <3>1. CASE Decide(p)
        <4>1. me[p].run \in Runs /\ ~Ready(me[p].next)
          BY <1>0, <3>1 DEF KindAt, Invocation, ReadyAt, Ready, Decide
        <4> QED
          BY <3>1, <4>1, WrittenUnready DEF Decide, git
      <3>2. CASE Clean(p) \/ Prune(p)
        BY <3>2, UntouchedRecords DEF Clean, Prune
      <3> QED
        BY <1>2, <3>1, <3>2
    <2>2. history' = history /\ branch' \in {branch, NoBranch}
      BY <1>2 DEF Decide, Clean, Prune, git
    <2>3. LastRecordExact'
      BY <2>1, ExactKeep DEF ReadyInv
    <2>4. CASE Leave(p)
      BY <1>0, <2>3, <2>4, LeaveReady
    <2>5. ASSUME NEW pc \in {"clean", "prune", "decide", "close"}, Goto(p, pc),
                 pc \in {"clean", "decide"} => me[p].kind \in DecisionKinds,
                 pc \in {"prune", "close"} => me[p].pc \in {"clean", "prune"}
          PROVE  ReadyInv'
      <3>1. /\ Moved(p) /\ SameCommand(p) /\ me'[p].pc = pc /\ me'[p].run = me[p].run
            /\ me'[p].next = me[p].next
        BY <2>5, GotoShape DEF BaseInv, Places
      <3>2. MarkAt(me[p])' /\ ReadyAt(me[p])'
        BY <1>0, <1>2, <2>2, <2>5, <3>1 DEF MarkAt, ReadyAt, SameCommand, Claims, Recorded,
           Decide, Clean, Prune
      <3> QED
        BY <1>0, <2>3, <3>1, <3>2, ReadyKeep
    <2>6. CASE Decide(p)
      BY <1>0, <2>4, <2>5, <2>6 DEF Decide, KindAt
    <2>7. CASE Clean(p)
      BY <1>0, <2>4, <2>5, <2>7 DEF Clean
    <2>8. CASE Prune(p)
      BY <1>0, <2>4, <2>5, <2>8 DEF Prune
    <2> QED
      BY <1>2, <2>6, <2>7, <2>8
  <1> QED
    BY <1>1, <1>2 DEF Decision

(* A run that is ready for review, or safe to resume, becomes so by the   *)
(* last write of its command, which records the branch as it is (run.ts). *)
THEOREM ReadyInvariant == Spec => []ReadyInv
  <1>1. Init => ReadyInv
    BY IdleTyped DEF Init, ReadyInv, LastRecordExact, MarkAt, Idle
  <1>2. BaseInv /\ ReadyInv /\ [Next]_vars => ReadyInv'
    <2> SUFFICES ASSUME BaseInv, ReadyInv, [Next]_vars PROVE ReadyInv'
      OBVIOUS
    <2>1. CASE UNCHANGED <<manifest, branch, me, history>>
      BY <2>1 DEF ReadyInv, LastRecordExact, MarkAt, ReadyAt, Holds, Claims
    <2>2. ASSUME NEW p \in Processes, Crash(p) PROVE ReadyInv'
      BY <2>2, UntouchedRecords, LeaveUnready DEF Crash, git
    <2> QED
      BY <2>1, <2>2, ReadyBegin, ReadyStart, ReadyLoop, ReadyDecision
      DEF Next, vars, git, WorkerMoves, WorkerEnds, WriteSentinel, Commit, Edit, Discard, ApprovePlan
  <1> QED
    BY <1>1, <1>2, BaseInvariant, PTL DEF Spec

(* The last run on the branch, when it calls itself ready for review or    *)
(* safe to resume, has exactly the branch on record, as long as there is   *)
(* a branch (run-parallel.ts and run.ts call it I0).                       *)
THEOREM LastRecordIsExact == Spec => []LastRecordExact
  BY ReadyInvariant, PTL DEF ReadyInv

(***************************************************************************)
(* What is merged and applied.                                             *)
(***************************************************************************)
Known(work)    == \A i \in DOMAIN work : Exists(work[i].run)
NotBy(r, work) == \A i \in DOMAIN work : work[i].run # r
Apart(s, t)    == \A i \in DOMAIN s, j \in DOMAIN t : s[i] # t[j]

(* What is on the branch was made by runs there are, once, and is not in   *)
(* what was applied to the same HEAD.                                      *)
MergesInv ==
  /\ Known(main.committed) /\ Known(main.staged) /\ AppliedOnce
  /\ branch # NoBranch =>
       /\ Known(branch.work) /\ IsInjective(branch.work)
       /\ branch.base <= main.head
       /\ branch.base = main.head => Apart(main.committed, branch.work)

(* What a run may still merge is nowhere yet.                              *)
OwnAt(m) ==
  /\ m.pc \in Owning => NotBy(m.run, main.committed) /\ NotBy(m.run, main.staged)
  /\ m.pc \in Recording /\ branch # NoBranch => NotBy(m.run, branch.work)
  /\ m.pc \in Looping =>
       /\ m.launched \subseteq m.left
       /\ \A i \in DOMAIN branch.work : branch.work[i].run = m.run =>
            branch.work[i].task \notin m.left
  /\ m.pc = "spawn" => m.todo \subseteq m.left

WorkInv == MergesInv /\ \A p \in Processes : Holds(me[p]) => OwnAt(me[p])

LEMMA InjectiveAppend ==
  ASSUME NEW S, NEW s \in Seq(S), NEW e \in S, IsInjective(s), \A i \in DOMAIN s : s[i] # e
  PROVE  IsInjective(Append(s, e))
  <1>1. /\ DOMAIN Append(s, e) = 1..(Len(s) + 1) /\ DOMAIN s = 1..Len(s) /\ Len(s) \in Nat
        /\ \A i \in 1..Len(s) : Append(s, e)[i] = s[i]
        /\ Append(s, e)[Len(s) + 1] = e
    OBVIOUS
  <1>2. ASSUME NEW a \in 1..(Len(s) + 1), NEW b \in 1..(Len(s) + 1),
               Append(s, e)[a] = Append(s, e)[b]
        PROVE  a = b
    <2>1. CASE a \in 1..Len(s) /\ b \in 1..Len(s)
      BY <1>1, <1>2, <2>1 DEF IsInjective
    <2>2. CASE a = Len(s) + 1 /\ b # Len(s) + 1
      BY <1>1, <1>2, <2>2
    <2>3. CASE b = Len(s) + 1 /\ a # Len(s) + 1
      BY <1>1, <1>2, <2>3
    <2> QED
      BY <1>1, <2>1, <2>2, <2>3
  <1> QED
    BY <1>1, <1>2 DEF IsInjective

LEMMA ConcatIndex ==
  ASSUME NEW S, NEW s \in Seq(S), NEW t \in Seq(S)
  PROVE  /\ DOMAIN (s \o t) = 1..(Len(s) + Len(t)) /\ DOMAIN s = 1..Len(s) /\ DOMAIN t = 1..Len(t)
         /\ Len(s) \in Nat /\ Len(t) \in Nat
         /\ \A i \in 1..Len(s) : (s \o t)[i] = s[i]
         /\ \A i \in 1..(Len(s) + Len(t)) : i > Len(s) =>
              (s \o t)[i] = t[i - Len(s)] /\ i - Len(s) \in 1..Len(t)
  OBVIOUS

LEMMA InjectiveConcat ==
  ASSUME NEW S, NEW s \in Seq(S), NEW t \in Seq(S), IsInjective(s), IsInjective(t), Apart(s, t)
  PROVE  IsInjective(s \o t)
  <1> SUFFICES ASSUME NEW a \in 1..(Len(s) + Len(t)), NEW b \in 1..(Len(s) + Len(t)),
                      (s \o t)[a] = (s \o t)[b]
               PROVE  a = b
    BY ConcatIndex DEF IsInjective
  <1>1. CASE a \in 1..Len(s) /\ b \in 1..Len(s)
    BY <1>1, ConcatIndex DEF IsInjective
  <1>2. CASE a > Len(s) /\ b > Len(s)
    <2>1. a - Len(s) = b - Len(s)
      BY <1>2, ConcatIndex DEF IsInjective
    <2> QED
      BY <2>1, ConcatIndex
  <1>3. CASE a \in 1..Len(s) /\ b > Len(s)
    BY <1>3, ConcatIndex DEF Apart
  <1>4. CASE a > Len(s) /\ b \in 1..Len(s)
    BY <1>4, ConcatIndex DEF Apart
  <1> QED
    BY <1>1, <1>2, <1>3, <1>4, ConcatIndex

LEMMA InjectivePrefix ==
  ASSUME NEW S, NEW s \in Seq(S), NEW t \in Seq(S), IsInjective(s \o t)
  PROVE  IsInjective(s)
  <1> SUFFICES ASSUME NEW a \in 1..Len(s), NEW b \in 1..Len(s), s[a] = s[b] PROVE a = b
    BY ConcatIndex DEF IsInjective
  <1>1. a \in 1..(Len(s) + Len(t)) /\ b \in 1..(Len(s) + Len(t))
    BY ConcatIndex
  <1>2. (s \o t)[a] = (s \o t)[b]
    BY ConcatIndex
  <1>3. a \in DOMAIN (s \o t) /\ b \in DOMAIN (s \o t)
    BY <1>1, ConcatIndex
  <1> QED
    BY <1>2, <1>3 DEF IsInjective

LEMMA EverywhereConcat ==
  ASSUME NEW S, NEW s \in Seq(S), NEW t \in Seq(S)
  PROVE  /\ Known(s) /\ Known(t) => Known(s \o t)
         /\ \A r : NotBy(r, s) /\ NotBy(r, t) => NotBy(r, s \o t)
  <1>1. \A i \in DOMAIN (s \o t) :
          \/ i \in DOMAIN s /\ (s \o t)[i] = s[i]
          \/ i - Len(s) \in DOMAIN t /\ (s \o t)[i] = t[i - Len(s)]
    BY ConcatIndex
  <1> QED
    BY <1>1 DEF Known, NotBy

LEMMA Nothing ==
  /\ <<>> \in Seq(Merges) /\ Known(<<>>) /\ IsInjective(<<>>)
  /\ \A r : NotBy(r, <<>>)
  /\ \A s \in Seq(Merges) : Apart(s, <<>>) /\ s \o <<>> = s
  BY DEF Known, NotBy, IsInjective, Apart

LEMMA KnownStill ==
  ASSUME Grows, NEW s \in Seq(Merges), Known(s)
  PROVE  Known(s)'
  <1>1. \A i \in DOMAIN s : s[i] \in Merges
    OBVIOUS
  <1> QED
    BY <1>1 DEF Grows, Known, Merges

LEMMA WorkTyped ==
  ASSUME BaseInv
  PROVE  /\ main.committed \in Seq(Merges) /\ main.staged \in Seq(Merges)
         /\ main.head \in 0..MaxHead /\ main.head \in Nat
         /\ branch # NoBranch =>
              branch \in Commits /\ branch.work \in Seq(Merges) /\ branch.base \in Nat
  BY ConstantFacts DEF BaseInv, TypeInv, StateTyped, Works, Commits

LEMMA MergesKeep ==
  ASSUME BaseInv, MergesInv, Grows, main' = main, branch' \in {branch, NoBranch}
  PROVE  MergesInv'
  <1>1. Known(main.committed)' /\ Known(main.staged)'
    BY WorkTyped, KnownStill DEF MergesInv
  <1>2. branch' # NoBranch => Known(branch.work)'
    BY WorkTyped, KnownStill DEF MergesInv
  <1> QED
    BY <1>1, <1>2 DEF MergesInv, AppliedOnce

LEMMA OthersOwn ==
  ASSUME BaseInv, WorkInv, NEW p \in Processes, Moved(p),
         Holds(me[p]) \/ lock = Nobody \/ UNCHANGED <<branch, main>>,
         Holds(me[p])' => OwnAt(me[p])'
  PROVE  \A q \in Processes : Holds(me[q])' => OwnAt(me[q])'
  <1> SUFFICES ASSUME NEW q \in Processes, q # p, Holds(me[q])' PROVE OwnAt(me[q])'
    OBVIOUS
  <1>1. UNCHANGED <<branch, main>>
    BY Alone
  <1>2. me'[q] = me[q] /\ Holds(me[q])
    BY DEF Moved, Others, Holds
  <1> QED
    BY <1>1, <1>2 DEF WorkInv, OwnAt

LEMMA WorkKeep ==
  ASSUME BaseInv, WorkInv, NEW p \in Processes, Moved(p), Grows,
         main' = main, branch' \in {branch, NoBranch},
         Holds(me[p]) \/ lock = Nobody \/ branch' = branch,
         Holds(me[p])' => OwnAt(me[p])'
  PROVE  WorkInv'
  BY MergesKeep, OthersOwn DEF WorkInv

LEMMA LeaveWork ==
  ASSUME BaseInv, WorkInv, NEW p \in Processes, Leave(p), Grows,
         main' = main, branch' \in {branch, NoBranch}, Holds(me[p]) \/ branch' = branch
  PROVE  WorkInv'
  <1>1. Moved(p) /\ ~Holds(me[p])'
    BY LeaveShape, IdleTyped DEF BaseInv, Holds
  <1> QED
    BY <1>1, WorkKeep

(* A step that owns no run.                                                *)
LEMMA OwnNone ==
  ASSUME BaseInv, WorkInv, NEW p \in Processes, Moved(p), Grows,
         main' = main, branch' = branch, me'[p].pc \notin Owning
  PROVE  WorkInv'
  <1>1. OwnAt(me[p])'
    BY DEF OwnAt, Owning, Recording, Looping
  <1> QED
    BY <1>1, WorkKeep

LEMMA WorkBegin == ASSUME BaseInv, WorkInv, NEW p \in Processes, Begin(p) PROVE WorkInv'
  <1> USE DEF Owning, Recording, Looping
  <1>0. main' = main /\ branch' = branch /\ Grows
    <2>1. Unmoved
      BY DEF Begin, BeginLocked, BeginPlain, BeginDecision, TakeLock, git, workers, Unmoved
    <2> QED
      BY <2>1, UnmovedState DEF Unmoved
  <1>1. ASSUME NEW kind \in Kinds, NEW target \in Runs \union {NoRun}, NEW keep \in Keeps,
               NEW max \in Limits, BeginLocked(p, kind, target, keep, max)
        PROVE WorkInv'
    <2>1. Moved(p) /\ me'[p].pc = "guard"
      BY <1>1, BeginLockedShape DEF BaseInv
    <2> QED
      BY <1>0, <2>1, OwnNone
  <1>2. ASSUME NEW max \in Limits, BeginPlain(p, max) PROVE WorkInv'
    <2>1. Moved(p) /\ me'[p].pc = "stale"
      BY <1>2, BeginPlainShape DEF BaseInv
    <2> QED
      BY <1>0, <2>1, OwnNone
  <1>3. ASSUME NEW kind \in {"apply", "abort"}, NEW r \in Runs, BeginDecision(p, kind, r)
        PROVE WorkInv'
    <2>1. Moved(p) /\ me'[p].pc = "lock"
      BY <1>3, BeginDecisionShape DEF BaseInv
    <2> QED
      BY <1>0, <2>1, OwnNone
  <1>4. CASE TakeLock(p)
    <2>1. CASE Leave(p)
      BY <1>0, <2>1, LeaveWork
    <2>2. CASE me[p].kind \in Places /\ Goto(p, me[p].kind)
      <3>1. me[p].kind \in DecisionKinds
        BY <1>4, At_p DEF TakeLock, KindAt
      <3>2. Moved(p) /\ me'[p].pc = me[p].kind
        BY <2>2, GotoShape DEF BaseInv
      <3> QED
        BY <1>0, <3>1, <3>2, OwnNone DEF DecisionKinds
    <2> QED
      BY <1>4, <2>1, <2>2, TakeLockShape DEF BaseInv
  <1> QED
    BY <1>1, <1>2, <1>3, <1>4 DEF Begin

LEMMA GrowsStart ==
  ASSUME BaseInv, NEW p \in Processes, Start(p)
  PROVE  Grows
  <1>1. CASE manifest' = manifest
    BY <1>1 DEF Grows, Exists
  <1>2. CASE Mark(p)
    BY <1>2, MarkShape, Rewritten DEF BaseInv, TypeInv
  <1>3. CASE Create(p)
    <2> DEFINE s == Cardinality(Created) + 1
               n == Started(me[p].held, me[p].kind = "plain")
    <2>0. s \in Runs /\ n \in Manifests /\ ~Exists(s) /\ manifest' = [manifest EXCEPT ![s] = n]
      BY <1>3, CreateShape DEF BaseInv
    <2> HIDE DEF s, n
    <2>1. PICK r \in Runs, m \in Manifests : ~Exists(r) /\ manifest' = [manifest EXCEPT ![r] = m]
      BY <2>0
    <2> QED
      BY <2>1, NewlyWritten DEF BaseInv, TypeInv
  <1>4. CASE Record(p)
    <2>1. PICK m \in Manifests : /\ manifest' = [manifest EXCEPT ![me[p].run] = m]
                                 /\ me[p].run \in Runs /\ Exists(me[p].run)
      BY <1>4, RecordShape DEF BaseInv
    <2> QED
      BY <2>1, Rewritten DEF BaseInv, TypeInv
  <1>5. CASE Setup(p) /\ manifest' # manifest
    <2>1. EndFailed(p) /\ me[p].pc \in Owning
      BY <1>5, SetupShape DEF Setup, Owning, Recording
    <2>2. PICK m \in Manifests : /\ manifest' = [manifest EXCEPT ![me[p].run] = m]
                                 /\ me[p].run \in Runs /\ Exists(me[p].run)
      BY <2>1, EndFailedShape DEF BaseInv
    <2> QED
      BY <2>2, Rewritten DEF BaseInv, TypeInv
  <1> QED
    BY <1>1, <1>2, <1>3, <1>4, <1>5 DEF Start, Fresh, Resume, Review, ReadStale, NoneStale

LEMMA WorkStart == ASSUME BaseInv, WorkInv, NEW p \in Processes, Start(p) PROVE WorkInv'
  <1> USE DEF Recording, Looping, Owning
  <1>0. Grows
    BY GrowsStart
  <1>1. CASE Fresh(p) \/ Resume(p) \/ Review(p)
    <2>1. branch' = branch /\ main' = main
      BY <1>1 DEF Fresh, Resume, Review, git
    <2>2. Leave(p) \/ (Moved(p) /\ me'[p].pc \in {"stale", "create"})
      BY <1>1, FreshShape, ResumeShape, ReviewShape DEF BaseInv
    <2> QED
      BY <1>0, <2>1, <2>2, LeaveWork, OwnNone
  <1>2. CASE Mark(p)
    <2>1. Moved(p) /\ me'[p].pc = "stale" /\ branch' = branch /\ main' = main
      BY <1>2, MarkShape DEF BaseInv, Mark, git
    <2> QED
      BY <1>0, <2>1, OwnNone
  <1>3. CASE NoneStale(p)
    <2>1. Moved(p) /\ me'[p].pc = "create" /\ branch' = branch /\ main' = main
      BY <1>3, NoneStaleShape DEF BaseInv, NoneStale, git
    <2> QED
      BY <1>0, <2>1, OwnNone
  <1>4. ASSUME NEW r \in Runs, ReadStale(p, r) PROVE WorkInv'
    <2>1. Moved(p) /\ me'[p].pc = "mark" /\ branch' = branch /\ main' = main
      BY <1>4, ReadStaleShape DEF BaseInv, ReadStale, git
    <2> QED
      BY <1>0, <2>1, OwnNone
  <1>5. CASE Create(p)
    <2>1. PICK r \in Runs :
            /\ Moved(p) /\ me'[p].pc \in {"plain", "record"} /\ me'[p].run = r /\ ~Exists(r)
      BY <1>5, CreateShape DEF BaseInv
    <2>2. branch' = branch /\ main' = main
      BY <1>5 DEF Create, git
    <2>3. /\ NotBy(r, main.committed) /\ NotBy(r, main.staged)
          /\ branch # NoBranch => NotBy(r, branch.work)
      BY <2>1 DEF WorkInv, MergesInv, Known, NotBy
    <2>4. OwnAt(me[p])'
      BY <2>1, <2>2, <2>3 DEF OwnAt, NotBy
    <2> QED
      BY <1>0, <2>1, <2>2, <2>4, WorkKeep
  <1>6. CASE Record(p)
    <2>1. /\ Moved(p) /\ me[p].pc = "record" /\ me'[p].pc = "setup" /\ me'[p].run = me[p].run
          /\ branch' = branch /\ main' = main
      BY <1>6, RecordShape DEF BaseInv, Record, git
    <2>2. Holds(me[p]) /\ OwnAt(me[p])
      BY <2>1, At_p DEF KindAt, Holds, RunKinds, WorkInv
    <2>3. OwnAt(me[p])'
      BY <2>1, <2>2 DEF OwnAt, NotBy
    <2> QED
      BY <1>0, <2>1, <2>3, WorkKeep
  <1>7. CASE Setup(p)
    <2>1. /\ me[p].pc = "setup" /\ Holds(me[p]) /\ OwnAt(me[p]) /\ BranchAt(me[p]) /\ main' = main
      BY <1>7, At_p DEF Setup, KindAt, Holds, RunKinds, WorkInv
    <2>2. CASE EndFailed(p) /\ UNCHANGED branch
      BY <1>0, <2>1, <2>2, LeaveWork DEF EndFailed
    <2>3. CASE ~(EndFailed(p) /\ UNCHANGED branch)
      <3>1. /\ Moved(p) /\ me'[p].pc = "loop" /\ me'[p].run = me[p].run /\ me'[p].launched = {}
            /\ SetsUp(p) /\ branch' = StartOf(me[p])
        BY <1>7, <2>3, SetupShape
      <3>2. CASE branch' = branch
        <4>1. OwnAt(me[p])'
          <5>1. branch # NoBranch
            BY <1>7, <2>3, <3>2, SetupShape, MarksAssumption
          <5> QED
            BY <2>1, <3>1, <3>2, <5>1 DEF OwnAt, NotBy
        <4> QED
          BY <1>0, <2>1, <3>1, <3>2, <4>1, WorkKeep
      <3>3. CASE branch' # branch
        <4>1. branch' = At(main.head) /\ branch'.work = <<>> /\ branch'.base = main.head
          BY <2>1, <3>1, <3>3 DEF StartOf, SetsUp, BranchAt, At
        <4>2. OwnAt(me[p])'
          BY <2>1, <3>1, <4>1 DEF OwnAt, NotBy
        <4>3. Known(main.committed)' /\ Known(main.staged)'
          BY <1>0, <2>1, WorkTyped, KnownStill DEF WorkInv, MergesInv
        <4>4. Known(branch.work)' /\ IsInjective(branch'.work) /\ Apart(main'.committed, branch'.work)
          BY <4>1, Nothing DEF Known, IsInjective, Apart
        <4>5. branch'.base <= main'.head
          BY <2>1, <4>1, WorkTyped
        <4>6. MergesInv'
          BY <2>1, <4>3, <4>4, <4>5 DEF WorkInv, MergesInv, AppliedOnce
        <4> QED
          BY <2>1, <3>1, <4>2, <4>6, OthersOwn DEF WorkInv
      <3> QED
        BY <3>2, <3>3
    <2> QED
      BY <2>2, <2>3
  <1> QED
    BY <1>1, <1>2, <1>3, <1>4, <1>5, <1>6, <1>7 DEF Start

LEMMA WorkIntegrate ==
  ASSUME BaseInv, WorkInv, NEW p \in Processes, NEW t \in Tasks,
         NEW o \in {"merged", "unchanged", "failed"}, Integrate(p, t, o)
  PROVE  WorkInv'
  <1> USE DEF Recording, Looping, Owning
  <1>11. /\ branch' \in Commits /\ branch'.base = branch.base
        /\ branch'.work \in {branch.work, Append(branch.work, Merged(t, me[p].run))}
        /\ Merged(t, me[p].run) \in Merges
    BY IntegrateShape
  <1>12. /\ Moved(p) /\ me[p].pc \in {"loop", "integrate"} /\ me'[p].pc = "checkpoint"
        /\ t \in me[p].launched /\ me'[p].run = me[p].run
        /\ me'[p].launched = me[p].launched \ {t} /\ me'[p].left = me[p].left \ {t}
    BY IntegrateShape
  <1>1. /\ Moved(p) /\ me[p].pc \in {"loop", "integrate"} /\ me'[p].pc = "checkpoint"
        /\ t \in me[p].launched /\ me'[p].run = me[p].run
        /\ me'[p].launched = me[p].launched \ {t} /\ me'[p].left = me[p].left \ {t}
        /\ branch' \in Commits /\ branch'.base = branch.base
        /\ Merged(t, me[p].run) \in Merges
        /\ branch'.work \in {branch.work, Append(branch.work, Merged(t, me[p].run))}
    BY <1>11, <1>12
  <1>2. UNCHANGED <<manifest, main>>
    BY DEF Integrate
  <1>3. /\ Holds(me[p]) /\ OwnAt(me[p]) /\ branch \in Commits /\ branch # NoBranch
        /\ me[p].run \in Runs /\ Exists(me[p].run)
    BY <1>1, LoopFacts, MarksAssumption DEF WorkInv
  <1>4. branch.work \in Seq(Merges) /\ branch' # NoBranch
    BY <1>1, <1>3, MarksAssumption DEF Commits, Works
  <1> DEFINE e == Merged(t, me[p].run)
  <1>5. /\ \A i \in DOMAIN branch.work : branch.work[i] # e
        /\ \A i \in DOMAIN main.committed : main.committed[i] # e
    <2>1. e.task = t /\ e.run = me[p].run
      BY DEF Merged
    <2>2. t \in me[p].left
      BY <1>1, <1>3 DEF OwnAt
    <2>3. \A i \in DOMAIN branch.work : branch.work[i].run = me[p].run => branch.work[i].task # t
      BY <1>1, <1>3, <2>2 DEF OwnAt
    <2>4. \A i \in DOMAIN main.committed : main.committed[i].run # me[p].run
      BY <1>1, <1>3 DEF OwnAt, NotBy
    <2> HIDE DEF e
    <2> QED
      BY <2>1, <2>3, <2>4
  <1>6. CASE branch'.work = Append(branch.work, e)
    <2>1. e \in Merges /\ e.task = t /\ e.run = me[p].run
      BY <1>1 DEF Merged
    <2> HIDE DEF e
    <2>2. /\ DOMAIN branch'.work = 1..(Len(branch.work) + 1)
          /\ DOMAIN branch.work = 1..Len(branch.work) /\ Len(branch.work) \in Nat
          /\ \A i \in 1..Len(branch.work) : branch'.work[i] = branch.work[i]
          /\ branch'.work[Len(branch.work) + 1] = e
      BY <1>4, <1>6, <2>1
    <2>3. IsInjective(branch'.work)
      BY <1>3, <1>4, <1>5, <1>6, <2>1, InjectiveAppend DEF WorkInv, MergesInv
    <2>4. \A i \in DOMAIN branch'.work :
            (i \in DOMAIN branch.work /\ branch'.work[i] = branch.work[i]) \/ branch'.work[i] = e
      BY <2>2
    <2>5. Known(branch.work)'
      BY <1>2, <1>3, <2>1, <2>4 DEF Known, Exists, WorkInv, MergesInv
    <2>6. branch.base = main.head => Apart(main.committed, branch'.work)
      BY <1>3, <1>5, <2>4 DEF Apart, WorkInv, MergesInv
    <2>7. MergesInv'
      BY <1>1, <1>2, <1>3, <2>3, <2>5, <2>6 DEF WorkInv, MergesInv, AppliedOnce, Known, Exists
    <2>8. \A i \in DOMAIN branch'.work : branch'.work[i].run = me[p].run =>
            branch'.work[i].task \notin me[p].left \ {t}
      BY <1>1, <1>3, <2>1, <2>4 DEF OwnAt
    <2>9. OwnAt(me[p])'
      BY <1>1, <1>2, <1>3, <2>8 DEF OwnAt, NotBy
    <2> QED
      BY <1>1, <1>3, <2>7, <2>9, OthersOwn DEF WorkInv
  <1>7. CASE branch'.work = branch.work
    <2>1. branch' = branch
      BY <1>1, <1>3, <1>7 DEF Commits
    <2>2. OwnAt(me[p])'
      BY <1>1, <1>2, <1>3, <2>1 DEF OwnAt, NotBy
    <2>3. Grows
      BY <1>2 DEF Grows, Exists
    <2> QED
      BY <1>1, <1>2, <1>3, <2>1, <2>2, <2>3, WorkKeep
  <1> QED
    BY <1>1, <1>6, <1>7

LEMMA GrowsLoop ==
  ASSUME BaseInv, NEW p \in Processes, Loop(p) \/ Decision(p)
  PROVE  Grows
  <1>1. CASE manifest' = manifest
    BY <1>1 DEF Grows, Exists
  <1>2. ASSUME NEW m \in Manifests, me[p].run \in Runs, Exists(me[p].run),
               manifest' = [manifest EXCEPT ![me[p].run] = m]
        PROVE  Grows
    BY <1>2, Rewritten DEF BaseInv, TypeInv
  <1>3. ASSUME NEW t \in Tasks, Reserve(p, t) PROVE Grows
    <2>1. me[p].pc = "loop"
      BY <1>3 DEF Reserve
    <2>2. me[p].run \in Runs /\ Exists(me[p].run)
      BY <2>1, LoopFacts DEF Looping
    <2>3. PICK m \in Manifests : manifest' = [manifest EXCEPT ![me[p].run] = m]
      BY <1>3, ReserveShape
    <2> QED
      BY <1>2, <2>2, <2>3
  <1>4. CASE Checkpoint(p)
    <2>1. me[p].pc = "checkpoint" /\ manifest' = [manifest EXCEPT ![me[p].run] = me[p].next]
      BY <1>4, CheckpointShape
    <2>2. me[p].run \in Runs /\ Exists(me[p].run) /\ me[p].next \in Manifests
      BY <2>1, LoopFacts DEF Looping
    <2> QED
      BY <1>2, <2>1, <2>2
  <1>5. CASE Close(p)
    <2>1. /\ me[p].run \in Runs /\ Exists(me[p].run) /\ me[p].next \in Manifests
          /\ me[p].held \in Manifests
      BY <1>5, At_p DEF Close, KindAt, Leaving, Invocation
    <2>2. ASSUME NEW s \in {"completed", "failed", "cancelled"},
                 manifest' = [manifest EXCEPT ![me[p].run] = WithStatus(me[p].held, s)]
          PROVE  Grows
      <3>1. WithStatus(me[p].held, s) \in Manifests
        BY <2>1, WithStatusTyped DEF TerminalStatus
      <3> QED
        BY <1>2, <2>1, <2>2, <3>1
    <2>3. CASE manifest' = [manifest EXCEPT ![me[p].run] = me[p].next]
      BY <1>2, <2>1, <2>3
    <2> QED
      BY <1>5, <2>2, <2>3 DEF Close, Mine
  <1>6. CASE Throw(p)
    <2>1. EndFailed(p) /\ me[p].pc \in Owning
      BY <1>6 DEF Throw, Owning, Looping
    <2>2. PICK m \in Manifests : /\ manifest' = [manifest EXCEPT ![me[p].run] = m]
                                 /\ me[p].run \in Runs /\ Exists(me[p].run)
      BY <2>1, EndFailedShape DEF BaseInv
    <2> QED
      BY <1>2, <2>2
  <1>7. CASE WriteFails(p)
    <2>1. /\ me[p].run \in Runs /\ Exists(me[p].run) /\ me[p].next \in Manifests
          /\ me[p].held \in Manifests /\ manifest[me[p].run] \in Manifests
      BY <1>7, LoopFacts DEF WriteFails, Looping, BaseInv, TypeInv, StateTyped, Exists
    <2>2. PICK m \in Manifests : manifest' = [manifest EXCEPT ![me[p].run] = m]
      BY <1>7, <2>1, UnrecoverableTyped DEF WriteFails, Mine
    <2> QED
      BY <1>2, <2>1, <2>2
  <1>8. CASE Decide(p)
    <2>1. /\ me[p].run \in Runs /\ Exists(me[p].run) /\ me[p].next \in Manifests
          /\ manifest' = [manifest EXCEPT ![me[p].run] = me[p].next]
      BY <1>8, At_p DEF Decide, KindAt, Invocation
    <2> QED
      BY <1>2, <2>1
  <1> QED
    BY <1>1, <1>3, <1>4, <1>5, <1>6, <1>7, <1>8 DEF Loop, Decision, Integrate, Finish, Spawn,
       Apply, Abort, Clean, Prune

LEMMA WorkLoop == ASSUME BaseInv, WorkInv, NEW p \in Processes, Loop(p) PROVE WorkInv'
  <1> USE DEF Recording, Looping, Owning
  <1>0. Grows
    BY GrowsLoop
  <1>1. me[p].pc \in Looping => Holds(me[p]) /\ OwnAt(me[p])
    BY LoopFacts DEF WorkInv
  <1>2. ASSUME NEW t \in Tasks, Reserve(p, t) PROVE WorkInv'
    <2>1. /\ Moved(p) /\ me[p].pc = "loop" /\ me'[p].pc = "spawn" /\ me'[p].todo = {t}
          /\ t \in me[p].left /\ me'[p].run = me[p].run
          /\ me'[p].launched = me[p].launched /\ me'[p].left = me[p].left
      BY <1>2, ReserveShape
    <2>2. branch' = branch /\ main' = main
      BY <1>2 DEF Reserve
    <2>3. OwnAt(me[p])'
      BY <1>1, <2>1, <2>2 DEF OwnAt, NotBy
    <2> QED
      BY <1>0, <2>1, <2>2, <2>3, WorkKeep
  <1>3. CASE Spawn(p)
    <2>1. /\ Moved(p) /\ me[p].pc = "spawn" /\ me'[p].pc = "loop" /\ me'[p].run = me[p].run
          /\ me'[p].launched = me[p].launched \union me[p].todo /\ me'[p].left = me[p].left
      BY <1>3, SpawnShape
    <2>2. branch' = branch /\ main' = main
      BY <1>3 DEF Spawn, git
    <2>3. OwnAt(me[p])'
      BY <1>1, <2>1, <2>2 DEF OwnAt, NotBy
    <2> QED
      BY <1>0, <2>1, <2>2, <2>3, WorkKeep
  <1>4. CASE Checkpoint(p)
    <2>1. /\ Moved(p) /\ me[p].pc = "checkpoint" /\ me'[p].pc \in {"loop", "integrate"}
          /\ me'[p].run = me[p].run
          /\ me'[p].launched = me[p].launched /\ me'[p].left = me[p].left
      BY <1>4, CheckpointShape
    <2>2. branch' = branch /\ main' = main
      BY <1>4 DEF Checkpoint, git
    <2>3. OwnAt(me[p])'
      BY <1>1, <2>1, <2>2 DEF OwnAt, NotBy
    <2> QED
      BY <1>0, <2>1, <2>2, <2>3, WorkKeep
  <1>5. ASSUME NEW aborted \in BOOLEAN, Finish(p, aborted) PROVE WorkInv'
    <2>1. Moved(p) /\ me'[p].pc \in {"clean", "close"}
      BY <1>5, FinishShape
    <2>2. branch' = branch /\ main' = main
      BY <1>5 DEF Finish, git
    <2> QED
      BY <1>0, <2>1, <2>2, OwnNone
  <1>6. CASE Close(p) \/ Throw(p) \/ WriteFails(p)
    <2>1. Leave(p) /\ branch' = branch /\ main' = main
      BY <1>6 DEF Close, Throw, WriteFails, EndFailed, git
    <2> QED
      BY <1>0, <2>1, LeaveWork
  <1> QED
    BY <1>2, <1>3, <1>4, <1>5, <1>6, WorkIntegrate DEF Loop

LEMMA WorkDecision == ASSUME BaseInv, WorkInv, NEW p \in Processes, Decision(p) PROVE WorkInv'
  <1> USE DEF Recording, Looping, Owning
  <1>0. Grows /\ Holds(me[p]) /\ KindAt(me[p]) /\ me[p] \in Invocation
    BY GrowsLoop, At_p DEF Decision, Apply, Abort, Decide, Clean, Prune, KindAt, Holds, RunKinds,
       DecisionKinds, Leaving
  <1>1. CASE Apply(p)
    <2>1. CASE Leave(p) /\ UNCHANGED main
      BY <1>0, <1>1, <2>1, LeaveWork DEF Apply, git
    <2>2. CASE ~(Leave(p) /\ UNCHANGED main)
      <3>1. /\ Moved(p) /\ me'[p].pc = "decide" /\ AppliesCleanly(me[p].held)
            /\ main' = [main EXCEPT !.staged = branch.work]
        BY <1>1, <2>2, ApplyShape
      <3>2. branch' = branch /\ manifest' = manifest
        BY <1>1 DEF Apply, git
      <3>3. /\ branch = me[p].held.integration.tip /\ main.head = me[p].held.integration.base
            /\ me[p].held.integration \in Integrations /\ main.staged = <<>>
        BY <1>0, <1>1, <3>1 DEF AppliesCleanly, IsClean, KindAt, Apply, Manifests, Invocation
      <3>4. branch \in Commits /\ branch # NoBranch /\ branch.base >= main.head
        BY <3>3, MarksAssumption DEF Integrations
      <3>5. branch.base = main.head
        BY <3>4, WorkTyped DEF WorkInv, MergesInv
      <3>6. /\ main'.staged = branch.work /\ main'.committed = main.committed
            /\ main'.head = main.head
        BY <3>1 DEF BaseInv, TypeInv, StateTyped
      <3>7. IsInjective(main.committed)
        BY WorkTyped, InjectivePrefix DEF WorkInv, MergesInv, AppliedOnce
      <3>8. IsInjective(main.committed \o branch.work)
        BY <3>4, <3>5, <3>7, WorkTyped, InjectiveConcat DEF WorkInv, MergesInv
      <3>9. MergesInv'
        BY <3>2, <3>4, <3>6, <3>8 DEF WorkInv, MergesInv, AppliedOnce, Known, Exists
      <3>10. OwnAt(me[p])'
        BY <3>1 DEF OwnAt
      <3> QED
        BY <1>0, <3>1, <3>9, <3>10, OthersOwn DEF WorkInv
    <2> QED
      BY <2>1, <2>2
  <1>2. CASE Abort(p)
    <2>1. branch' = branch /\ main' = main
      BY <1>2 DEF Abort, git
    <2>2. Leave(p) \/ (Moved(p) /\ me'[p].pc = "clean")
      BY <1>2, AbortShape
    <2> QED
      BY <1>0, <2>1, <2>2, LeaveWork, OwnNone
  <1>3. CASE Decide(p) \/ Clean(p) \/ Prune(p)
    <2>1. main' = main /\ branch' \in {branch, NoBranch}
      BY <1>3 DEF Decide, Clean, Prune, git
    <2>2. CASE Leave(p)
      BY <1>0, <2>1, <2>2, LeaveWork
    <2>3. ASSUME NEW pc \in {"clean", "prune", "decide", "close"}, Goto(p, pc) PROVE WorkInv'
      <3>1. Moved(p) /\ me'[p].pc = pc
        BY <2>3, GotoShape DEF BaseInv, Places
      <3>2. OwnAt(me[p])'
        BY <3>1 DEF OwnAt
      <3> QED
        BY <1>0, <2>1, <3>1, <3>2, WorkKeep
    <2> QED
      BY <1>3, <2>2, <2>3 DEF Decide, Clean, Prune
  <1> QED
    BY <1>1, <1>2, <1>3 DEF Decision

(* What the user does moves merges on, or drops those that are staged.     *)
LEMMA WorkAround ==
  ASSUME BaseInv, WorkInv,
         (\E t \in Tasks : WorkerMoves(t)) \/ Commit \/ Edit \/ Discard \/ ApprovePlan
  PROVE  WorkInv'
  <1> DEFINE a == main.committed
             b == main.staged
  <1>1. UNCHANGED <<manifest, branch, me>>
    BY DEF WorkerMoves, WorkerEnds, WriteSentinel, Commit, Edit, Discard, ApprovePlan, git
  <1>2. a \in Seq(Merges) /\ b \in Seq(Merges) /\ a \o b \in Seq(Merges)
    BY WorkTyped
  <1>3. \/ main'.committed = a /\ main'.staged \in {b, <<>>} /\ main'.head = main.head
        \/ main'.committed = a \o b /\ main'.staged = <<>> /\ main'.head = main.head + 1
    <2>1. main \in [head: 0..MaxHead, committed: Works, staged: Works, dirty: BOOLEAN]
      BY DEF BaseInv, TypeInv, StateTyped
    <2>2. CASE Commit
      BY <2>2 DEF Commit
    <2>3. CASE Edit \/ Discard
      BY <2>1, <2>3 DEF Edit, Discard
    <2>4. CASE main' = main
      BY <2>4
    <2> QED
      BY <2>2, <2>3, <2>4 DEF WorkerMoves, WorkerEnds, WriteSentinel, ApprovePlan
  <1>4. Known(a) /\ Known(b) /\ IsInjective(a \o b)
    BY DEF WorkInv, MergesInv, AppliedOnce
  <1>5. Known(a \o b) /\ IsInjective(a) /\ a \o <<>> = a /\ (a \o b) \o <<>> = a \o b
    BY <1>2, <1>4, EverywhereConcat, InjectivePrefix, Nothing
  <1>6. \A r : NotBy(r, a) /\ NotBy(r, b) => NotBy(r, a \o b) /\ NotBy(r, <<>>)
    BY <1>2, EverywhereConcat, Nothing
  <1> HIDE DEF a, b
  <1>7. Known(main'.committed) /\ Known(main'.staged) /\ IsInjective(main'.committed \o main'.staged)
    BY <1>3, <1>4, <1>5, Nothing
  <1>8. branch # NoBranch => branch.base <= main'.head
                               /\ (branch.base = main'.head => Apart(main'.committed, branch.work))
    BY <1>3, WorkTyped DEF WorkInv, MergesInv, a
  <1>9. MergesInv'
    BY <1>1, <1>7, <1>8 DEF WorkInv, MergesInv, AppliedOnce, Known, Exists
  <1>10. ASSUME NEW p \in Processes, Holds(me[p]) PROVE OwnAt(me[p])'
    <2>1. OwnAt(me[p])
      BY <1>10 DEF WorkInv
    <2>2. me[p].pc \in Owning => NotBy(me[p].run, main'.committed) /\ NotBy(me[p].run, main'.staged)
      BY <1>3, <1>6, <2>1 DEF OwnAt, a, b
    <2> QED
      BY <1>1, <2>1, <2>2 DEF OwnAt, NotBy
  <1> QED
    BY <1>1, <1>9, <1>10 DEF WorkInv, Holds

(* What is on the branch was merged once, by runs there are, and is not   *)
(* in what was applied to the same HEAD; what a run may still merge is    *)
(* nowhere yet (run.ts, worktree.ts).                                     *)
THEOREM WorkInvariant == Spec => []WorkInv
  <1>1. Init => WorkInv
    BY IdleTyped, Nothing DEF Init, WorkInv, MergesInv, AppliedOnce
  <1>2. BaseInv /\ WorkInv /\ [Next]_vars => WorkInv'
    <2> SUFFICES ASSUME BaseInv, WorkInv, [Next]_vars PROVE WorkInv'
      OBVIOUS
    <2>1. CASE UNCHANGED <<manifest, branch, main, me>>
      BY <2>1 DEF WorkInv, MergesInv, AppliedOnce, Known, OwnAt, Holds, Exists, NotBy
    <2>2. ASSUME NEW p \in Processes, Crash(p) PROVE WorkInv'
      BY <2>2, LeaveWork DEF Crash, git, Grows, Exists
    <2> QED
      BY <2>1, <2>2, WorkBegin, WorkStart, WorkLoop, WorkDecision, WorkAround
      DEF Next, vars, git
  <1> QED
    BY <1>1, <1>2, BaseInvariant, PTL DEF Spec

(* No merge reaches the main worktree twice, whatever is applied, crashed  *)
(* in the middle, committed, discarded and applied again (run-parallel.ts: *)
(* "so the whole chain squashes exactly once").                            *)
THEOREM EveryMergeIsAppliedOnce == Spec => []AppliedOnce
  BY WorkInvariant, PTL DEF WorkInv, MergesInv

(***************************************************************************)
(* Chains.  Chain is a recursive function, which TLA+ has as a CHOICE: it  *)
(* has to be shown that there is one, from the order of the runs.          *)
(***************************************************************************)
Ordered(parent) ==
  /\ parent \in [Runs -> Runs \union {NoRun}]
  /\ \A r \in Runs : parent[r] # NoRun => parent[r] < r

Linked(f, parent, n) ==
  f = [r \in 1..n |-> {r} \union IF parent[r] = NoRun THEN {} ELSE f[parent[r]]]

Links(parent) == CHOOSE f : Linked(f, parent, MaxRuns)

LEMMA Least ==
  ASSUME NEW T, T \subseteq Nat, T # {}
  PROVE  \E n \in T : \A k \in T : n <= k
  <1>1. PICK n \in T : \A k \in T : <<k, n>> \notin OpToRel(<, Nat)
    BY WFMin, NatLessThanWellFounded, Zenon
  <1>2. \A k \in T : ~(k < n)
    BY <1>1, Zenon DEF OpToRel
  <1> QED
    BY <1>2

LEMMA LinksExist ==
  ASSUME NEW parent, Ordered(parent)
  PROVE  Linked(Links(parent), parent, MaxRuns)
  <1> DEFINE T == {n \in Nat : n <= MaxRuns /\ ~\E f : Linked(f, parent, n)}
  <1>0. MaxRuns \in Nat /\ Runs = 1..MaxRuns /\ NoRun = 0
    BY BoundsAssumption DEF Runs, NoRun
  <1>1. SUFFICES ASSUME MaxRuns \in T PROVE FALSE
    BY <1>0 DEF Links
  <1>2. PICK n \in T : \A k \in T : n <= k
    BY <1>1, Least
  <1>3. n # 0
    <2>1. Linked([r \in 1..0 |-> {r} \union IF parent[r] = NoRun THEN {} ELSE {}], parent, 0)
      BY DEF Linked
    <2> QED
      BY <2>1
  <1>4. n \in Nat /\ n <= MaxRuns /\ n - 1 \in Nat /\ n - 1 \notin T
    BY <1>0, <1>2, <1>3
  <1>5. PICK f : Linked(f, parent, n - 1)
    BY <1>0, <1>4
  <1> DEFINE g == [r \in 1..n |-> IF r = n
                                  THEN {n} \union (IF parent[n] = NoRun THEN {} ELSE f[parent[n]])
                                  ELSE f[r]]
  <1>6. ASSUME NEW r \in 1..n
        PROVE  g[r] = {r} \union IF parent[r] = NoRun THEN {} ELSE g[parent[r]]
    <2>1. r \in Runs /\ parent[r] \in Runs \union {NoRun} /\ (parent[r] # NoRun => parent[r] < r)
      BY <1>0, <1>4 DEF Ordered
    <2>2. parent[r] # NoRun => parent[r] \in 1..(n - 1) /\ g[parent[r]] = f[parent[r]]
      BY <1>0, <1>4, <2>1
    <2>3. CASE r = n
      BY <2>2, <2>3
    <2>4. CASE r # n
      <3>1. r \in 1..(n - 1)
        BY <1>4, <2>4
      <3>2. f[r] = {r} \union IF parent[r] = NoRun THEN {} ELSE f[parent[r]]
        BY <1>5, <3>1 DEF Linked
      <3> QED
        BY <2>2, <2>4, <3>2
    <2> QED
      BY <2>3, <2>4
  <1>7. Linked(g, parent, n)
    BY <1>6 DEF Linked
  <1> QED
    BY <1>2, <1>7

LEMMA LinksUnfold ==
  ASSUME NEW parent, Ordered(parent), NEW r \in Runs
  PROVE  /\ parent[r] = NoRun => Links(parent)[r] = {r}
         /\ parent[r] # NoRun => /\ parent[r] \in Runs /\ parent[r] < r
                                 /\ Links(parent)[r] = {r} \union Links(parent)[parent[r]]
  <1> DEFINE f == Links(parent)
  <1>1. Linked(f, parent, MaxRuns)
    BY LinksExist
  <1> HIDE DEF f
  <1>2. f[r] = {r} \union IF parent[r] = NoRun THEN {} ELSE f[parent[r]]
    BY <1>1 DEF Linked, Runs
  <1>3. parent[r] # NoRun => parent[r] \in Runs /\ parent[r] < r
    BY DEF Ordered
  <1>4. CASE parent[r] = NoRun
    BY <1>2, <1>4 DEF f
  <1>5. CASE parent[r] # NoRun
    BY <1>2, <1>3, <1>5 DEF f
  <1> QED
    BY <1>4, <1>5

(* A run is in its chain, with runs that were there before it.             *)
LEMMA LinksBelow ==
  ASSUME NEW parent, Ordered(parent)
  PROVE  \A r \in Runs : r \in Links(parent)[r] /\ Links(parent)[r] \subseteq 1..r
  <1> DEFINE f == Links(parent)
             T == {r \in Runs : ~(r \in f[r] /\ f[r] \subseteq 1..r)}
  <1>1. SUFFICES ASSUME T # {} PROVE FALSE
    OBVIOUS
  <1>10. T \subseteq Nat
    BY DEF Runs
  <1> HIDE DEF T
  <1>2. PICK r \in T : \A k \in T : r <= k
    BY <1>1, <1>10, Least
  <1> USE DEF T
  <1> HIDE DEF f
  <1>3. r \in Runs /\ r \in Nat /\ r \in 1..r
    BY <1>2 DEF Runs
  <1>4. CASE parent[r] = NoRun
    BY <1>2, <1>3, <1>4, LinksUnfold DEF f
  <1>5. CASE parent[r] # NoRun
    <2>1. parent[r] \in Runs /\ parent[r] < r /\ f[r] = {r} \union f[parent[r]]
      BY <1>3, <1>5, LinksUnfold DEF f
    <2>2. parent[r] \notin T
      BY <1>2, <1>3, <2>1 DEF Runs
    <2>3. f[parent[r]] \subseteq 1..parent[r]
      BY <2>1, <2>2
    <2>4. 1..parent[r] \subseteq 1..r
      BY <1>3, <2>1 DEF Runs
    <2> QED
      BY <1>2, <1>3, <2>1, <2>3, <2>4
  <1> QED
    BY <1>4, <1>5

(* A run that nobody continues changes no chain but its own.               *)
LEMMA LinksFrame ==
  ASSUME NEW old, NEW new, Ordered(old), Ordered(new), NEW n \in Runs,
         \A r \in Runs \ {n} : new[r] = old[r] /\ old[r] # n
  PROVE  \A r \in Runs \ {n} : Links(new)[r] = Links(old)[r]
  <1> DEFINE f == Links(old)
             g == Links(new)
             T == {r \in Runs \ {n} : g[r] # f[r]}
  <1>1. SUFFICES ASSUME T # {} PROVE FALSE
    OBVIOUS
  <1>10. T \subseteq Nat
    BY DEF Runs
  <1> HIDE DEF T
  <1>2. PICK r \in T : \A k \in T : r <= k
    BY <1>1, <1>10, Least
  <1> USE DEF T
  <1> HIDE DEF f, g
  <1>3. r \in Runs \ {n} /\ r \in Nat /\ new[r] = old[r] /\ old[r] # n
    BY <1>2 DEF Runs
  <1>4. CASE old[r] = NoRun
    BY <1>2, <1>3, <1>4, LinksUnfold DEF f, g
  <1>5. CASE old[r] # NoRun
    <2>1. /\ old[r] \in Runs /\ old[r] < r /\ f[r] = {r} \union f[old[r]]
      BY <1>3, <1>5, LinksUnfold DEF f
    <2>2. g[r] = {r} \union g[new[r]]
      BY <1>3, <1>5, LinksUnfold DEF g
    <2>3. old[r] \notin T
      BY <1>2, <1>3, <2>1 DEF Runs
    <2> QED
      BY <1>2, <1>3, <2>1, <2>2, <2>3
  <1> QED
    BY <1>4, <1>5

LEMMA ChainLinks ==
  \A r : Chain(r) = Links(history.parent)[r] /\ Chain(r)' = Links(history'.parent)[r]
  BY DEF Chain, Links, Linked, Runs

LEMMA ParentsOrdered == ASSUME BaseInv PROVE Ordered(history.parent)
  BY DEF BaseInv, TypeInv, StateTyped, Histories, RunsInv, Ordered

LEMMA ChainBelow ==
  ASSUME BaseInv
  PROVE  \A r \in Runs : r \in Chain(r) /\ Chain(r) \subseteq 1..r
  BY ParentsOrdered, LinksBelow, ChainLinks

(* The chains of the runs there are stay as they are.                      *)
ChainsKept == \A r \in Runs : Exists(r) => Chain(r)' = Chain(r)

LEMMA ChainsStill == ASSUME history'.parent = history.parent PROVE ChainsKept
  BY ChainLinks DEF ChainsKept

LEMMA ChainsGrow ==
  ASSUME BaseInv, NEW n \in Runs, ~Exists(n), Created = 1..(n - 1),
         NEW r \in Runs \union {NoRun}, r # NoRun => Exists(r),
         history'.parent = [history.parent EXCEPT ![n] = r]
  PROVE  /\ ChainsKept
         /\ r = NoRun => Chain(n)' = {n}
         /\ r # NoRun => Chain(n)' = {n} \union Chain(r)
  <1> DEFINE old == history.parent
             new == history'.parent
  <1>0. /\ \A s \in Runs : Exists(s) <=> s \in 1..(n - 1)
        /\ r # NoRun => r < n
    BY DEF Created, Runs, NoRun
  <1>1. Ordered(old) /\ old \in [Runs -> Runs \union {NoRun}]
    BY ParentsOrdered DEF Ordered
  <1>2. \A s \in Runs : old[s] # NoRun => Exists(s) /\ old[s] < s
    BY DEF BaseInv, RunsInv
  <1>3. Ordered(new)
    BY <1>0, <1>1 DEF Ordered
  <1>4. \A s \in Runs \ {n} : new[s] = old[s] /\ old[s] # n
    BY <1>0, <1>1, <1>2 DEF Runs, NoRun
  <1>5. \A s \in Runs \ {n} : Links(new)[s] = Links(old)[s]
    BY <1>1, <1>3, <1>4, LinksFrame
  <1>6. new[n] = r
    BY <1>1
  <1> HIDE DEF old, new
  <1>7. ChainsKept
    BY <1>0, <1>5, ChainLinks DEF ChainsKept, old, new
  <1>8. r = NoRun => Chain(n)' = {n}
    BY <1>3, <1>6, LinksUnfold, ChainLinks DEF new
  <1>9. r # NoRun => Chain(n)' = {n} \union Chain(r)
    <2>1. ASSUME r # NoRun PROVE r \in Runs \ {n} /\ r # n
      BY <1>0, <2>1 DEF Runs
    <2>2. ASSUME r # NoRun PROVE Links(new)[n] = {n} \union Links(new)[r]
      BY <1>3, <1>6, <2>2, LinksUnfold
    <2>3. ASSUME r # NoRun PROVE Links(new)[r] = Links(old)[r]
      BY <1>5, <2>1, <2>3
    <2> QED
      BY <2>2, <2>3, ChainLinks DEF old, new
  <1> QED
    BY <1>7, <1>8, <1>9

(***************************************************************************)
(* What a chain has merged, it does not merge again.                       *)
(***************************************************************************)
(* The tasks that the chain of r has on the branch are done.               *)
DoneOn(work, r, done) ==
  \A i \in DOMAIN work : SameChain(work[i].run, r) => work[i].task \in done

(* What can be resumed has all of its chain's work on record as done.      *)
ReadyDone(m, r) ==
  m.status = "interrupted" /\ m.safe /\ Recorded(m) =>
    Known(m.integration.tip.work) /\ DoneOn(m.integration.tip.work, r, m.done)

RecordsDone == \A r \in Runs : Exists(r) => ReadyDone(manifest[r], r)

DoneAt(m) ==
  /\ m.pc \in {"stale", "mark"} => m.kind # "resume"
  /\ m.pc = "create" /\ m.kind = "resume" /\ branch # NoBranch =>
       DoneOn(branch.work, m.target, m.held.done)
  /\ m.pc \in Recording /\ branch # NoBranch => DoneOn(branch.work, m.run, m.held.done)
  /\ m.pc \in Looping =>
       /\ DoneOn(branch.work, m.run, m.next.done)
       /\ m.left \cap m.next.done = {}
  /\ m.pc \in Looping \ {"checkpoint"} => m.next.done = m.held.done
  /\ m.kind \in RunKinds /\ m.pc \in Leaving => ReadyDone(m.next, m.run)

DoneInv == MergedOnce /\ RecordsDone /\ \A p \in Processes : Holds(me[p]) => DoneAt(me[p])

LEMMA SameChainStill ==
  ASSUME ChainsKept, NEW a \in Runs, Exists(a), NEW b \in Runs, Exists(b)
  PROVE  SameChain(a, b)' <=> SameChain(a, b)
  BY DEF SameChain, ChainsKept

LEMMA DoneOnKeep ==
  ASSUME ChainsKept, NEW work \in Seq(Merges), Known(work), NEW r \in Runs, Exists(r),
         NEW done, DoneOn(work, r, done)
  PROVE  DoneOn(work, r, done)'
  <1>0. \A i \in DOMAIN work : work[i] \in Merges
    OBVIOUS
  <1>1. \A i \in DOMAIN work : work[i].run \in Runs /\ Exists(work[i].run)
    BY <1>0 DEF Known, Merges
  <1>2. \A i \in DOMAIN work : SameChain(work[i].run, r)' <=> SameChain(work[i].run, r)
    BY <1>1, SameChainStill
  <1> QED
    BY <1>2 DEF DoneOn

LEMMA ReadyDoneKeep ==
  ASSUME Grows, ChainsKept, NEW m \in Manifests, NEW r \in Runs, Exists(r), ReadyDone(m, r)
  PROVE  ReadyDone(m, r)'
  <1> SUFFICES ASSUME m.status = "interrupted", m.safe, Recorded(m)
               PROVE  Known(m.integration.tip.work)' /\ DoneOn(m.integration.tip.work, r, m.done)'
    BY DEF ReadyDone, Recorded
  <1>1. m.integration.tip.work \in Seq(Merges)
    BY DEF Recorded, Manifests, Integrations, Commits, Works
  <1>2. Known(m.integration.tip.work) /\ DoneOn(m.integration.tip.work, r, m.done)
    BY DEF ReadyDone
  <1> QED
    BY <1>1, <1>2, KnownStill, DoneOnKeep

LEMMA UnreadyDone == \A m, r : ~Ready(m) => ReadyDone(m, r) /\ ReadyDone(m, r)'
  BY DEF Ready, ReadyDone

LEMMA RecordsWritten ==
  ASSUME BaseInv, DoneInv, Grows, ChainsKept, NEW s \in Runs, NEW m,
         manifest' = [manifest EXCEPT ![s] = m], ReadyDone(m, s)'
  PROVE  RecordsDone'
  <1> SUFFICES ASSUME NEW r \in Runs, manifest'[r] # NoManifest
               PROVE  ReadyDone(manifest[r], r)'
    BY DEF RecordsDone, Exists
  <1>1. manifest'[s] = m /\ (r # s => manifest'[r] = manifest[r])
    BY DEF BaseInv, TypeInv, StateTyped
  <1>2. CASE r = s
    BY <1>1, <1>2 DEF ReadyDone, Recorded, Known, DoneOn, Exists, SameChain
  <1>3. CASE r # s
    <2>1. Exists(r) /\ manifest[r] \in Manifests
      BY <1>1, <1>3 DEF Exists, BaseInv, TypeInv, StateTyped
    <2> DEFINE n == manifest[r]
    <2>2. n \in Manifests /\ ReadyDone(n, r) /\ manifest'[r] = n
      BY <1>1, <1>3, <2>1 DEF DoneInv, RecordsDone
    <2> HIDE DEF n
    <2>3. PICK k \in Manifests : ReadyDone(k, r) /\ manifest'[r] = k
      BY <2>2
    <2>4. ReadyDone(k, r)'
      BY <2>1, <2>3, ReadyDoneKeep
    <2> QED
      BY <2>3, <2>4 DEF ReadyDone, Recorded, Known, DoneOn, Exists, SameChain
  <1> QED
    BY <1>2, <1>3

LEMMA RecordsUnready ==
  ASSUME BaseInv, DoneInv, Grows, ChainsKept, NEW s \in Runs, NEW m, ~Ready(m),
         manifest' = [manifest EXCEPT ![s] = m]
  PROVE  RecordsDone'
  BY RecordsWritten, UnreadyDone

LEMMA RecordsSame ==
  ASSUME BaseInv, DoneInv, ChainsKept, manifest' = manifest
  PROVE  RecordsDone'
  <1> SUFFICES ASSUME NEW r \in Runs, manifest'[r] # NoManifest
               PROVE  ReadyDone(manifest[r], r)'
    BY DEF RecordsDone, Exists
  <1>1. Exists(r) /\ manifest[r] \in Manifests /\ Grows
    BY DEF Exists, Grows, BaseInv, TypeInv, StateTyped
  <1>2. PICK k \in Manifests : ReadyDone(k, r) /\ manifest'[r] = k
    BY <1>1 DEF DoneInv, RecordsDone
  <1>3. ReadyDone(k, r)'
    BY <1>1, <1>2, ReadyDoneKeep
  <1> QED
    BY <1>2, <1>3 DEF ReadyDone, Recorded, Known, DoneOn, Exists, SameChain

LEMMA MergedOnceKeep ==
  ASSUME BaseInv, WorkInv, DoneInv, ChainsKept, branch' \in {branch, NoBranch}
  PROVE  MergedOnce'
  <1> SUFFICES ASSUME branch # NoBranch, branch' = branch PROVE MergedOnce'
    BY DEF MergedOnce
  <1>0. \A i \in DOMAIN branch.work : branch.work[i] \in Merges
    BY WorkTyped
  <1>1. \A i \in DOMAIN branch.work : branch.work[i].run \in Runs /\ Exists(branch.work[i].run)
    BY <1>0 DEF WorkInv, MergesInv, Known, Merges
  <1>2. \A i, j \in DOMAIN branch.work :
          SameChain(branch.work[i].run, branch.work[j].run)'
            <=> SameChain(branch.work[i].run, branch.work[j].run)
    BY <1>1, SameChainStill
  <1> QED
    BY <1>2 DEF MergedOnce, DoneInv

LEMMA DoneKeep ==
  ASSUME BaseInv, WorkInv, DoneInv, NEW p \in Processes, Moved(p), Grows, ChainsKept,
         RecordsDone', MergedOnce',
         Holds(me[p]) \/ lock = Nobody \/ branch' = branch,
         Holds(me[p])' => DoneAt(me[p])'
  PROVE  DoneInv'
  <1> SUFFICES ASSUME NEW q \in Processes, q # p, Holds(me[q])' PROVE DoneAt(me[q])'
    BY DEF DoneInv
  <1>1. me'[q] = me[q] /\ Holds(me[q])
    BY DEF Moved, Others, Holds
  <1>2. branch' = branch
    BY <1>1, Alone
  <1>3. me[q] \in Invocation /\ KindAt(me[q]) /\ DoneAt(me[q])
    BY <1>1, At_p DEF DoneInv
  <1>4. branch # NoBranch => branch.work \in Seq(Merges) /\ Known(branch.work)
    BY WorkTyped DEF WorkInv, MergesInv
  <1>5. me[q].pc = "create" /\ me[q].kind = "resume" => me[q].target \in Runs /\ Exists(me[q].target)
    BY <1>3 DEF KindAt, Invocation
  <1>6. me[q].pc \in Owning \union Leaving => me[q].run \in Runs /\ Exists(me[q].run)
    BY <1>3 DEF KindAt, Invocation
  <1>7. me[q].pc \in Leaving => me[q].next \in Manifests
    BY <1>3 DEF KindAt, Invocation
  <1>8. me[q].pc \in Looping => branch # NoBranch
    BY <1>1, At_p DEF BranchAt
  <1> DEFINE m == me[q]
  <1>9. me'[q] = m /\ m.pc = me[q].pc
    BY <1>1
  <1>10. me[q].pc = "create" /\ me[q].kind = "resume" /\ branch # NoBranch =>
           DoneOn(branch.work, me[q].target, me[q].held.done)'
    BY <1>1, <1>2, <1>3, <1>4, <1>5, DoneOnKeep DEF DoneAt
  <1>11. me[q].pc \in Recording /\ branch # NoBranch =>
           DoneOn(branch.work, me[q].run, me[q].held.done)'
    BY <1>1, <1>2, <1>3, <1>4, <1>6, DoneOnKeep DEF DoneAt, Owning
  <1>12. me[q].pc \in Looping => DoneOn(branch.work, me[q].run, me[q].next.done)'
    BY <1>1, <1>2, <1>3, <1>4, <1>6, <1>8, DoneOnKeep DEF DoneAt, Owning
  <1>13. me[q].kind \in RunKinds /\ me[q].pc \in Leaving => ReadyDone(me[q].next, me[q].run)'
    BY <1>1, <1>3, <1>6, <1>7, ReadyDoneKeep DEF DoneAt
  <1> HIDE DEF m
  <1> QED
    BY <1>1, <1>2, <1>3, <1>10, <1>11, <1>12, <1>13 DEF DoneAt

LEMMA LeaveDone ==
  ASSUME BaseInv, WorkInv, DoneInv, NEW p \in Processes, Leave(p), Grows, ChainsKept,
         RecordsDone', branch' \in {branch, NoBranch}, Holds(me[p]) \/ branch' = branch
  PROVE  DoneInv'
  <1>1. Moved(p) /\ ~Holds(me[p])'
    BY LeaveShape, IdleTyped DEF BaseInv, Holds
  <1> QED
    BY <1>1, DoneKeep, MergedOnceKeep

(* A step into a place of no consequence.                                  *)
LEMMA DoneNone ==
  ASSUME BaseInv, WorkInv, DoneInv, NEW p \in Processes, Moved(p), Grows, ChainsKept,
         RecordsDone', branch' = branch, me'[p].pc \notin Owning,
         me'[p].pc \in Leaving => me'[p].kind \notin RunKinds,
         me'[p].pc \in {"stale", "mark", "create"} => me'[p].kind # "resume"
  PROVE  DoneInv'
  <1>1. DoneAt(me[p])'
    BY DEF DoneAt, Owning
  <1> QED
    BY <1>1, DoneKeep, MergedOnceKeep

LEMMA DoneBegin == ASSUME BaseInv, WorkInv, DoneInv, NEW p \in Processes, Begin(p) PROVE DoneInv'
  <1> USE DEF Owning, Recording, Looping, Leaving
  <1>0. manifest' = manifest /\ branch' = branch /\ history' = history /\ Grows
    <2>1. Unmoved
      BY DEF Begin, BeginLocked, BeginPlain, BeginDecision, TakeLock, git, workers, Unmoved
    <2> QED
      BY <2>1, UnmovedState DEF Unmoved, git
  <1>01. ChainsKept /\ RecordsDone'
    BY <1>0, ChainsStill, RecordsSame
  <1>1. ASSUME NEW kind \in Kinds, NEW target \in Runs \union {NoRun}, NEW keep \in Keeps,
               NEW max \in Limits, BeginLocked(p, kind, target, keep, max)
        PROVE DoneInv'
    <2>1. Moved(p) /\ me'[p].pc = "guard"
      BY <1>1, BeginLockedShape DEF BaseInv
    <2> QED
      BY <1>0, <1>01, <2>1, DoneNone
  <1>2. ASSUME NEW max \in Limits, BeginPlain(p, max) PROVE DoneInv'
    <2>1. Moved(p) /\ me'[p].pc = "stale" /\ me'[p].kind = "plain"
      BY <1>2, BeginPlainShape DEF BaseInv
    <2> QED
      BY <1>0, <1>01, <2>1, DoneNone
  <1>3. ASSUME NEW kind \in {"apply", "abort"}, NEW r \in Runs, BeginDecision(p, kind, r)
        PROVE DoneInv'
    <2>1. Moved(p) /\ me'[p].pc = "lock"
      BY <1>3, BeginDecisionShape DEF BaseInv
    <2> QED
      BY <1>0, <1>01, <2>1, DoneNone
  <1>4. CASE TakeLock(p)
    <2>1. CASE Leave(p)
      BY <1>0, <1>01, <2>1, LeaveDone
    <2>2. CASE me[p].kind \in Places /\ Goto(p, me[p].kind)
      <3>1. me[p].kind \in DecisionKinds
        BY <1>4, At_p DEF TakeLock, KindAt
      <3>2. Moved(p) /\ me'[p].pc = me[p].kind
        BY <2>2, GotoShape DEF BaseInv
      <3> QED
        BY <1>0, <1>01, <3>1, <3>2, DoneNone DEF DecisionKinds
    <2> QED
      BY <1>4, <2>1, <2>2, TakeLockShape DEF BaseInv
  <1> QED
    BY <1>1, <1>2, <1>3, <1>4 DEF Begin

(* Only a run that is created changes what continues what.                 *)
LEMMA ParentsKept ==
  ASSUME BaseInv, NEW p \in Processes, (Start(p) /\ ~Create(p)) \/ Loop(p) \/ Decision(p)
  PROVE  history'.parent = history.parent
  <1>1. CASE history' = history
    BY <1>1
  <1>2. CASE Setup(p)
    BY <1>2, SetupShape
  <1>3. CASE Spawn(p)
    BY <1>3, SpawnShape
  <1>4. ASSUME NEW t \in Tasks, NEW o \in {"merged", "unchanged", "failed"}, Integrate(p, t, o)
        PROVE  history'.parent = history.parent
    BY <1>4, IntegrateShape
  <1> QED
    BY <1>1, <1>2, <1>3, <1>4 DEF Start, Fresh, Resume, Review, Mark, NoneStale, ReadStale, Record,
       Loop, Reserve, Finish, Checkpoint, Close, Throw, WriteFails,
       Decision, Apply, Abort, Decide, Clean, Prune

(* The run n that a command has just created, with its manifest m, and the *)
(* run s that it continues.                                                *)
NewRun(p, n, m, s) ==
  /\ Moved(p) /\ SameCommand(p) /\ me[p].pc = "create"
  /\ me'[p].pc = (IF me[p].kind = "plain" THEN "plain" ELSE "record")
  /\ me'[p].run = n /\ me'[p].held = m /\ me'[p].next = m
  /\ me[p].held \in Manifests /\ m = Started(me[p].held, me[p].kind = "plain")
  /\ ~Exists(n) /\ Created = 1..(n - 1) /\ manifest' = [manifest EXCEPT ![n] = m]
  /\ s = (IF me[p].kind = "resume" THEN me[p].target ELSE NoRun)
  /\ history'.parent = [history.parent EXCEPT ![n] = s]
  /\ history'.finished = history.finished /\ history'.spawned = history.spawned

LEMMA NewRunFacts ==
  ASSUME BaseInv, NEW p \in Processes, Create(p)
  PROVE  \E n \in Runs, m \in Manifests, s \in Runs \union {NoRun} : NewRun(p, n, m, s)
  <1> DEFINE n == Cardinality(Created) + 1
             m == Started(me[p].held, me[p].kind = "plain")
             s == IF me[p].kind = "resume" THEN me[p].target ELSE NoRun
  <1>1. /\ Moved(p) /\ SameCommand(p) /\ me[p].pc = "create"
        /\ me'[p].pc = (IF me[p].kind = "plain" THEN "plain" ELSE "record")
        /\ me'[p].run = n /\ me'[p].held = m /\ me'[p].next = m
        /\ n \in Runs /\ ~Exists(n) /\ Created = 1..(n - 1) /\ me[p].held \in Manifests
        /\ m \in Manifests /\ manifest' = [manifest EXCEPT ![n] = m]
        /\ history'.parent = [history.parent EXCEPT ![n] = s]
        /\ history'.finished = history.finished /\ history'.spawned = history.spawned
    BY CreateShape DEF BaseInv
  <1>2. s \in Runs \union {NoRun}
    BY At_p DEF Invocation
  <1>3. s = (IF me[p].kind = "resume" THEN me[p].target ELSE NoRun)
        /\ m = Started(me[p].held, me[p].kind = "plain")
    OBVIOUS
  <1> HIDE DEF n, m, s
  <1>4. NewRun(p, n, m, s)
    BY <1>1, <1>3 DEF NewRun
  <1>5. n \in Runs /\ m \in Manifests
    BY <1>1
  <1> QED
    BY <1>2, <1>4, <1>5, Zenon

(* A new run has merged nothing; what a run it continues has, it has done. *)
LEMMA DoneCreate ==
  ASSUME BaseInv, ReadyInv, WorkInv, DoneInv, NEW p \in Processes, Create(p)
  PROVE  DoneInv'
  <1> USE DEF Recording, Looping, Owning, Leaving
  <1>10. PICK n \in Runs, m \in Manifests, s \in Runs \union {NoRun} : NewRun(p, n, m, s)
    BY NewRunFacts
  <1>11. m.done = me[p].held.done /\ m.status \in {"starting", "running"}
    <2> DEFINE plain == me[p].kind = "plain"
    <2>1. plain \in BOOLEAN /\ me[p].held \in Manifests /\ m = Started(me[p].held, plain)
      BY <1>10 DEF NewRun
    <2> HIDE DEF plain
    <2> QED
      BY <2>1, StartedTyped
  <1>1. /\ Moved(p) /\ me[p].pc = "create" /\ me'[p].pc \in {"plain", "record"}
        /\ (me'[p].pc = "plain" <=> me[p].kind = "plain")
        /\ me'[p].kind = me[p].kind /\ me'[p].run = n /\ me'[p].held = m
        /\ m.done = me[p].held.done /\ m.status \in {"starting", "running"}
        /\ ~Exists(n) /\ Created = 1..(n - 1) /\ manifest' = [manifest EXCEPT ![n] = m]
        /\ s = (IF me[p].kind = "resume" THEN me[p].target ELSE NoRun)
        /\ history'.parent = [history.parent EXCEPT ![n] = s]
    BY <1>10, <1>11 DEF NewRun, SameCommand
  <1>2. s # NoRun => me[p].kind = "resume" /\ s = me[p].target /\ Exists(s)
    BY <1>1, At_p DEF KindAt
  <1>3. /\ ChainsKept
        /\ s = NoRun => Chain(n)' = {n}
        /\ s # NoRun => Chain(n)' = {n} \union Chain(s)
    BY <1>1, <1>2, ChainsGrow
  <1>4. Grows
    BY <1>1, GrowsStart DEF Start
  <1>5. branch' = branch
    BY DEF Create, git
  <1>6. RecordsDone'
    BY <1>1, <1>3, <1>4, RecordsUnready DEF Ready
  <1>7. ASSUME NEW r \in Runs, Exists(r)
        PROVE  SameChain(r, n)' => s # NoRun /\ SameChain(r, s)
    <2>1. Chain(r)' = Chain(r) /\ Chain(r) \subseteq 1..r
      BY <1>3, <1>7, ChainBelow DEF ChainsKept
    <2>2. n \notin Chain(r)
      <3>1. r \in 1..(n - 1)
        BY <1>1, <1>7 DEF Created
      <3> QED
        BY <2>1, <3>1 DEF Runs
    <2> QED
      BY <1>3, <2>1, <2>2 DEF SameChain
  <1>8. ASSUME me[p].kind # "plain", branch # NoBranch
        PROVE  DoneOn(branch.work, n, m.done)'
    <2>1. Holds(me[p]) /\ DoneAt(me[p])
      BY <1>1, <1>8 DEF Holds, DoneInv
    <2>2. \A i \in DOMAIN branch.work : branch.work[i] \in Merges
      BY <1>8, WorkTyped
    <2>3. \A i \in DOMAIN branch.work : branch.work[i].run \in Runs /\ Exists(branch.work[i].run)
      BY <1>8, <2>2 DEF WorkInv, MergesInv, Known, Merges
    <2>4. s # NoRun => DoneOn(branch.work, s, m.done)
      BY <1>1, <1>2, <1>8, <2>1 DEF DoneAt
    <2>5. \A i \in DOMAIN branch.work :
            SameChain(branch.work[i].run, n)' => branch.work[i].task \in m.done
      BY <1>5, <1>7, <2>3, <2>4 DEF DoneOn
    <2> QED
      BY <1>5, <2>5 DEF DoneOn
  <1>9. Holds(me[p])' => DoneAt(me[p])'
    <2> SUFFICES ASSUME Holds(me[p])' PROVE DoneAt(me[p])'
      OBVIOUS
    <2>1. me[p].kind # "plain" /\ me'[p].pc = "record"
      BY <1>1 DEF Holds
    <2> QED
      BY <1>1, <1>5, <1>8, <2>1 DEF DoneAt
  <1> QED
    BY <1>1, <1>3, <1>4, <1>5, <1>6, <1>9, DoneKeep, MergedOnceKeep

LEMMA DoneStart ==
  ASSUME BaseInv, ReadyInv, WorkInv, DoneInv, NEW p \in Processes, Start(p)
  PROVE  DoneInv'
  <1> USE DEF Recording, Looping, Owning, Leaving
  <1>0. Grows /\ (~Create(p) => ChainsKept)
    BY GrowsStart, ParentsKept, ChainsStill
  <1>00. me[p].pc \in {"stale", "mark"} => me[p].kind # "resume"
    BY DEF DoneInv, DoneAt, Holds
  <1>1. CASE Fresh(p) \/ Review(p)
    <2>1. branch' = branch /\ manifest' = manifest /\ history' = history
      BY <1>1 DEF Fresh, Review, git
    <2>2. Leave(p) \/ (Moved(p) /\ me'[p].pc = "stale" /\ me'[p].kind # "resume")
      BY <1>1, FreshShape, ReviewShape DEF BaseInv, SameCommand, Fresh, Review
    <2>3. ChainsKept /\ RecordsDone'
      BY <2>1, ChainsStill, RecordsSame
    <2> QED
      BY <1>0, <2>1, <2>2, <2>3, LeaveDone, DoneNone
  <1>2. CASE Resume(p)
    <2>1. branch' = branch /\ manifest' = manifest /\ history' = history
      BY <1>2 DEF Resume, git
    <2>2. ChainsKept /\ RecordsDone'
      BY <2>1, ChainsStill, RecordsSame
    <2>3. CASE Leave(p)
      BY <1>0, <2>1, <2>2, <2>3, LeaveDone
    <2>4. CASE ~Leave(p)
      <3> DEFINE r == me[p].target
                 k == manifest[r]
      <3>1. /\ Moved(p) /\ me'[p].pc = "create" /\ me'[p].target = r
            /\ ResumeGuards(k, me[p].held.plan)
            /\ me'[p].held = Inherited(k, me[p].held)
        BY <1>2, <2>4, ResumeShape DEF BaseInv, SameCommand
      <3>2. me[p].held \in Manifests /\ r \in Runs /\ Exists(r) /\ k \in Manifests
        BY <1>2, At_p DEF Resume, KindAt, Invocation, BaseInv, TypeInv, StateTyped, Exists
      <3>3. me'[p].held.done = k.done
        BY <3>1, <3>2, InheritedTyped
      <3>4. /\ branch = k.integration.tip /\ ReadyDone(k, r)
            /\ k.status = "interrupted" /\ k.safe /\ Recorded(k)
        BY <3>1, <3>2 DEF ResumeGuards, DoneInv, RecordsDone
      <3>5. Known(branch.work) /\ DoneOn(branch.work, r, k.done)
        BY <3>4 DEF ReadyDone
      <3>6. branch # NoBranch
        BY <3>2, <3>4, MarksAssumption DEF Recorded, Manifests, Integrations
      <3>7. branch.work \in Seq(Merges)
        BY <3>6, WorkTyped
      <3> HIDE DEF r, k
      <3>8. PICK x \in Runs, done \in SUBSET Tasks :
              /\ Exists(x) /\ DoneOn(branch.work, x, done)
              /\ me'[p].target = x /\ me'[p].held.done = done
        BY <3>1, <3>2, <3>3, <3>5 DEF Manifests
      <3>9. DoneOn(branch.work, x, done)'
        BY <2>1, <2>2, <3>5, <3>7, <3>8, DoneOnKeep
      <3>10. DoneAt(me[p])'
        BY <3>1, <3>8, <3>9 DEF DoneAt
      <3> QED
        BY <1>0, <2>1, <2>2, <3>1, <3>10, DoneKeep, MergedOnceKeep
    <2> QED
      BY <2>3, <2>4
  <1>3. CASE Mark(p)
    <2>1. /\ Moved(p) /\ me[p].pc = "mark" /\ me'[p].pc = "stale" /\ me[p].run \in Runs
          /\ manifest' = [manifest EXCEPT ![me[p].run] = me[p].next]
          /\ me'[p].kind = me[p].kind
      BY <1>3, MarkShape DEF BaseInv, SameCommand
    <2>2. ~Ready(me[p].next) /\ branch' = branch /\ history' = history
      BY <1>3, <2>1 DEF ReadyInv, MarkAt, Mark, git
    <2>3. ChainsKept
      BY <2>2, ChainsStill
    <2>4. RecordsDone'
      BY <1>0, <2>1, <2>2, <2>3, RecordsUnready
    <2> QED
      BY <1>0, <1>00, <2>1, <2>2, <2>3, <2>4, DoneNone
  <1>4. ASSUME NEW r \in Runs, ReadStale(p, r) PROVE DoneInv'
    <2>1. /\ Moved(p) /\ SameCommand(p) /\ me[p].pc = "stale" /\ me'[p].pc = "mark"
          /\ branch' = branch /\ manifest' = manifest /\ history' = history
      BY <1>4, ReadStaleShape DEF BaseInv, ReadStale, git
    <2>2. me'[p].kind # "resume"
      BY <1>00, <2>1 DEF SameCommand
    <2> QED
      BY <1>0, <2>2, <2>1, DoneNone, ChainsStill, RecordsSame
  <1>5. CASE NoneStale(p)
    <2>1. /\ Moved(p) /\ SameCommand(p) /\ me[p].pc = "stale" /\ me'[p].pc = "create"
          /\ branch' = branch /\ manifest' = manifest /\ history' = history
      BY <1>5, NoneStaleShape DEF BaseInv, NoneStale, git
    <2>2. me[p].kind # "resume"
      BY <1>00, <2>1
    <2> QED
      BY <1>0, <2>1, <2>2, DoneNone, ChainsStill, RecordsSame DEF SameCommand
  <1>6. CASE Record(p)
    <2> DEFINE n == WithIntegration(me[p].held, me[p].from, main.head)
    <2>0. /\ Moved(p) /\ me[p].pc = "record" /\ me'[p].pc = "setup" /\ me'[p].run = me[p].run
          /\ me[p].run \in Runs /\ me'[p].held = n
          /\ me[p].held \in Manifests /\ me[p].from \in Integrations \union {NoIntegration}
          /\ main.head \in 0..MaxHead
          /\ manifest' = [manifest EXCEPT ![me[p].run] = n]
      BY <1>6, RecordShape DEF BaseInv
    <2>00. n.status = "running" /\ n.done = me[p].held.done
      BY <2>0, WithIntegrationTyped
    <2> HIDE DEF n
    <2>1. branch' = branch /\ history' = history
      BY <1>6 DEF Record, git
    <2>2. ChainsKept
      BY <2>1, ChainsStill
    <2>3. RecordsDone'
      BY <1>0, <2>0, <2>00, <2>2, RecordsUnready DEF Ready
    <2>4. Holds(me[p]) /\ DoneAt(me[p]) /\ Exists(me[p].run)
      BY <2>0, At_p DEF KindAt, Holds, RunKinds, DoneInv
    <2>5. branch # NoBranch => DoneOn(branch.work, me[p].run, me[p].held.done)
                                 /\ branch.work \in Seq(Merges) /\ Known(branch.work)
      BY <2>0, <2>4, WorkTyped DEF DoneAt, WorkInv, MergesInv
    <2>6. branch # NoBranch => DoneOn(branch.work, me[p].run, me[p].held.done)'
      <3>1. PICK x \in Runs, done \in SUBSET Tasks :
              /\ x = me[p].run /\ me'[p].run = x /\ done = me[p].held.done /\ me'[p].held.done = done
              /\ Exists(x)
        BY <2>0, <2>00, <2>4 DEF Manifests
      <3>2. branch # NoBranch => DoneOn(branch.work, x, done)'
        BY <2>1, <2>2, <2>5, <3>1, DoneOnKeep
      <3> QED
        BY <2>0, <2>00, <2>1, <3>1, <3>2 DEF DoneOn
    <2>7. DoneAt(me[p])'
      BY <2>0, <2>00, <2>1, <2>6 DEF DoneAt, DoneOn
    <2> QED
      BY <1>0, <2>0, <2>1, <2>2, <2>3, <2>4, <2>7, DoneKeep, MergedOnceKeep
  <1>7. CASE Setup(p)
    <2>0. /\ me[p].pc = "setup" /\ Holds(me[p]) /\ DoneAt(me[p]) /\ BranchAt(me[p])
          /\ me[p].run \in Runs /\ Exists(me[p].run) /\ ChainsKept /\ me[p].held \in Manifests
      BY <1>0, <1>7, At_p DEF Setup, KindAt, Holds, RunKinds, DoneInv, Create, Invocation
    <2>1. CASE EndFailed(p) /\ UNCHANGED branch
      <3>1. PICK m : ~Ready(m) /\ manifest' = [manifest EXCEPT ![me[p].run] = m]
        BY <2>0, <2>1, EndFailedShape, WithStatusTyped DEF BaseInv, Ready, TerminalStatus
      <3>2. RecordsDone'
        BY <1>0, <2>0, <3>1, RecordsUnready
      <3> QED
        BY <1>0, <2>0, <2>1, <3>2, LeaveDone DEF EndFailed
    <2>2. CASE ~(EndFailed(p) /\ UNCHANGED branch)
      <3>1. /\ Moved(p) /\ manifest' = manifest /\ me'[p].pc = "loop" /\ me'[p].run = me[p].run
            /\ SetsUp(p) /\ branch' = StartOf(me[p]) /\ me'[p].held = me[p].held
            /\ me'[p].left = TasksOf[me[p].held.plan] \ me[p].held.done
            /\ me'[p].next = me[p].next
        BY <1>7, <2>2, SetupShape
      <3>2. me[p].next = me[p].held
        BY <2>0 DEF BranchAt
      <3>3. RecordsDone'
        BY <2>0, <3>1, RecordsSame
      <3>4. PICK x \in Runs, done \in SUBSET Tasks : x = me[p].run /\ done = me[p].held.done /\ Exists(x)
        BY <2>0 DEF Manifests
      <3>5. DoneOn(branch.work, x, done)' /\ MergedOnce'
        <4>1. CASE branch' = branch
          <5>1. branch # NoBranch
            BY <1>7, <2>2, <4>1, SetupShape, MarksAssumption
          <5>2. DoneOn(branch.work, x, done) /\ branch.work \in Seq(Merges) /\ Known(branch.work)
            BY <2>0, <3>4, <5>1, WorkTyped DEF DoneAt, WorkInv, MergesInv
          <5>3. DoneOn(branch.work, x, done)'
            BY <2>0, <3>4, <4>1, <5>2, DoneOnKeep
          <5> QED
            BY <2>0, <4>1, <5>3, MergedOnceKeep
        <4>2. CASE branch' # branch
          <5>1. branch'.work = <<>>
            BY <2>0, <3>1, <4>2 DEF StartOf, SetsUp, BranchAt, At
          <5> QED
            BY <5>1 DEF DoneOn, MergedOnce
        <4> QED
          BY <4>1, <4>2
      <3>6. DoneAt(me[p])'
        BY <3>1, <3>2, <3>4, <3>5 DEF DoneAt, DoneOn
      <3> QED
        BY <1>0, <2>0, <3>1, <3>3, <3>5, <3>6, DoneKeep
    <2> QED
      BY <2>1, <2>2
  <1> QED
    BY <1>1, <1>2, <1>3, <1>4, <1>5, <1>6, <1>7, DoneCreate DEF Start

(* A task is merged when it is left, and what is left is not done.         *)
LEMMA DoneIntegrate ==
  ASSUME BaseInv, WorkInv, DoneInv, NEW p \in Processes, NEW t \in Tasks,
         NEW o \in {"merged", "unchanged", "failed"}, Integrate(p, t, o)
  PROVE  DoneInv'
  <1> USE DEF Recording, Looping, Owning, Leaving
  <1> DEFINE n == Checkpointed(me[p].held, DoneBy(t, o))
  <1>1. /\ Moved(p) /\ me[p].pc \in {"loop", "integrate"} /\ me'[p].pc = "checkpoint"
        /\ t \in me[p].launched /\ me'[p].run = me[p].run
        /\ me'[p].left = me[p].left \ {t} /\ me'[p].next = n
        /\ n.done = me[p].held.done \union DoneBy(t, o)
        /\ history'.parent = history.parent
    BY IntegrateShape
  <1>2. /\ branch'.work \in {branch.work, Append(branch.work, Merged(t, me[p].run))}
        /\ o # "merged" => branch'.work = branch.work
    <2>1. branch' \in Commits
          /\ branch'.work \in {branch.work, Append(branch.work, Merged(t, me[p].run))}
      BY IntegrateShape
    <2>2. o # "merged" => branch' = branch
      BY DEF Integrate
    <2> QED
      BY <2>1, <2>2
  <1>20. o = "merged" => DoneBy(t, o) = {t}
    BY DEF DoneBy
  <1>21. DoneBy(t, o) \subseteq {t}
    BY DEF DoneBy
  <1>3. manifest' = manifest /\ Grows
    BY DEF Integrate, Grows, Exists
  <1>4. /\ Holds(me[p]) /\ OwnAt(me[p]) /\ DoneAt(me[p]) /\ branch \in Commits
        /\ branch # NoBranch /\ me[p].run \in Runs /\ Exists(me[p].run)
    BY <1>1, LoopFacts, MarksAssumption DEF WorkInv, DoneInv
  <1>5. branch.work \in Seq(Merges) /\ Known(branch.work)
    BY <1>4, WorkTyped DEF WorkInv, MergesInv
  <1> HIDE DEF n
  <1>6. ChainsKept /\ RecordsDone'
    BY <1>1, <1>3, ChainsStill, RecordsSame
  <1>70. /\ me[p].held.done \in SUBSET Tasks /\ me[p].next.done \in SUBSET Tasks
         /\ me'[p].next.done \in SUBSET Tasks
         /\ me'[p].next.done = me[p].held.done \union DoneBy(t, o)
         /\ branch'.work \in Seq(Merges) /\ branch.work \in Seq(Merges)
    <2>1. Merged(t, me[p].run) \in Merges
      BY IntegrateShape
    <2>2. me[p].held \in Manifests /\ me[p].next \in Manifests
      BY <1>1, LoopFacts
    <2>3. Append(branch.work, Merged(t, me[p].run)) \in Seq(Merges)
      BY <1>5, <2>1
    <2>4. me[p].held.done \in SUBSET Tasks /\ me[p].next.done \in SUBSET Tasks
      BY <2>2 DEF Manifests
    <2>5. me'[p].next.done = me[p].held.done \union DoneBy(t, o)
      BY <1>1
    <2> QED
      BY <1>2, <1>21, <1>5, <2>3, <2>4, <2>5
  <1>7. PICK x \in Runs, done \in SUBSET Tasks, new \in SUBSET Tasks,
             s \in Seq(Merges), b \in Seq(Merges) :
          /\ x = me[p].run /\ Exists(x) /\ x = me'[p].run
          /\ done = me[p].held.done /\ new = done \union DoneBy(t, o) /\ new = me'[p].next.done
          /\ s = branch.work /\ b = branch'.work
    BY <1>1, <1>4, <1>70
  <1>8. DoneOn(s, x, done) /\ Known(s) /\ me[p].next.done = done
    BY <1>1, <1>4, <1>5, <1>7 DEF DoneAt
  <1>9. DoneOn(s, x, done)'
    BY <1>6, <1>7, <1>8, DoneOnKeep
  <1>10. /\ DOMAIN s = 1..Len(s) /\ Len(s) \in Nat
         /\ \A i \in DOMAIN s : s[i] \in Merges /\ s[i].run \in Runs /\ Exists(s[i].run)
    <2>1. \A i \in DOMAIN s : s[i] \in Merges
      OBVIOUS
    <2> QED
      BY <1>8, <2>1 DEF Known, Merges
  <1>11. \A i, j \in DOMAIN s :
           /\ i # j /\ s[i].task = s[j].task => ~SameChain(s[i].run, s[j].run)'
    <2>1. \A i, j \in DOMAIN s : SameChain(s[i].run, s[j].run)' <=> SameChain(s[i].run, s[j].run)
      BY <1>6, <1>10, SameChainStill
    <2> QED
      BY <1>4, <1>7, <2>1 DEF DoneInv, MergedOnce
  <1>12. DoneOn(b, x, new)' /\ \A i, j \in DOMAIN b :
           i # j /\ b[i].task = b[j].task => ~SameChain(b[i].run, b[j].run)'
    <2>1. CASE b = s
      BY <1>7, <1>9, <1>11, <2>1 DEF DoneOn
    <2>2. CASE o = "merged" /\ b = Append(s, Merged(t, x))
      <3>1. /\ DOMAIN b = 1..(Len(s) + 1) /\ b[Len(s) + 1] = Merged(t, x)
            /\ \A i \in DOMAIN s : b[i] = s[i]
        BY <1>10, <2>2
      <3>2. Merged(t, x).task = t /\ Merged(t, x).run = x
        BY DEF Merged
      <3>3. t \notin done /\ new = done \union {t}
        BY <1>1, <1>4, <1>7, <1>8, <1>20, <2>2 DEF DoneAt, OwnAt
      <3>4. \A i \in DOMAIN s : SameChain(s[i].run, x)' => s[i].task # t
        BY <1>9, <3>3 DEF DoneOn
      <3>5. \A i \in DOMAIN s : SameChain(x, s[i].run)' => SameChain(s[i].run, x)'
        BY DEF SameChain
      <3>6. \A i \in DOMAIN b : i \in DOMAIN s \/ i = Len(s) + 1
        BY <1>10, <3>1
      <3>7. DoneOn(b, x, new)'
        BY <1>9, <3>1, <3>2, <3>3, <3>6 DEF DoneOn
      <3>8. ASSUME NEW i \in DOMAIN b, NEW j \in DOMAIN b, i # j, b[i].task = b[j].task
            PROVE  ~SameChain(b[i].run, b[j].run)'
        <4>1. CASE i \in DOMAIN s /\ j \in DOMAIN s
          BY <1>11, <3>1, <3>8, <4>1
        <4>2. CASE i \in DOMAIN s /\ j = Len(s) + 1
          BY <3>1, <3>2, <3>4, <3>8, <4>2
        <4>3. CASE j \in DOMAIN s /\ i = Len(s) + 1
          BY <3>1, <3>2, <3>4, <3>5, <3>8, <4>3
        <4> QED
          BY <3>6, <3>8, <4>1, <4>2, <4>3
      <3> QED
        BY <3>7, <3>8
    <2> QED
      BY <1>2, <1>7, <2>1, <2>2
  <1>13. MergedOnce'
    BY <1>7, <1>12 DEF MergedOnce
  <1>14. me'[p].left \cap new = {}
    BY <1>1, <1>4, <1>7, <1>8, <1>21 DEF DoneAt
  <1>15. DoneAt(me[p])'
    BY <1>1, <1>7, <1>12, <1>14 DEF DoneAt
  <1> QED
    BY <1>1, <1>3, <1>4, <1>6, <1>13, <1>15, DoneKeep

LEMMA DoneLoop ==
  ASSUME BaseInv, ReadyInv, WorkInv, DoneInv, NEW p \in Processes, Loop(p)
  PROVE  DoneInv'
  <1> USE DEF Recording, Looping, Owning, Leaving
  <1>0. Grows /\ ChainsKept
    <2>1. history'.parent = history.parent
      BY ParentsKept
    <2> QED
      BY <2>1, GrowsLoop, ChainsStill
  <1>1. me[p].pc \in Looping =>
          /\ Holds(me[p]) /\ ReadyAt(me[p]) /\ DoneAt(me[p]) /\ me[p].kind \in RunKinds
          /\ me[p].run \in Runs /\ Exists(me[p].run)
          /\ me[p].held \in Manifests /\ me[p].next \in Manifests /\ branch \in Commits
          /\ branch # NoBranch /\ branch.work \in Seq(Merges) /\ Known(branch.work)
    BY LoopFacts, WorkTyped, MarksAssumption DEF ReadyInv, DoneInv, WorkInv, MergesInv
  (* The work of the chain is carried along.                               *)
  <1>2. ASSUME Moved(p), me[p].pc \in Looping, me'[p].pc \in Looping, RecordsDone',
               branch' = branch, me'[p].run = me[p].run, me'[p].left = me[p].left,
               me'[p].next.done = me[p].next.done,
               me'[p].pc # "checkpoint" => me'[p].held.done = me'[p].next.done
        PROVE  DoneInv'
    <2>1. PICK x \in Runs, done \in SUBSET Tasks : /\ x = me[p].run /\ done = me[p].next.done
                                  /\ x = me'[p].run /\ done = me'[p].next.done
                                  /\ Exists(x) /\ DoneOn(branch.work, x, done)
      BY <1>1, <1>2 DEF DoneAt, Manifests
    <2>2. DoneOn(branch.work, x, done)'
      BY <1>0, <1>1, <1>2, <2>1, DoneOnKeep
    <2>3. DoneAt(me[p])'
      BY <1>1, <1>2, <2>1, <2>2 DEF DoneAt, DoneOn
    <2> QED
      BY <1>0, <1>1, <1>2, <2>3, DoneKeep, MergedOnceKeep
  <1>3. ASSUME NEW t \in Tasks, Reserve(p, t) PROVE DoneInv'
    <2> DEFINE n == Reserved(me[p].held)
    <2>1. /\ Moved(p) /\ me[p].pc = "loop" /\ me'[p].pc = "spawn"
          /\ me'[p].held = n /\ me'[p].next = n
          /\ me'[p].run = me[p].run /\ me'[p].left = me[p].left
          /\ manifest' = [manifest EXCEPT ![me[p].run] = n]
      BY <1>3, ReserveShape
    <2>2. n.done = me[p].held.done /\ n.status = me[p].held.status
      BY <1>1, <2>1, ReservedTyped
    <2> HIDE DEF n
    <2>3. ~Ready(n)
      BY <1>1, <2>1, <2>2 DEF ReadyAt, Ready
    <2>4. RecordsDone'
      BY <1>0, <1>1, <2>1, <2>3, RecordsUnready
    <2>5. branch' = branch /\ me[p].next.done = me[p].held.done
      BY <1>1, <1>3, <2>1 DEF Reserve, DoneAt
    <2> QED
      BY <1>2, <2>1, <2>2, <2>4, <2>5
  <1>4. CASE Spawn(p)
    <2>1. /\ Moved(p) /\ me[p].pc = "spawn" /\ me'[p].pc = "loop"
          /\ me'[p].left = me[p].left /\ me'[p].held = me[p].held /\ me'[p].next = me[p].next
          /\ me'[p].run = me[p].run
      BY <1>4, SpawnShape
    <2>2. branch' = branch /\ manifest' = manifest
      BY <1>4 DEF Spawn, git
    <2>3. RecordsDone' /\ me[p].next.done = me[p].held.done
      BY <1>0, <1>1, <2>1, <2>2, RecordsSame DEF DoneAt
    <2> QED
      BY <1>2, <2>1, <2>2, <2>3
  <1>5. CASE Checkpoint(p)
    <2>1. /\ Moved(p) /\ me[p].pc = "checkpoint" /\ me'[p].pc \in {"loop", "integrate"}
          /\ me'[p].held = me[p].next /\ me'[p].next = me[p].next
          /\ me'[p].run = me[p].run /\ me'[p].left = me[p].left
          /\ manifest' = [manifest EXCEPT ![me[p].run] = me[p].next]
      BY <1>5, CheckpointShape
    <2>2. branch' = branch
      BY <1>5 DEF Checkpoint, git
    <2>3. ~Ready(me[p].next)
      BY <1>1, <2>1 DEF ReadyAt, Ready
    <2>4. RecordsDone'
      BY <1>0, <1>1, <2>1, <2>3, RecordsUnready
    <2> QED
      BY <1>2, <2>1, <2>2, <2>4
  <1>6. ASSUME NEW aborted \in BOOLEAN, Finish(p, aborted) PROVE DoneInv'
    <2> DEFINE n == Final(me[p].held, aborted)
    <2>1. /\ Moved(p) /\ me[p].pc \in {"loop", "spawn"}
          /\ me'[p].pc \in {"clean", "close"} /\ me'[p].next = n /\ me'[p].run = me[p].run
      BY <1>6, FinishShape
    <2>2. branch' = branch /\ manifest' = manifest
      BY <1>6 DEF Finish, git
    <2>3. RecordsDone' /\ DoneOn(branch.work, me[p].run, me[p].held.done)
      BY <1>0, <1>1, <2>1, <2>2, RecordsSame DEF DoneAt
    <2>4. n \in Manifests /\ n.done = me[p].held.done
      BY <1>1, <2>1, FinalTyped
    <2>5. Ready(n) => n.integration.tip = branch
      BY <1>1, <2>1, FinalTyped DEF Ready
    <2> HIDE DEF n
    <2>6. PICK x \in Runs, m \in Manifests :
            /\ x = me[p].run /\ x = me'[p].run /\ m = n /\ m = me'[p].next /\ Exists(x)
      BY <1>1, <2>1, <2>4
    <2>7. ReadyDone(m, x)
      BY <1>1, <2>1, <2>3, <2>4, <2>5, <2>6 DEF ReadyDone, Ready
    <2>8. ReadyDone(m, x)'
      BY <1>0, <2>6, <2>7, ReadyDoneKeep
    <2>9. DoneAt(me[p])'
      BY <2>1, <2>6, <2>8 DEF DoneAt, ReadyDone, Recorded, Known, DoneOn, Exists, SameChain
    <2> QED
      BY <1>0, <1>1, <2>1, <2>2, <2>3, <2>9, DoneKeep, MergedOnceKeep
  <1>7. CASE Close(p)
    <2>1. /\ Leave(p) /\ branch' = branch /\ me[p] \in Invocation /\ KindAt(me[p])
          /\ me[p].pc \in {"close", "plain"} /\ me[p].run \in Runs /\ Exists(me[p].run)
          /\ me[p].held \in Manifests /\ me[p].next \in Manifests
      BY <1>7, At_p DEF Close, git, KindAt, Invocation
    <2>2. CASE me[p].pc = "close" /\ manifest' = [manifest EXCEPT ![me[p].run] = me[p].next]
      <3>1. Holds(me[p]) /\ me[p].kind \in RunKinds /\ DoneAt(me[p])
        BY <2>1, <2>2 DEF KindAt, Holds, DoneInv, RunKinds
      <3>2. PICK x \in Runs, m \in Manifests :
              x = me[p].run /\ m = me[p].next /\ Exists(x) /\ ReadyDone(m, x)
        BY <2>1, <2>2, <3>1 DEF DoneAt
      <3>3. ReadyDone(m, x)'
        BY <1>0, <3>2, ReadyDoneKeep
      <3>4. RecordsDone'
        BY <1>0, <2>2, <3>2, <3>3, RecordsWritten
      <3> QED
        BY <1>0, <2>1, <3>1, <3>4, LeaveDone
    <2>3. ASSUME NEW s \in {"completed", "failed", "cancelled"},
                 manifest' = [manifest EXCEPT ![me[p].run] = WithStatus(me[p].held, s)]
          PROVE  DoneInv'
      <3>1. ~Ready(WithStatus(me[p].held, s))
        BY <2>1, <2>3, WithStatusTyped DEF Ready, TerminalStatus
      <3>2. RecordsDone'
        BY <1>0, <2>1, <2>3, <3>1, RecordsUnready
      <3> QED
        BY <1>0, <2>1, <3>2, LeaveDone
    <2> QED
      BY <1>7, <2>2, <2>3 DEF Close, Mine
  <1>8. CASE Throw(p)
    <2>1. /\ me[p].pc \in Looping /\ Leave(p) /\ branch' = branch
          /\ manifest' = [manifest EXCEPT ![me[p].run] = WithStatus(me[p].held, "failed")]
      BY <1>8 DEF Throw, EndFailed, git
    <2>2. ~Ready(WithStatus(me[p].held, "failed"))
      BY <1>1, <2>1, WithStatusTyped DEF Ready, TerminalStatus
    <2>3. RecordsDone'
      BY <1>0, <1>1, <2>1, <2>2, RecordsUnready
    <2> QED
      BY <1>0, <1>1, <2>1, <2>3, LeaveDone
  <1>9. CASE WriteFails(p)
    <2>1. /\ me[p].pc \in Looping /\ Leave(p) /\ branch' = branch
      BY <1>9 DEF WriteFails, git
    <2>2. PICK m : /\ manifest' = [manifest EXCEPT ![me[p].run] = m]
                   /\ m \in {manifest[me[p].run], me[p].next, Unrecoverable(me[p].held)}
      BY <1>9 DEF WriteFails, Mine
    <2>3. ~Ready(m)
      BY <1>1, <2>1, <2>2, UnrecoverableTyped DEF Ready, ReadyAt
    <2>4. RecordsDone'
      BY <1>0, <1>1, <2>1, <2>2, <2>3, RecordsUnready
    <2> QED
      BY <1>0, <1>1, <2>1, <2>4, LeaveDone
  <1> QED
    BY <1>3, <1>4, <1>5, <1>6, <1>7, <1>8, <1>9, DoneIntegrate DEF Loop

LEMMA DoneDecision ==
  ASSUME BaseInv, ReadyInv, WorkInv, DoneInv, NEW p \in Processes, Decision(p)
  PROVE  DoneInv'
  <1> USE DEF Recording, Looping, Owning, Leaving
  <1>0. Grows /\ ChainsKept /\ Holds(me[p]) /\ KindAt(me[p]) /\ me[p] \in Invocation
    <2>1. history' = history
      BY DEF Decision, Apply, Abort, Decide, Clean, Prune
    <2> QED
      BY <2>1, GrowsLoop, ChainsStill, At_p
      DEF Decision, Apply, Abort, Decide, Clean, Prune, KindAt, Holds, RunKinds, DecisionKinds
  <1>1. RecordsDone'
    <2>1. CASE manifest' = manifest
      BY <1>0, <2>1, RecordsSame
    <2>2. CASE Decide(p)
      <3>1. /\ ~Ready(me[p].next) /\ me[p].run \in Runs
            /\ manifest' = [manifest EXCEPT ![me[p].run] = me[p].next]
        BY <1>0, <2>2 DEF Decide, KindAt, Invocation, ReadyInv, ReadyAt, Ready
      <3> QED
        BY <1>0, <3>1, RecordsUnready
    <2> QED
      BY <2>1, <2>2 DEF Decision, Apply, Abort, Clean, Prune
  <1>2. CASE Leave(p)
    <2>1. branch' \in {branch, NoBranch}
      BY DEF Decision, Apply, Abort, Decide, Clean, Prune, git
    <2> QED
      BY <1>0, <1>1, <1>2, <2>1, LeaveDone
  <1>3. CASE Apply(p) /\ ~Leave(p)
    <2>1. Moved(p) /\ me'[p].pc = "decide" /\ branch' = branch
      BY <1>3, ApplyShape DEF Apply, git
    <2> QED
      BY <1>0, <1>1, <2>1, DoneNone
  <1>4. CASE Abort(p) /\ ~Leave(p)
    <2>1. Moved(p) /\ SameCommand(p) /\ me'[p].pc = "clean" /\ branch' = branch
      BY <1>4, AbortShape DEF Abort, git
    <2>2. me'[p].kind \notin RunKinds
      BY <1>0, <1>4, <2>1 DEF Abort, KindAt, SameCommand, DecisionKinds, RunKinds
    <2> QED
      BY <1>0, <1>1, <2>1, <2>2, DoneNone
  <1>5. ASSUME NEW pc \in {"clean", "prune", "decide", "close"}, Goto(p, pc),
               branch' \in {branch, NoBranch},
               pc \in {"clean", "decide"} => me[p].kind \in DecisionKinds,
               pc \in {"prune", "close"} => me[p].pc \in {"clean", "prune"}
        PROVE  DoneInv'
    <2>1. /\ Moved(p) /\ SameCommand(p) /\ me'[p].pc = pc /\ me'[p].run = me[p].run
          /\ me'[p].next = me[p].next
      BY <1>5, GotoShape DEF BaseInv, Places
    <2>2. me[p].kind \in RunKinds /\ pc \in {"prune", "close"} =>
            ReadyDone(me[p].next, me[p].run)'
      <3> SUFFICES ASSUME me[p].kind \in RunKinds, pc \in {"prune", "close"}
                   PROVE  ReadyDone(me[p].next, me[p].run)'
        OBVIOUS
      <3>1. PICK x \in Runs, m \in Manifests :
              /\ x = me[p].run /\ m = me[p].next /\ x = me'[p].run /\ m = me'[p].next
              /\ Exists(x) /\ ReadyDone(m, x)
        BY <1>0, <1>5, <2>1 DEF KindAt, Invocation, DoneInv, DoneAt
      <3>2. ReadyDone(m, x)'
        BY <1>0, <3>1, ReadyDoneKeep
      <3> QED
        BY <3>1, <3>2 DEF ReadyDone, Recorded, Known, DoneOn, Exists, SameChain
    <2>3. DoneAt(me[p])'
      BY <1>0, <1>5, <2>1, <2>2 DEF DoneAt, SameCommand, DecisionKinds, RunKinds
    <2> QED
      BY <1>0, <1>1, <1>5, <2>1, <2>3, DoneKeep, MergedOnceKeep
  <1>6. CASE Decide(p)
    BY <1>0, <1>2, <1>5, <1>6 DEF Decide, KindAt, git
  <1>7. CASE Clean(p)
    BY <1>0, <1>2, <1>5, <1>7 DEF Clean
  <1>8. CASE Prune(p)
    BY <1>0, <1>2, <1>5, <1>8 DEF Prune, DecisionKinds
  <1> QED
    BY <1>2, <1>3, <1>4, <1>6, <1>7, <1>8 DEF Decision

LEMMA DoneUntouched ==
  ASSUME BaseInv, WorkInv, DoneInv, UNCHANGED <<manifest, branch, me, history>>
  PROVE  DoneInv'
  <1>1. \A a, b : SameChain(a, b)' <=> SameChain(a, b)
    BY DEF SameChain, Chain
  <1>2. \A r : Exists(r)' <=> Exists(r)
    BY DEF Exists
  <1>3. MergedOnce'
    BY <1>1 DEF DoneInv, MergedOnce
  <1>4. \A m, r : ReadyDone(m, r)' <=> ReadyDone(m, r)
    BY <1>1, <1>2 DEF ReadyDone, DoneOn, Known, Recorded
  <1>5. RecordsDone'
    BY <1>2, <1>4 DEF DoneInv, RecordsDone
  <1>6. \A w, r, d : DoneOn(w, r, d)' <=> DoneOn(w, r, d)
    BY <1>1 DEF DoneOn
  <1>7. ASSUME NEW p \in Processes, Holds(me[p])' PROVE DoneAt(me[p])'
    <2>1. DoneAt(me[p])
      BY <1>7 DEF DoneInv, Holds
    <2> QED
      BY <2>1, <1>4, <1>6 DEF DoneAt
  <1> QED
    BY <1>3, <1>5, <1>7 DEF DoneInv

(* What the runs of a chain have merged, with all that it rests on.        *)
THEOREM DoneInvariant == Spec => []DoneInv
  <1>1. Init => DoneInv
    BY IdleTyped DEF Init, DoneInv, MergedOnce, RecordsDone, Exists
  <1>2. BaseInv /\ ReadyInv /\ WorkInv /\ DoneInv /\ [Next]_vars => DoneInv'
    <2> SUFFICES ASSUME BaseInv, ReadyInv, WorkInv, DoneInv, [Next]_vars PROVE DoneInv'
      OBVIOUS
    <2>1. CASE UNCHANGED <<manifest, branch, me, history>>
      BY <2>1, DoneUntouched
    <2>2. ASSUME NEW p \in Processes, Crash(p) PROVE DoneInv'
      <3>1. /\ UNCHANGED <<manifest, branch, history>> /\ Leave(p)
        BY <2>2 DEF Crash, git
      <3> QED
        BY <3>1, ChainsStill, RecordsSame, LeaveDone DEF Grows, Exists
    <2> QED
      BY <2>1, <2>2, DoneBegin, DoneStart, DoneLoop, DoneDecision
      DEF Next, vars, git, WorkerMoves, WorkerEnds, WriteSentinel, Commit, Edit, Discard, ApprovePlan
  <1> QED
    BY <1>1, <1>2, BaseInvariant, ReadyInvariant, WorkInvariant, PTL DEF Spec

(* No task is merged twice onto the branch by the runs of a chain: what    *)
(* the parent has merged is not executed again (run-parallel.ts:545).      *)
THEOREM ChainsMergeOnce == Spec => []MergedOnce
  BY DoneInvariant, PTL DEF DoneInv

(***************************************************************************)
(* What is on record as done was finished by a run of the chain, under the *)
(* same plan; the plan of a run never changes.                             *)
(***************************************************************************)
Earned(m, r) ==
  \A t \in m.done :
    \E f \in history.finished :
      /\ f.task = t /\ Exists(f.run) /\ manifest[f.run].plan = m.plan
      /\ f.run \in Chain(r)

(* What the manifest m may become: a record of run r.                      *)
RecordOf(m, r) == Earned(m, r) /\ m.plan = manifest[r].plan

RecordsEarned == \A r \in Runs : Exists(r) => Earned(manifest[r], r)

EarnedAt(m) ==
  /\ m.pc \in {"stale", "mark"} => m.kind # "resume"
  /\ m.pc \in {"guard", "stale", "mark"} => m.held.done = {}
  /\ m.pc = "create" =>
       IF m.kind = "resume" THEN Earned(m.held, m.target) ELSE m.held.done = {}
  /\ m.pc \in Owning \union {"plain", "lock", "apply", "abort"} => RecordOf(m.held, m.run)
  /\ m.pc \in Owning \union Leaving \union {"mark", "decide"} => RecordOf(m.next, m.run)
  /\ m.pc \in Owning /\ m.kind = "resume" => history.parent[m.run] = m.target

EarnedInv == RecordsEarned /\ \A p \in Processes : EarnedAt(me[p])

(* What a step leaves alone of all runs.                                   *)
Steady ==
  /\ Grows /\ ChainsKept
  /\ history.finished \subseteq history'.finished
  /\ \A r \in Runs : Exists(r) => /\ manifest'[r].plan = manifest[r].plan
                                  /\ history'.parent[r] = history.parent[r]

LEMMA EarnedKeep ==
  ASSUME BaseInv, Steady, NEW m, NEW r \in Runs, Exists(r), Earned(m, r)
  PROVE  Earned(m, r)'
  <1> SUFFICES ASSUME NEW t \in m.done
               PROVE  \E f \in history'.finished :
                        /\ f.task = t /\ Exists(f.run)' /\ manifest'[f.run].plan = m.plan
                        /\ f.run \in Chain(r)'
    BY DEF Earned
  <1>1. PICK f \in history.finished :
          f.task = t /\ Exists(f.run) /\ manifest[f.run].plan = m.plan /\ f.run \in Chain(r)
    BY DEF Earned
  <1>2. f \in history'.finished /\ f.run \in Runs
    BY <1>1 DEF Steady, BaseInv, TypeInv, StateTyped, Histories, Merges
  <1>3. Exists(f.run)' /\ manifest'[f.run].plan = m.plan /\ f.run \in Chain(r)'
    BY <1>1, <1>2 DEF Steady, Grows, ChainsKept
  <1> QED
    BY <1>1, <1>2, <1>3

LEMMA RecordKeep ==
  ASSUME BaseInv, Steady, NEW m, NEW r \in Runs, Exists(r), RecordOf(m, r)
  PROVE  RecordOf(m, r)'
  <1>1. Earned(m, r)'
    BY EarnedKeep DEF RecordOf
  <1> QED
    BY <1>1 DEF RecordOf, Steady

LEMMA EarnedLike ==
  ASSUME NEW m, NEW n, n.done = m.done, n.plan = m.plan
  PROVE  /\ \A r : Earned(m, r) => Earned(n, r)
         /\ \A r : RecordOf(m, r) => RecordOf(n, r)
  BY DEF Earned, RecordOf

LEMMA NothingEarned == \A m, r : m.done = {} => Earned(m, r)
  BY DEF Earned

LEMMA SteadyStill ==
  ASSUME manifest' = manifest, history'.parent = history.parent,
         history.finished \subseteq history'.finished
  PROVE  Steady
  BY ChainsStill DEF Steady, Grows, Exists

LEMMA SteadyWrite ==
  ASSUME BaseInv, NEW s \in Runs, Exists(s), NEW m \in Manifests, m.plan = manifest[s].plan,
         manifest' = [manifest EXCEPT ![s] = m], history' = history
  PROVE  Steady
  <1>1. Grows
    BY Rewritten DEF BaseInv, TypeInv
  <1>2. \A r \in Runs : manifest'[r].plan = manifest[r].plan
    BY DEF BaseInv, TypeInv, StateTyped
  <1> QED
    BY <1>1, <1>2, ChainsStill DEF Steady

LEMMA EarnedSame ==
  ASSUME BaseInv, EarnedInv, Steady, manifest' = manifest
  PROVE  RecordsEarned'
  <1> SUFFICES ASSUME NEW r \in Runs, Exists(r) PROVE Earned(manifest[r], r)'
    BY DEF RecordsEarned, Exists
  <1>1. PICK k : k = manifest[r] /\ Earned(k, r)
    BY DEF EarnedInv, RecordsEarned
  <1>2. Earned(k, r)'
    BY <1>1, EarnedKeep
  <1> QED
    BY <1>1, <1>2 DEF Earned

LEMMA EarnedWritten ==
  ASSUME BaseInv, EarnedInv, Steady, NEW s \in Runs, NEW m, Earned(m, s)',
         manifest' = [manifest EXCEPT ![s] = m]
  PROVE  RecordsEarned'
  <1> SUFFICES ASSUME NEW r \in Runs, manifest'[r] # NoManifest PROVE Earned(manifest[r], r)'
    BY DEF RecordsEarned, Exists
  <1>1. manifest'[s] = m /\ (r # s => manifest'[r] = manifest[r])
    BY DEF BaseInv, TypeInv, StateTyped
  <1>2. CASE r = s
    BY <1>1, <1>2 DEF Earned
  <1>3. CASE r # s
    <2>1. PICK k : k = manifest[r] /\ manifest'[r] = k /\ Earned(k, r) /\ Exists(r)
      BY <1>1, <1>3 DEF EarnedInv, RecordsEarned, Exists
    <2>2. Earned(k, r)'
      BY <2>1, EarnedKeep
    <2> QED
      BY <2>1, <2>2 DEF Earned
  <1> QED
    BY <1>2, <1>3

LEMMA EarnedStep ==
  ASSUME BaseInv, EarnedInv, NEW p \in Processes, Moved(p), Steady, RecordsEarned', EarnedAt(me[p])'
  PROVE  EarnedInv'
  <1> SUFFICES ASSUME NEW q \in Processes, q # p PROVE EarnedAt(me[q])'
    BY DEF EarnedInv
  <1>1. me'[q] = me[q] /\ EarnedAt(me[q]) /\ KindAt(me[q]) /\ me[q] \in Invocation
    BY At_p DEF Moved, Others, EarnedInv
  <1> DEFINE Runner == Owning \union Leaving \union {"mark", "decide", "plain", "lock", "apply", "abort"}
  <1>2. me[q].pc \in Runner => me[q].run \in Runs /\ Exists(me[q].run)
    BY <1>1 DEF KindAt, Invocation
  <1>3. me[q].kind = "resume" => me[q].target \in Runs /\ Exists(me[q].target)
    BY <1>1 DEF KindAt, Invocation
  <1>4. me[q].pc = "create" /\ me[q].kind = "resume" => Earned(me[q].held, me[q].target)'
    <2> SUFFICES ASSUME me[q].pc = "create", me[q].kind = "resume"
                 PROVE  Earned(me[q].held, me[q].target)'
      OBVIOUS
    <2>1. PICK m \in Manifests, r \in Runs :
                               /\ m = me[q].held /\ m = me'[q].held
                               /\ r = me[q].target /\ r = me'[q].target
                               /\ Exists(r) /\ Earned(m, r)
      BY <1>1, <1>3 DEF EarnedAt, KindAt, Invocation
    <2>2. Earned(m, r)'
      BY <2>1, EarnedKeep
    <2> QED
      BY <2>1, <2>2 DEF Earned
  <1>5. me[q].pc \in Owning \union {"plain", "lock", "apply", "abort"} =>
          RecordOf(me[q].held, me[q].run)'
    BY <1>1, <1>2, RecordKeep DEF EarnedAt
  <1>6. me[q].pc \in Owning \union Leaving \union {"mark", "decide"} =>
          RecordOf(me[q].next, me[q].run)'
    BY <1>1, <1>2, RecordKeep DEF EarnedAt
  <1>7. me[q].pc \in Owning /\ me[q].kind = "resume" => history'.parent[me[q].run] = me[q].target
    BY <1>1, <1>2 DEF EarnedAt, Steady
  <1> QED
    BY <1>1, <1>4, <1>5, <1>6, <1>7 DEF EarnedAt

LEMMA LeaveEarned ==
  ASSUME BaseInv, EarnedInv, NEW p \in Processes, Leave(p), Steady, RecordsEarned'
  PROVE  EarnedInv'
  <1>1. Moved(p) /\ me'[p] = Idle
    BY LeaveShape DEF BaseInv
  <1>2. EarnedAt(me[p])'
    BY <1>1, IdleTyped DEF EarnedAt, Owning, Recording, Looping, Leaving
  <1> QED
    BY <1>1, <1>2, EarnedStep

(* A command that ends with a write of its record.                         *)
LEMMA LeaveRecord ==
  ASSUME BaseInv, EarnedInv, NEW p \in Processes, Leave(p), NEW s \in Runs, Exists(s),
         NEW m \in Manifests, RecordOf(m, s), manifest' = [manifest EXCEPT ![s] = m],
         history' = history
  PROVE  EarnedInv'
  <1>1. Steady
    BY SteadyWrite DEF RecordOf
  <1>2. RecordsEarned'
    BY <1>1, RecordKeep, EarnedWritten DEF RecordOf
  <1> QED
    BY <1>1, <1>2, LeaveEarned

LEMMA EarnedBegin == ASSUME BaseInv, EarnedInv, NEW p \in Processes, Begin(p) PROVE EarnedInv'
  <1> USE DEF Owning, Recording, Looping, Leaving
  <1>0. manifest' = manifest /\ history' = history
    BY DEF Begin, BeginLocked, BeginPlain, BeginDecision, TakeLock
  <1>01. Steady /\ RecordsEarned'
    BY <1>0, SteadyStill, EarnedSame
  <1>1. ASSUME NEW kind \in Kinds, NEW target \in Runs \union {NoRun}, NEW keep \in Keeps,
               NEW max \in Limits, BeginLocked(p, kind, target, keep, max)
        PROVE EarnedInv'
    <2>1. Moved(p) /\ me'[p].pc = "guard" /\ NewRecord(me'[p].held)
      BY <1>1, BeginLockedShape DEF BaseInv
    <2>2. EarnedAt(me[p])'
      BY <2>1 DEF EarnedAt, NewRecord
    <2> QED
      BY <1>01, <2>1, <2>2, EarnedStep
  <1>2. ASSUME NEW max \in Limits, BeginPlain(p, max) PROVE EarnedInv'
    <2>1. Moved(p) /\ me'[p].pc = "stale" /\ me'[p].kind = "plain" /\ NewRecord(me'[p].held)
      BY <1>2, BeginPlainShape DEF BaseInv
    <2>2. EarnedAt(me[p])'
      BY <2>1 DEF EarnedAt, NewRecord
    <2> QED
      BY <1>01, <2>1, <2>2, EarnedStep
  <1>3. ASSUME NEW kind \in {"apply", "abort"}, NEW r \in Runs, BeginDecision(p, kind, r)
        PROVE EarnedInv'
    <2>1. /\ Moved(p) /\ me'[p].pc = "lock" /\ me'[p].run = r /\ me'[p].held = manifest[r]
          /\ Exists(r)
      BY <1>3, BeginDecisionShape DEF BaseInv
    <2>2. RecordOf(manifest[r], r)
      BY <2>1 DEF EarnedInv, RecordsEarned, RecordOf
    <2>3. PICK m : m = manifest[r] /\ m = me'[p].held /\ RecordOf(m, r)
      BY <2>1, <2>2
    <2>4. RecordOf(m, r)'
      BY <1>01, <2>1, <2>3, RecordKeep
    <2>5. EarnedAt(me[p])'
      BY <2>1, <2>3, <2>4 DEF EarnedAt, RecordOf, Earned
    <2> QED
      BY <1>01, <2>1, <2>5, EarnedStep
  <1>4. CASE TakeLock(p)
    <2>1. CASE Leave(p)
      BY <1>01, <2>1, LeaveEarned
    <2>2. CASE me[p].kind \in Places /\ Goto(p, me[p].kind)
      <3>1. me[p].kind \in DecisionKinds /\ me[p].run \in Runs /\ Exists(me[p].run)
        BY <1>4, At_p DEF TakeLock, KindAt, Invocation
      <3>2. /\ Moved(p) /\ me'[p].pc = me[p].kind /\ me'[p].run = me[p].run
            /\ me'[p].held = me[p].held
        BY <2>2, GotoShape DEF BaseInv
      <3>3. RecordOf(me[p].held, me[p].run)
        BY <1>4 DEF TakeLock, EarnedInv, EarnedAt
      <3>4. RecordOf(me[p].held, me[p].run)'
        BY <1>01, <3>1, <3>2, <3>3, RecordKeep
      <3>5. EarnedAt(me[p])'
        BY <3>1, <3>2, <3>4 DEF EarnedAt, DecisionKinds
      <3> QED
        BY <1>01, <3>2, <3>5, EarnedStep
    <2> QED
      BY <1>4, <2>1, <2>2, TakeLockShape DEF BaseInv
  <1> QED
    BY <1>1, <1>2, <1>3, <1>4 DEF Begin

LEMMA EarnedGuards ==
  ASSUME BaseInv, EarnedInv, NEW p \in Processes, Fresh(p) \/ Resume(p) \/ Review(p)
  PROVE  EarnedInv'
  <1> USE DEF Owning, Recording, Looping, Leaving
  <1>1. manifest' = manifest /\ history' = history
    BY DEF Fresh, Resume, Review
  <1>2. Steady /\ RecordsEarned'
    BY <1>1, SteadyStill, EarnedSame
  <1>3. me[p].pc = "guard" /\ me[p].held.done = {} /\ KindAt(me[p]) /\ me[p] \in Invocation
    BY At_p DEF Fresh, Resume, Review, EarnedInv, EarnedAt
  <1>4. CASE Leave(p)
    BY <1>2, <1>4, LeaveEarned
  <1>5. CASE (Fresh(p) \/ Review(p)) /\ ~Leave(p)
    <2>1. /\ Moved(p) /\ SameCommand(p) /\ me'[p].pc = "stale" /\ me'[p].held = me[p].held
      BY <1>5, FreshShape, ReviewShape DEF BaseInv
    <2>2. me'[p].kind # "resume"
      BY <1>5, <2>1 DEF Fresh, Review, SameCommand
    <2>3. EarnedAt(me[p])'
      BY <1>3, <2>1, <2>2 DEF EarnedAt
    <2> QED
      BY <1>2, <2>1, <2>3, EarnedStep
  <1>6. CASE Resume(p) /\ ~Leave(p)
    <2> DEFINE k == manifest[me[p].target]
               h == Inherited(k, me[p].held)
    <2>1. /\ Moved(p) /\ SameCommand(p) /\ me'[p].pc = "create"
          /\ ResumeGuards(k, me[p].held.plan) /\ me'[p].held = h
      BY <1>6, ResumeShape DEF BaseInv
    <2>2. /\ me[p].kind = "resume" /\ me[p].held \in Manifests
          /\ me[p].target \in Runs /\ Exists(me[p].target) /\ k \in Manifests
      BY <1>3, <1>6 DEF Resume, KindAt, Invocation, Exists, BaseInv, TypeInv, StateTyped
    <2>3. h.done = k.done /\ h.plan = me[p].held.plan
      BY <2>2, InheritedTyped
    <2>4. h.plan = k.plan
      BY <2>1, <2>3 DEF ResumeGuards, SamePlan
    <2>5. Earned(k, me[p].target)
      BY <2>2 DEF EarnedInv, RecordsEarned
    <2> HIDE DEF h, k
    <2>6. Earned(h, me[p].target)
      BY <2>3, <2>4, <2>5, EarnedLike
    <2>7. PICK m, r : /\ m = h /\ r = me[p].target /\ r \in Runs /\ Exists(r) /\ Earned(m, r)
                      /\ m = me'[p].held /\ r = me'[p].target
      BY <2>1, <2>2, <2>6 DEF SameCommand
    <2>8. Earned(m, r)'
      BY <1>2, <2>7, EarnedKeep
    <2>9. EarnedAt(me[p])'
      BY <2>1, <2>2, <2>7, <2>8 DEF EarnedAt, Earned, SameCommand
    <2> QED
      BY <1>2, <2>1, <2>9, EarnedStep
  <1> QED
    BY <1>4, <1>5, <1>6

LEMMA EarnedMarks ==
  ASSUME BaseInv, EarnedInv, NEW p \in Processes,
         Mark(p) \/ NoneStale(p) \/ (\E r \in Runs : ReadStale(p, r))
  PROVE  EarnedInv'
  <1> USE DEF Owning, Recording, Looping, Leaving
  <1>1. CASE Mark(p)
    <2>1. /\ Moved(p) /\ SameCommand(p) /\ me[p].pc = "mark" /\ me'[p].pc = "stale"
          /\ me'[p].held = me[p].held
          /\ me[p].run \in Runs /\ Exists(me[p].run) /\ me[p].next \in Manifests
          /\ manifest' = [manifest EXCEPT ![me[p].run] = me[p].next]
      BY <1>1, MarkShape DEF BaseInv
    <2>2. RecordOf(me[p].next, me[p].run) /\ me[p].held.done = {} /\ me[p].kind # "resume"
      BY <2>1 DEF EarnedInv, EarnedAt
    <2>3. history' = history
      BY <1>1 DEF Mark
    <2>4. Steady
      BY <2>1, <2>2, <2>3, SteadyWrite DEF RecordOf
    <2>5. PICK m \in Manifests, s \in Runs : m = me[p].next /\ s = me[p].run /\ Exists(s) /\ RecordOf(m, s)
      BY <2>1, <2>2
    <2>6. RecordsEarned'
      BY <2>1, <2>4, <2>5, RecordKeep, EarnedWritten DEF RecordOf
    <2>7. EarnedAt(me[p])'
      BY <2>1, <2>2 DEF EarnedAt, SameCommand
    <2> QED
      BY <2>1, <2>4, <2>6, <2>7, EarnedStep
  <1>2. CASE NoneStale(p)
    <2>1. /\ Moved(p) /\ SameCommand(p) /\ me[p].pc = "stale" /\ me'[p].pc = "create"
          /\ me'[p].held = me[p].held
      BY <1>2, NoneStaleShape DEF BaseInv
    <2>2. Steady /\ RecordsEarned'
      BY <1>2, SteadyStill, EarnedSame DEF NoneStale
    <2>3. EarnedAt(me[p])'
      BY <2>1 DEF EarnedAt, EarnedInv, SameCommand
    <2> QED
      BY <2>1, <2>2, <2>3, EarnedStep
  <1>3. ASSUME NEW r \in Runs, ReadStale(p, r) PROVE EarnedInv'
    <2> DEFINE n == Unrecoverable(manifest[r])
    <2>1. /\ Moved(p) /\ SameCommand(p) /\ me[p].pc = "stale" /\ me'[p].pc = "mark"
          /\ me'[p].held = me[p].held /\ me'[p].run = r /\ me'[p].next = n /\ Exists(r)
      BY <1>3, ReadStaleShape DEF BaseInv
    <2>2. Steady /\ RecordsEarned'
      BY <1>3, SteadyStill, EarnedSame DEF ReadStale
    <2>3. manifest[r] \in Manifests
      BY <2>1 DEF BaseInv, TypeInv, StateTyped, Exists
    <2>4. n.done = manifest[r].done /\ n.plan = manifest[r].plan
      BY <2>3, UnrecoverableTyped
    <2>5. RecordOf(manifest[r], r)
      BY <2>1 DEF EarnedInv, RecordsEarned, RecordOf
    <2> HIDE DEF n
    <2>6. RecordOf(n, r)
      BY <2>4, <2>5, EarnedLike
    <2>7. PICK m : m = n /\ m = me'[p].next /\ RecordOf(m, r)
      BY <2>1, <2>6
    <2>8. RecordOf(m, r)'
      BY <2>1, <2>2, <2>7, RecordKeep
    <2>9. EarnedAt(me[p])'
      BY <2>1, <2>7, <2>8 DEF EarnedAt, EarnedInv, SameCommand
    <2> QED
      BY <2>1, <2>2, <2>9, EarnedStep
  <1> QED
    BY <1>1, <1>2, <1>3

LEMMA EarnedCreate ==
  ASSUME BaseInv, EarnedInv, NEW p \in Processes, Create(p)
  PROVE  EarnedInv'
  <1> USE DEF Owning, Recording, Looping, Leaving
  <1>10. PICK n \in Runs, m \in Manifests, s \in Runs \union {NoRun} : NewRun(p, n, m, s)
    BY NewRunFacts
  <1>11. m.done = me[p].held.done /\ m.plan = me[p].held.plan
    <2> DEFINE plain == me[p].kind = "plain"
    <2>1. plain \in BOOLEAN /\ me[p].held \in Manifests /\ m = Started(me[p].held, plain)
      BY <1>10 DEF NewRun
    <2> HIDE DEF plain
    <2> QED
      BY <2>1, StartedTyped
  <1>1. /\ Moved(p) /\ SameCommand(p) /\ me[p].pc = "create" /\ me'[p].pc \in {"plain", "record"}
        /\ me'[p].run = n /\ me'[p].held = m /\ me'[p].next = m
        /\ m.done = me[p].held.done /\ m.plan = me[p].held.plan
        /\ ~Exists(n) /\ Created = 1..(n - 1) /\ manifest' = [manifest EXCEPT ![n] = m]
        /\ s = (IF me[p].kind = "resume" THEN me[p].target ELSE NoRun)
        /\ history'.parent = [history.parent EXCEPT ![n] = s]
        /\ history'.finished = history.finished
    BY <1>10, <1>11 DEF NewRun
  <1>2. /\ s # NoRun => me[p].kind = "resume" /\ s = me[p].target /\ Exists(s) /\ s \in Runs
        /\ me[p].kind = "resume" => s # NoRun
    BY <1>1, At_p DEF KindAt
  <1>3. /\ ChainsKept
        /\ s # NoRun => Chain(n)' = {n} \union Chain(s)
    BY <1>1, <1>2, ChainsGrow
  <1>4. Grows
    BY <1>1, GrowsStart DEF Start
  <1>5. manifest'[n] = m /\ \A r \in Runs \ {n} : manifest'[r] = manifest[r]
    BY <1>1 DEF BaseInv, TypeInv, StateTyped
  <1>6. history'.parent[n] = s /\ \A r \in Runs \ {n} : history'.parent[r] = history.parent[r]
    BY <1>1 DEF BaseInv, TypeInv, StateTyped, Histories
  <1>7. Steady
    BY <1>1, <1>3, <1>4, <1>5, <1>6 DEF Steady
  <1>8. Earned(m, n)'
    <2>1. CASE s = NoRun
      BY <1>1, <1>2, <2>1 DEF Earned, EarnedInv, EarnedAt
    <2>2. CASE s # NoRun
      <3>1. Earned(me[p].held, s)
        BY <1>1, <1>2, <2>2 DEF EarnedInv, EarnedAt
      <3>2. Earned(m, s)
        BY <1>1, <3>1, EarnedLike
      <3>3. Earned(m, s)' /\ Chain(s)' = Chain(s)
        BY <1>2, <1>3, <1>7, <2>2, <3>2, EarnedKeep DEF ChainsKept
      <3> QED
        BY <1>3, <2>2, <3>3 DEF Earned
    <2> QED
      BY <2>1, <2>2
  <1>9. RecordsEarned'
    BY <1>1, <1>7, <1>8, EarnedWritten
  <1>12. RecordOf(m, n)'
    BY <1>5, <1>8 DEF RecordOf
  <1>13. EarnedAt(me[p])'
    BY <1>1, <1>2, <1>6, <1>12 DEF EarnedAt, RecordOf, Earned, SameCommand
  <1> QED
    BY <1>1, <1>7, <1>9, <1>13, EarnedStep

(* A run that goes on with a record of its own, written or still to write. *)
LEMMA EarnedGoesOn ==
  ASSUME BaseInv, EarnedInv, NEW p \in Processes, Moved(p), SameCommand(p),
         me[p].pc \in Owning, me'[p].pc \in Owning \union Leaving, me'[p].run = me[p].run,
         Steady, RecordsEarned',
         me'[p].pc \in Owning => RecordOf(me'[p].held, me[p].run),
         RecordOf(me'[p].next, me[p].run)
  PROVE  EarnedInv'
  <1> USE DEF Owning, Recording, Looping, Leaving
  <1>1. me[p].run \in Runs /\ Exists(me[p].run) /\ EarnedAt(me[p])
    BY At_p DEF KindAt, Invocation, EarnedInv
  <1>2. PICK m, n, r : /\ m = me'[p].held /\ n = me'[p].next /\ r = me[p].run /\ r = me'[p].run
                       /\ r \in Runs /\ Exists(r) /\ RecordOf(n, r)
                       /\ me'[p].pc \in Owning => RecordOf(m, r)
    BY <1>1
  <1>3. RecordOf(n, r)' /\ (me'[p].pc \in Owning => RecordOf(m, r)')
    BY <1>2, RecordKeep
  <1>4. me[p].kind = "resume" => history'.parent[me[p].run] = me[p].target
    BY <1>1 DEF EarnedAt, Steady
  <1>5. EarnedAt(me[p])'
    BY <1>2, <1>3, <1>4 DEF EarnedAt, RecordOf, Earned, SameCommand
  <1> QED
    BY <1>5, EarnedStep

(* As before, with a write of that record.                                 *)
LEMMA EarnedWrites ==
  ASSUME BaseInv, EarnedInv, NEW p \in Processes, Moved(p), SameCommand(p),
         me[p].pc \in Owning, me'[p].pc \in Owning, me'[p].run = me[p].run,
         NEW m \in Manifests, RecordOf(m, me[p].run),
         me'[p].held = m, me'[p].next = m,
         manifest' = [manifest EXCEPT ![me[p].run] = m], history' = history
  PROVE  EarnedInv'
  <1>1. PICK r \in Runs : r = me[p].run /\ Exists(r) /\ RecordOf(m, r)
    BY At_p DEF KindAt, Invocation
  <1>2. Steady
    BY <1>1, SteadyWrite DEF RecordOf
  <1>3. RecordsEarned'
    BY <1>1, <1>2, RecordKeep, EarnedWritten DEF RecordOf
  <1> QED
    BY <1>2, <1>3, EarnedGoesOn

LEMMA EarnedSetUp ==
  ASSUME BaseInv, EarnedInv, NEW p \in Processes, Record(p) \/ Setup(p)
  PROVE  EarnedInv'
  <1> USE DEF Owning, Recording, Looping, Leaving
  <1>1. /\ RecordOf(me[p].held, me[p].run) /\ RecordOf(me[p].next, me[p].run)
        /\ me[p].run \in Runs /\ Exists(me[p].run) /\ me[p].held \in Manifests
        /\ me[p].pc \in Recording
    BY At_p DEF Record, Setup, KindAt, Invocation, EarnedInv, EarnedAt
  <1>2. CASE Record(p)
    <2> DEFINE n == WithIntegration(me[p].held, me[p].from, main.head)
    <2>1. /\ Moved(p) /\ SameCommand(p) /\ me'[p].pc = "setup" /\ me'[p].run = me[p].run
          /\ me'[p].held = n /\ me'[p].next = n /\ n \in Manifests
          /\ me[p].held \in Manifests /\ me[p].from \in Integrations \union {NoIntegration}
          /\ main.head \in 0..MaxHead
          /\ manifest' = [manifest EXCEPT ![me[p].run] = n]
      BY <1>2, RecordShape DEF BaseInv
    <2>2. n.done = me[p].held.done /\ n.plan = me[p].held.plan
      BY <2>1, WithIntegrationTyped
    <2> HIDE DEF n
    <2>3. RecordOf(n, me[p].run)
      BY <1>1, <2>2, EarnedLike
    <2> QED
      BY <1>1, <1>2, <2>1, <2>3, EarnedWrites DEF Record
  <1>3. CASE Setup(p)
    <2>1. CASE EndFailed(p) /\ UNCHANGED history
      <3> DEFINE n == WithStatus(me[p].held, "failed")
      <3>1. n \in Manifests /\ manifest' = [manifest EXCEPT ![me[p].run] = n]
        BY <1>1, <2>1, EndFailedShape DEF BaseInv
      <3>2. n.done = me[p].held.done /\ n.plan = me[p].held.plan
        BY <1>1, WithStatusTyped DEF TerminalStatus
      <3> HIDE DEF n
      <3>3. RecordOf(n, me[p].run)
        BY <1>1, <3>2, EarnedLike
      <3> QED
        BY <1>1, <2>1, <3>1, <3>3, LeaveRecord DEF EndFailed
    <2>2. CASE ~(EndFailed(p) /\ UNCHANGED history)
      <3>1. /\ Moved(p) /\ SameCommand(p) /\ manifest' = manifest /\ me'[p].pc = "loop"
            /\ me'[p].held = me[p].held /\ me'[p].next = me[p].next /\ me'[p].run = me[p].run
            /\ history'.parent = history.parent /\ history'.finished = history.finished
        BY <1>3, <2>2, SetupShape
      <3>2. Steady /\ RecordsEarned'
        BY <3>1, SteadyStill, EarnedSame
      <3> QED
        BY <1>1, <3>1, <3>2, EarnedGoesOn
    <2> QED
      BY <2>1, <2>2
  <1> QED
    BY <1>2, <1>3

LEMMA EarnedLoop == ASSUME BaseInv, EarnedInv, NEW p \in Processes, Loop(p) PROVE EarnedInv'
  <1> USE DEF Owning, Recording, Looping, Leaving
  <1>1. me[p].pc \in Looping =>
          /\ RecordOf(me[p].held, me[p].run) /\ RecordOf(me[p].next, me[p].run)
          /\ me[p].run \in Runs /\ Exists(me[p].run)
          /\ me[p].held \in Manifests /\ me[p].next \in Manifests
    BY LoopFacts DEF EarnedInv, EarnedAt
  <1>2. ASSUME NEW t \in Tasks, Reserve(p, t) PROVE EarnedInv'
    <2> DEFINE n == Reserved(me[p].held)
    <2>1. /\ Moved(p) /\ SameCommand(p) /\ me[p].pc = "loop" /\ me'[p].pc = "spawn"
          /\ n \in Manifests /\ manifest' = [manifest EXCEPT ![me[p].run] = n]
          /\ me'[p].held = n /\ me'[p].next = n /\ me'[p].run = me[p].run
      BY <1>2, ReserveShape
    <2>2. n.done = me[p].held.done /\ n.plan = me[p].held.plan
      BY <1>1, <2>1, ReservedTyped
    <2> HIDE DEF n
    <2>3. RecordOf(n, me[p].run)
      BY <1>1, <2>1, <2>2, EarnedLike
    <2> QED
      BY <1>1, <1>2, <2>1, <2>3, EarnedWrites DEF Reserve
  <1>3. CASE Spawn(p)
    <2>1. /\ Moved(p) /\ SameCommand(p) /\ me[p].pc = "spawn" /\ me'[p].pc = "loop"
          /\ me'[p].held = me[p].held /\ me'[p].next = me[p].next /\ me'[p].run = me[p].run
          /\ history'.parent = history.parent /\ history'.finished = history.finished
      BY <1>3, SpawnShape
    <2>2. Steady /\ RecordsEarned'
      BY <1>3, <2>1, SteadyStill, EarnedSame DEF Spawn
    <2> QED
      BY <1>1, <2>1, <2>2, EarnedGoesOn
  <1>4. CASE Checkpoint(p)
    <2>1. /\ Moved(p) /\ SameCommand(p) /\ me[p].pc = "checkpoint"
          /\ me'[p].pc \in {"loop", "integrate"}
          /\ me'[p].held = me[p].next /\ me'[p].next = me[p].next /\ me'[p].run = me[p].run
          /\ manifest' = [manifest EXCEPT ![me[p].run] = me[p].next]
      BY <1>4, CheckpointShape
    <2> QED
      BY <1>1, <1>4, <2>1, EarnedWrites DEF Checkpoint
  <1>5. ASSUME NEW t \in Tasks, NEW o \in {"merged", "unchanged", "failed"}, Integrate(p, t, o)
        PROVE  EarnedInv'
    <2> DEFINE n == Checkpointed(me[p].held, DoneBy(t, o))
               new == {Merged(d, me[p].run) : d \in DoneBy(t, o)}
    <2>1. /\ Moved(p) /\ SameCommand(p) /\ me[p].pc \in {"loop", "integrate"}
          /\ me'[p].pc = "checkpoint" /\ me'[p].next = n /\ me'[p].held = me[p].held
          /\ me'[p].run = me[p].run /\ history'.parent = history.parent
          /\ n \in Manifests /\ n.plan = me[p].held.plan /\ n.done = me[p].held.done \union DoneBy(t, o)
      BY <1>5, IntegrateShape
    <2>2. history'.finished = history.finished \union new
      BY <1>5, IntegrateShape
    <2>3. manifest' = manifest
      BY <1>5 DEF Integrate
    <2> HIDE DEF n
    <2>4. Steady /\ RecordsEarned'
      BY <2>1, <2>2, <2>3, SteadyStill, EarnedSame
    <2>5. PICK r \in Runs, m \in Manifests, k \in Manifests :
            /\ r = me[p].run /\ r = me'[p].run /\ m = me[p].held /\ m = me'[p].held
            /\ k = n /\ k = me'[p].next
            /\ Exists(r) /\ RecordOf(m, r) /\ k.plan = m.plan /\ k.done = m.done \union DoneBy(t, o)
      BY <1>1, <2>1
    <2>6. RecordOf(m, r)' /\ r \in Chain(r)'
      BY <2>4, <2>5, RecordKeep, ChainBelow DEF Steady, ChainsKept
    <2>7. Earned(k, r)'
      <3> SUFFICES ASSUME NEW d \in k.done
                   PROVE  \E f \in history'.finished :
                            /\ f.task = d /\ Exists(f.run)' /\ manifest'[f.run].plan = k.plan
                            /\ f.run \in Chain(r)'
        BY DEF Earned
      <3>1. CASE d \in m.done
        BY <2>5, <2>6, <3>1 DEF RecordOf, Earned
      <3>2. CASE d \in DoneBy(t, o)
        <4>1. Merged(d, r) \in history'.finished
          BY <2>2, <2>5, <3>2
        <4>2. Merged(d, r).task = d /\ Merged(d, r).run = r
          BY DEF Merged
        <4>3. manifest'[r].plan = k.plan /\ Exists(r)'
          BY <2>3, <2>5 DEF RecordOf, Exists
        <4> QED
          BY <2>6, <4>1, <4>2, <4>3
      <3> QED
        BY <2>5, <3>1, <3>2
    <2>8. RecordOf(k, r)'
      BY <2>5, <2>6, <2>7 DEF RecordOf
    <2>9. me[p].kind = "resume" => history'.parent[me[p].run] = me[p].target
      BY <2>1 DEF EarnedInv, EarnedAt
    <2>10. EarnedAt(me[p])'
      BY <2>1, <2>5, <2>6, <2>8, <2>9 DEF EarnedAt, RecordOf, Earned, SameCommand
    <2> QED
      BY <2>1, <2>4, <2>10, EarnedStep
  <1>6. ASSUME NEW aborted \in BOOLEAN, Finish(p, aborted) PROVE EarnedInv'
    <2> DEFINE n == Final(me[p].held, aborted)
    <2>1. /\ Moved(p) /\ SameCommand(p) /\ me[p].pc \in {"loop", "spawn"}
          /\ me'[p].pc \in {"clean", "close"} /\ me'[p].next = n /\ me'[p].run = me[p].run
      BY <1>6, FinishShape
    <2>2. n.done = me[p].held.done /\ n.plan = me[p].held.plan
      BY <1>1, <2>1, LoopFacts, FinalTyped
    <2> HIDE DEF n
    <2>3. RecordOf(n, me[p].run)
      BY <1>1, <2>1, <2>2, EarnedLike
    <2>4. Steady /\ RecordsEarned'
      BY <1>6, SteadyStill, EarnedSame DEF Finish
    <2> QED
      BY <2>1, <2>3, <2>4, EarnedGoesOn
  <1>7. ASSUME NEW s \in TerminalStatus, Leave(p), history' = history,
               me[p].pc \in Looping \union {"plain"},
               manifest' = [manifest EXCEPT ![me[p].run] = WithStatus(me[p].held, s)]
        PROVE  EarnedInv'
    <2>1. /\ me[p].run \in Runs /\ Exists(me[p].run) /\ me[p].held \in Manifests
          /\ RecordOf(me[p].held, me[p].run)
      BY <1>1, <1>7, At_p DEF KindAt, Invocation, EarnedInv, EarnedAt
    <2> DEFINE n == WithStatus(me[p].held, s)
    <2>2. n \in Manifests /\ n.done = me[p].held.done /\ n.plan = me[p].held.plan
      BY <2>1, WithStatusTyped
    <2>3. RecordOf(n, me[p].run)
      BY <2>1, <2>2, EarnedLike
    <2> QED
      BY <1>7, <2>1, <2>2, <2>3, LeaveRecord
  <1>8. CASE Close(p)
    <2>1. Leave(p) /\ history' = history
      BY <1>8 DEF Close
    <2>2. CASE me[p].pc = "close" /\ manifest' = [manifest EXCEPT ![me[p].run] = me[p].next]
      <3>1. /\ me[p].run \in Runs /\ Exists(me[p].run) /\ me[p].next \in Manifests
            /\ RecordOf(me[p].next, me[p].run)
        BY <2>2, At_p DEF KindAt, Invocation, EarnedInv, EarnedAt
      <3> QED
        BY <2>1, <2>2, <3>1, LeaveRecord
    <2> QED
      BY <1>7, <1>8, <2>1, <2>2 DEF Close, Mine, TerminalStatus
  <1>9. CASE Throw(p)
    BY <1>7, <1>9 DEF Throw, EndFailed, TerminalStatus
  <1>10. CASE WriteFails(p)
    <2>1. /\ me[p].pc = "checkpoint" /\ Leave(p) /\ history' = history
          /\ \E m \in {manifest[me[p].run], me[p].next, Unrecoverable(me[p].held)} :
               manifest' = [manifest EXCEPT ![me[p].run] = m]
      BY <1>10 DEF WriteFails, Mine
    <2>2. manifest[me[p].run] \in Manifests /\ RecordOf(manifest[me[p].run], me[p].run)
      BY <1>1, <2>1 DEF EarnedInv, RecordsEarned, RecordOf, Exists, BaseInv, TypeInv, StateTyped
    <2> DEFINE n == Unrecoverable(me[p].held)
    <2>3. n \in Manifests /\ n.done = me[p].held.done /\ n.plan = me[p].held.plan
      BY <1>1, <2>1, UnrecoverableTyped
    <2>4. \E m \in {manifest[me[p].run], me[p].next, n} :
            manifest' = [manifest EXCEPT ![me[p].run] = m]
      BY <2>1
    <2> HIDE DEF n
    <2>5. RecordOf(n, me[p].run)
      BY <1>1, <2>1, <2>3, EarnedLike
    <2> QED
      BY <1>1, <2>1, <2>2, <2>3, <2>4, <2>5, LeaveRecord
  <1> QED
    BY <1>2, <1>3, <1>4, <1>5, <1>6, <1>8, <1>9, <1>10 DEF Loop

LEMMA EarnedDecision ==
  ASSUME BaseInv, EarnedInv, NEW p \in Processes, Decision(p)
  PROVE  EarnedInv'
  <1> USE DEF Owning, Recording, Looping, Leaving
  <1>0. /\ history' = history /\ KindAt(me[p]) /\ me[p] \in Invocation /\ EarnedAt(me[p])
        /\ me[p].run \in Runs /\ Exists(me[p].run)
    BY At_p DEF Decision, Apply, Abort, Decide, Clean, Prune, KindAt, Invocation, EarnedInv
  <1>1. manifest' = manifest => Steady /\ RecordsEarned'
    BY <1>0, SteadyStill, EarnedSame
  <1>2. CASE Leave(p) /\ manifest' = manifest
    BY <1>1, <1>2, LeaveEarned
  (* The outcome of a decision, from what was held since it began.         *)
  <1>3. ASSUME NEW s \in TerminalStatus, me[p].pc \in {"apply", "abort"}, manifest' = manifest,
               Moved(p), SameCommand(p), me'[p].pc \in {"decide", "clean"}, me'[p].run = me[p].run,
               me'[p].next = WithStatus(me[p].held, s)
        PROVE  EarnedInv'
    <2> DEFINE n == WithStatus(me[p].held, s)
    <2>1. me[p].held \in Manifests /\ RecordOf(me[p].held, me[p].run)
      BY <1>0, <1>3 DEF KindAt, Invocation, EarnedAt
    <2>2. n \in Manifests /\ n.done = me[p].held.done /\ n.plan = me[p].held.plan
      BY <2>1, WithStatusTyped
    <2>3. me'[p].next = n
      BY <1>3
    <2> HIDE DEF n
    <2>4. PICK m \in Manifests, r \in Runs :
            m = n /\ m = me'[p].next /\ r = me[p].run /\ r = me'[p].run /\ Exists(r) /\ RecordOf(m, r)
      BY <1>0, <1>3, <2>1, <2>2, <2>3, EarnedLike
    <2>5. RecordOf(m, r)'
      BY <1>1, <1>3, <2>4, RecordKeep
    <2>6. EarnedAt(me[p])'
      BY <1>3, <2>4, <2>5 DEF EarnedAt, RecordOf, Earned
    <2> QED
      BY <1>1, <1>3, <2>6, EarnedStep
  <1>4. ASSUME NEW pc \in {"clean", "prune", "decide", "close"}, Goto(p, pc),
               me[p].pc \in Leaving \union {"decide"}, Steady, RecordsEarned'
        PROVE  EarnedInv'
    <2>1. /\ Moved(p) /\ me'[p].pc = pc /\ me'[p].run = me[p].run /\ me'[p].next = me[p].next
      BY <1>4, GotoShape DEF BaseInv, Places
    <2>2. PICK m \in Manifests, r \in Runs :
            /\ m = me[p].next /\ m = me'[p].next /\ r = me[p].run /\ r = me'[p].run
            /\ Exists(r) /\ RecordOf(m, r)
      BY <1>0, <1>4, <2>1 DEF EarnedAt, KindAt, Invocation
    <2>3. RecordOf(m, r)'
      BY <1>4, <2>2, RecordKeep
    <2>4. EarnedAt(me[p])'
      BY <1>4, <2>1, <2>2, <2>3 DEF EarnedAt, RecordOf, Earned
    <2> QED
      BY <1>4, <2>1, <2>4, EarnedStep
  <1>5. CASE Apply(p) /\ ~Leave(p)
    <2>1. /\ Moved(p) /\ SameCommand(p) /\ me'[p].pc = "decide" /\ me'[p].run = me[p].run
          /\ me'[p].next = WithStatus(me[p].held, "applied")
      BY <1>5, ApplyShape
    <2> QED
      BY <1>3, <1>5, <2>1 DEF Apply, TerminalStatus
  <1>6. CASE Abort(p) /\ ~Leave(p)
    <2>1. /\ Moved(p) /\ SameCommand(p) /\ me'[p].pc = "clean" /\ me'[p].run = me[p].run
          /\ me'[p].next = WithStatus(me[p].held, "aborted")
      BY <1>6, AbortShape
    <2> QED
      BY <1>3, <1>6, <2>1 DEF Abort, TerminalStatus
  <1>7. CASE Decide(p)
    <2>1. PICK m \in Manifests, r \in Runs :
            m = me[p].next /\ r = me[p].run /\ Exists(r) /\ RecordOf(m, r)
      BY <1>0, <1>7 DEF Decide, EarnedAt, KindAt, Invocation
    <2>2. manifest' = [manifest EXCEPT ![r] = m]
      BY <1>7, <2>1 DEF Decide
    <2>3. Steady
      BY <1>0, <2>1, <2>2, SteadyWrite DEF RecordOf
    <2>4. RecordsEarned'
      BY <2>1, <2>2, <2>3, RecordKeep, EarnedWritten DEF RecordOf
    <2> QED
      BY <1>4, <1>7, <2>3, <2>4, LeaveEarned DEF Decide
  <1>8. CASE Clean(p)
    BY <1>1, <1>4, <1>8 DEF Clean
  <1>9. CASE Prune(p)
    BY <1>1, <1>2, <1>4, <1>9 DEF Prune
  <1> QED
    BY <1>2, <1>5, <1>6, <1>7, <1>8, <1>9 DEF Decision, Apply, Abort

LEMMA EarnedUntouched ==
  ASSUME EarnedInv, UNCHANGED <<manifest, me, history>>
  PROVE  EarnedInv'
  <1>1. \A r : Chain(r)' = Chain(r)
    BY DEF Chain
  <1>2. \A r : Exists(r)' <=> Exists(r)
    BY DEF Exists
  <1>3. \A m, r : Earned(m, r)' <=> Earned(m, r)
    BY <1>1, <1>2 DEF Earned
  <1>4. \A m, r : RecordOf(m, r)' <=> RecordOf(m, r)
    BY <1>3 DEF RecordOf
  <1>5. RecordsEarned'
    BY <1>2, <1>3 DEF EarnedInv, RecordsEarned
  <1>6. ASSUME NEW p \in Processes PROVE EarnedAt(me[p])'
    <2>1. EarnedAt(me[p])
      BY DEF EarnedInv
    <2> QED
      BY <2>1, <1>3, <1>4 DEF EarnedAt
  <1> QED
    BY <1>5, <1>6 DEF EarnedInv

(* What is on record as done was done by a run of the chain, with all that *)
(* this rests on: what every command holds in memory.                      *)
THEOREM EarnedInvariant == Spec => []EarnedInv
  <1>1. Init => EarnedInv
    BY IdleTyped
    DEF Init, EarnedInv, EarnedAt, RecordsEarned, Exists, Owning, Recording, Looping, Leaving
  <1>2. BaseInv /\ EarnedInv /\ [Next]_vars => EarnedInv'
    <2> SUFFICES ASSUME BaseInv, EarnedInv, [Next]_vars PROVE EarnedInv'
      OBVIOUS
    <2>1. CASE UNCHANGED <<manifest, me, history>>
      BY <2>1, EarnedUntouched
    <2>2. ASSUME NEW p \in Processes, Crash(p) PROVE EarnedInv'
      <3>1. /\ UNCHANGED <<manifest, history>> /\ Leave(p)
        BY <2>2 DEF Crash
      <3> QED
        BY <3>1, SteadyStill, EarnedSame, LeaveEarned
    <2>3. ASSUME NEW p \in Processes, Start(p) PROVE EarnedInv'
      BY <2>3, EarnedGuards, EarnedMarks, EarnedCreate, EarnedSetUp DEF Start
    <2> QED
      BY <2>1, <2>2, <2>3, EarnedBegin, EarnedLoop, EarnedDecision
      DEF Next, vars, WorkerMoves, WorkerEnds, WriteSentinel, Commit, Edit, Discard, ApprovePlan
  <1> QED
    BY <1>1, <1>2, BaseInvariant, PTL DEF Spec

(* A task that a resumed run skips was finished by a run of its chain, of  *)
(* the plan this run executes.                                             *)
THEOREM OnlyEarnedIsSkipped == Spec => []SkipsAreEarned
  <1>1. BaseInv /\ EarnedInv => SkipsAreEarned
    <2> SUFFICES ASSUME BaseInv, EarnedInv, NEW p \in Processes,
                        me[p].pc \in {"create", "record", "setup", "loop"},
                        me[p].kind = "resume", NEW t \in me[p].held.done
                 PROVE  \E f \in history.finished :
                          /\ f.task = t /\ manifest[f.run].plan = me[p].held.plan
                          /\ f.run \in Chain(me[p].target) \union {me[p].run}
      BY DEF SkipsAreEarned
    <2>1. EarnedAt(me[p]) /\ KindAt(me[p]) /\ me[p] \in Invocation
      BY At_p DEF EarnedInv
    <2>2. CASE me[p].pc = "create"
      <3>1. Earned(me[p].held, me[p].target)
        BY <2>1, <2>2 DEF EarnedAt
      <3> QED
        BY <3>1 DEF Earned
    <2>3. CASE me[p].pc # "create"
      <3>1. /\ Earned(me[p].held, me[p].run) /\ history.parent[me[p].run] = me[p].target
            /\ me[p].run \in Runs /\ me[p].target # NoRun
        BY <2>1, <2>3
        DEF EarnedAt, KindAt, Invocation, RecordOf, Owning, Recording, Looping, Leaving
      <3>2. Chain(me[p].run) = {me[p].run} \union Chain(me[p].target)
        BY <3>1, ParentsOrdered, LinksUnfold, ChainLinks
      <3> QED
        BY <3>1, <3>2 DEF Earned
    <2> QED
      BY <2>2, <2>3
  <1> QED
    BY <1>1, BaseInvariant, EarnedInvariant, PTL

(***************************************************************************)
(* A run whose branch is not set up yet, and a plain run, which gets none, *)
(* have a record of their own, which is not that of the last run.          *)
(***************************************************************************)
Unset == {"plain"} \union Recording

RecordsApart ==
  \A p \in Processes : me[p].pc \in Unset =>
    /\ me[p].run # history.last
    /\ \A q \in Processes \ {p} : me[q].pc \in Unset => me[q].run # me[p].run

(* What is not set up after a step was not before it, and is the same run. *)
Unchanging(p) ==
  /\ Moved(p) /\ history'.last = history.last
  /\ me'[p].pc \in Unset => me[p].pc \in Unset /\ me'[p].run = me[p].run

LEMMA ApartKeep ==
  ASSUME RecordsApart, NEW p \in Processes, Unchanging(p)
  PROVE  RecordsApart'
  <1>1. \A q \in Processes : me'[q].pc \in Unset => me[q].pc \in Unset /\ me'[q].run = me[q].run
    BY DEF Unchanging, Moved, Others
  <1> QED
    BY <1>1 DEF RecordsApart, Unchanging

LEMMA ApartLeave ==
  ASSUME BaseInv, NEW p \in Processes, Leave(p), history' = history
  PROVE  Unchanging(p)
  BY LeaveShape, IdleTyped DEF BaseInv, Unchanging, Unset, Recording

LEMMA ApartBegin == ASSUME BaseInv, NEW p \in Processes, Begin(p) PROVE Unchanging(p)
  <1>0. history' = history
    BY DEF Begin, BeginLocked, BeginPlain, BeginDecision, TakeLock
  <1>1. CASE TakeLock(p)
    <2>1. CASE Leave(p)
      BY <1>0, <2>1, ApartLeave
    <2>2. CASE me[p].kind \in Places /\ Goto(p, me[p].kind)
      <3>1. me[p].kind \in DecisionKinds
        BY <1>1, At_p DEF TakeLock, KindAt
      <3>2. Moved(p) /\ me'[p].pc = me[p].kind
        BY <2>2, GotoShape DEF BaseInv
      <3> QED
        BY <1>0, <3>1, <3>2 DEF Unchanging, Unset, Recording, DecisionKinds
    <2> QED
      BY <1>1, <2>1, <2>2, TakeLockShape DEF BaseInv
  <1>2. CASE ~TakeLock(p)
    <2>1. Moved(p) /\ me'[p].pc \in {"guard", "stale", "lock"}
      BY <1>2, BeginLockedShape, BeginPlainShape, BeginDecisionShape DEF Begin, BaseInv
    <2> QED
      BY <1>0, <2>1 DEF Unchanging, Unset, Recording
  <1> QED
    BY <1>1, <1>2

LEMMA ApartStart == ASSUME BaseInv, RecordsApart, NEW p \in Processes, Start(p) PROVE RecordsApart'
  <1> USE DEF Unset, Recording
  <1>1. CASE Fresh(p) \/ Resume(p) \/ Review(p)
    <2>1. history' = history
      BY <1>1 DEF Fresh, Resume, Review
    <2>2. Leave(p) \/ (Moved(p) /\ me'[p].pc \in {"stale", "create"})
      BY <1>1, FreshShape, ResumeShape, ReviewShape DEF BaseInv
    <2> QED
      BY <2>1, <2>2, ApartLeave, ApartKeep DEF Unchanging
  <1>2. CASE Mark(p) \/ NoneStale(p) \/ \E r \in Runs : ReadStale(p, r)
    <2>1. history' = history
      BY <1>2 DEF Mark, NoneStale, ReadStale
    <2>2. Moved(p) /\ me'[p].pc \in {"stale", "create", "mark"}
      BY <1>2, MarkShape, NoneStaleShape, ReadStaleShape DEF BaseInv
    <2> QED
      BY <2>1, <2>2, ApartKeep DEF Unchanging
  <1>3. CASE Create(p)
    <2>1. PICK r \in Runs : /\ Moved(p) /\ me'[p].run = r /\ ~Exists(r)
                            /\ history'.last = history.last
      BY <1>3, CreateShape DEF BaseInv
    <2>2. \A q \in Processes \ {p} : me'[q] = me[q] /\ (me[q].pc \in Unset => me[q].run # r)
      BY <2>1, At_p DEF Moved, Others, KindAt, Owning
    <2>3. r # history.last
      BY <2>1, ConstantFacts DEF BaseInv, RunsInv
    <2> QED
      BY <2>1, <2>2, <2>3 DEF RecordsApart
  <1>4. CASE Record(p)
    <2>1. Moved(p) /\ me[p].pc = "record" /\ me'[p].run = me[p].run /\ history' = history
      BY <1>4, RecordShape DEF BaseInv, Record
    <2> QED
      BY <2>1, ApartKeep DEF Unchanging
  <1>5. CASE Setup(p)
    <2>1. CASE EndFailed(p) /\ UNCHANGED <<branch, worktrees, history>>
      BY <2>1, ApartLeave, ApartKeep DEF EndFailed
    <2>2. CASE ~(EndFailed(p) /\ UNCHANGED <<branch, worktrees, history>>)
      <3>1. Moved(p) /\ me'[p].pc = "loop" /\ history'.last = me[p].run
        BY <1>5, <2>2, SetupShape
      <3>2. me[p].pc = "setup"
        BY <1>5 DEF Setup
      <3> QED
        BY <3>1, <3>2 DEF RecordsApart, Moved, Others
    <2> QED
      BY <2>1, <2>2
  <1> QED
    BY <1>1, <1>2, <1>3, <1>4, <1>5 DEF Start

LEMMA ApartLoop == ASSUME BaseInv, NEW p \in Processes, Loop(p) PROVE Unchanging(p)
  <1> USE DEF Unset, Recording
  <1>1. CASE \E t \in Tasks : Reserve(p, t)
    BY <1>1, ReserveShape DEF Reserve, Unchanging
  <1>2. CASE Spawn(p)
    BY <1>2, SpawnShape DEF Unchanging
  <1>3. CASE \E t \in Tasks, o \in {"merged", "unchanged", "failed"} : Integrate(p, t, o)
    BY <1>3, IntegrateShape DEF Unchanging
  <1>4. CASE Checkpoint(p)
    BY <1>4, CheckpointShape DEF Checkpoint, Unchanging
  <1>5. CASE \E aborted \in BOOLEAN : Finish(p, aborted)
    BY <1>5, FinishShape DEF Finish, Unchanging
  <1>6. CASE Close(p) \/ Throw(p) \/ WriteFails(p)
    BY <1>6, ApartLeave DEF Close, Throw, WriteFails, EndFailed
  <1> QED
    BY <1>1, <1>2, <1>3, <1>4, <1>5, <1>6 DEF Loop

LEMMA ApartDecision == ASSUME BaseInv, NEW p \in Processes, Decision(p) PROVE Unchanging(p)
  <1> USE DEF Unset, Recording
  <1>1. history' = history
    BY DEF Decision, Apply, Abort, Decide, Clean, Prune
  <1>2. CASE Leave(p)
    BY <1>1, <1>2, ApartLeave
  <1>3. CASE Apply(p) /\ ~Leave(p)
    BY <1>1, <1>3, ApplyShape DEF Unchanging
  <1>4. CASE Abort(p) /\ ~Leave(p)
    BY <1>1, <1>4, AbortShape DEF Unchanging
  <1>5. ASSUME NEW pc \in {"clean", "prune", "decide", "close"}, Goto(p, pc) PROVE Unchanging(p)
    <2>1. Moved(p) /\ me'[p].pc = pc
      BY <1>5, GotoShape DEF BaseInv, Places
    <2> QED
      BY <1>1, <1>5, <2>1 DEF Unchanging
  <1> QED
    BY <1>2, <1>3, <1>4, <1>5 DEF Decision, Decide, Clean, Prune

LEMMA ApartInvariant == Spec => []RecordsApart
  <1>1. Init => RecordsApart
    BY IdleTyped DEF Init, RecordsApart, Unset, Recording
  <1>2. BaseInv /\ RecordsApart /\ [Next]_vars => RecordsApart'
    <2> SUFFICES ASSUME BaseInv, RecordsApart, [Next]_vars PROVE RecordsApart'
      OBVIOUS
    <2>1. CASE UNCHANGED <<me, history>>
      BY <2>1 DEF RecordsApart
    <2>2. ASSUME NEW p \in Processes, Crash(p) PROVE Unchanging(p)
      BY <2>2, ApartLeave DEF Crash
    <2> QED
      BY <2>1, <2>2, ApartBegin, ApartStart, ApartLoop, ApartDecision, ApartKeep
      DEF Next, vars, WorkerMoves, WorkerEnds, WriteSentinel, Commit, Edit, Discard, ApprovePlan
  <1> QED
    BY <1>1, <1>2, BaseInvariant, PTL DEF Spec

(***************************************************************************)
(* The record of the last run is on the branch, or a run without the lock  *)
(* has marked it with what it read before the integration was on it.       *)
(***************************************************************************)
OnBranch(i) == branch # NoBranch => i # NoIntegration /\ IsPrefix(i.tip.work, branch.work)

Prefixed(m) == OnBranch(m.integration)

IsMarked(m) == m.status = "interrupted" /\ ~m.safe
Marked(m)   == IsMarked(m) /\ m.integration = NoIntegration
Claimed(m)  == Prefixed(m) \/ Marked(m)

(* What may be read of the integration of a run that is not set up yet.    *)
SaysOf(m, i) == i = NoIntegration \/ (m.pc = "setup" /\ i = m.held.integration)

(* What is on record of a run before its branch is set up.                 *)
RecordAt(m) ==
  m.pc \in Recording =>
    /\ SaysOf(m, manifest[m.run].integration)
    /\ m.pc = "setup" /\ manifest[m.run].integration = NoIntegration => IsMarked(manifest[m.run])

(* What a command may still write to the record of the last run.           *)
ClaimAt(m) ==
  /\ m.pc = "setup" =>
       /\ Prefixed(m.held)
       /\ IF m.from # NoIntegration THEN m.held.integration = m.from
          ELSE m.held.integration.tip.work = <<>>
  /\ m.pc \in Looping => Prefixed(m.held)
  /\ m.pc \in Looping \union Leaving \union {"decide"} => Prefixed(m.next)

(* A mark that is about to be written, of whichever run.                   *)
MarkSays(m) ==
  m.pc = "mark" =>
    /\ IsMarked(m.next)
    /\ m.run = history.last => m.next.integration = NoIntegration \/ Prefixed(m.next)
    /\ \A p \in Processes :
         me[p].pc \in Recording /\ me[p].run = m.run => SaysOf(me[p], m.next.integration)

MarkInv == \A p \in Processes : MarkSays(me[p])

LastClaimed ==
  /\ history.last # NoRun => Claimed(manifest[history.last])
  /\ branch # NoBranch => history.last # NoRun

ClaimInv ==
  /\ LastClaimed /\ MarkInv
  /\ \A p \in Processes : Holds(me[p]) => ClaimAt(me[p]) /\ RecordAt(me[p])

LEMMA PrefixEmpty ==
  ASSUME NEW S, NEW s \in Seq(S), NEW e, e = <<>>
  PROVE  IsPrefix(e, s)
  BY DEF IsPrefix

LEMMA PrefixLonger ==
  ASSUME NEW S, NEW s \in Seq(S), NEW t \in Seq(S), NEW e \in S, IsPrefix(s, t)
  PROVE  IsPrefix(s, Append(t, e))
  <1>1. /\ Len(s) \in Nat /\ Len(t) \in Nat /\ Len(s) <= Len(t)
        /\ SubSeq(s, 1, Len(s)) = SubSeq(t, 1, Len(s))
    BY DEF IsPrefix
  <1>2. /\ Len(Append(t, e)) = Len(t) + 1
        /\ \A i \in 1..Len(t) : Append(t, e)[i] = t[i]
    OBVIOUS
  <1>3. SubSeq(Append(t, e), 1, Len(s)) = SubSeq(t, 1, Len(s))
    BY <1>1, <1>2
  <1> QED
    BY <1>1, <1>2, <1>3 DEF IsPrefix

(* A branch that stays, or goes, keeps what is on it.                      *)
LEMMA OnBranchKeep ==
  ASSUME branch' \in {branch, NoBranch}
  PROVE  \A i : OnBranch(i) => OnBranch(i)'
  BY DEF OnBranch

(* The marks are not disturbed by a step that neither moves the branch     *)
(* nor is about a run that is not set up.                                  *)
Marking == {"mark"} \union Recording

Unmarking(p) ==
  me'[p].pc \notin Marking /\ history'.last = history.last /\ branch' \in {branch, NoBranch}

LEMMA MarksKeep ==
  ASSUME MarkInv, NEW p \in Processes, Moved(p), Unmarking(p)
  PROVE  MarkInv'
  <1> SUFFICES ASSUME NEW q \in Processes, me'[q].pc = "mark" PROVE MarkSays(me[q])'
    BY DEF MarkInv, MarkSays
  <1>1. q # p /\ me'[q] = me[q] /\ MarkSays(me[q])
    BY DEF Moved, Others, Unmarking, Marking, MarkInv
  <1>2. me[q].run = history'.last => me[q].next.integration = NoIntegration \/ Prefixed(me[q].next)'
    BY <1>1, OnBranchKeep DEF MarkSays, Prefixed, Unmarking
  <1>3. ASSUME NEW r \in Processes, me'[r].pc \in Recording PROVE me'[r] = me[r]
    BY <1>3 DEF Moved, Others, Unmarking, Marking
  <1> QED
    BY <1>1, <1>2, <1>3 DEF MarkSays, SaysOf, IsMarked

(* What a step does not do to the commands that have the lock.             *)
Aloof(p) ==
  /\ branch' = branch
  /\ \A q \in Processes \ {p} : RecordAt(me[q]) => RecordAt(me[q])'

LEMMA ClaimKeep ==
  ASSUME BaseInv, ClaimInv, NEW p \in Processes, Moved(p), LastClaimed',
         Unmarking(p) \/ MarkInv',
         Holds(me[p]) \/ lock = Nobody \/ UNCHANGED <<manifest, branch>> \/ Aloof(p),
         Holds(me[p])' => ClaimAt(me[p])' /\ RecordAt(me[p])'
  PROVE  ClaimInv'
  <1>1. MarkInv'
    BY MarksKeep DEF ClaimInv
  <1>2. ASSUME NEW q \in Processes, q # p, Holds(me[q])' PROVE ClaimAt(me[q])' /\ RecordAt(me[q])'
    <2>1. /\ ClaimAt(me[q]) /\ RecordAt(me[q]) /\ me'[q] = me[q]
          /\ UNCHANGED <<manifest, branch>> \/ Aloof(p)
      BY <1>2, Alone DEF ClaimInv, Holds, Moved, Others
    <2>2. branch' = branch /\ RecordAt(me[q])'
      BY <1>2, <2>1 DEF Aloof, RecordAt, SaysOf, IsMarked
    <2>3. ClaimAt(me[q])'
      BY <2>1, <2>2 DEF ClaimAt, Prefixed, OnBranch
    <2> QED
      BY <2>2, <2>3
  <1> QED
    BY <1>1, <1>2 DEF ClaimInv

LEMMA LeaveClaim ==
  ASSUME BaseInv, ClaimInv, NEW p \in Processes, Leave(p), LastClaimed',
         history'.last = history.last, branch' \in {branch, NoBranch},
         Holds(me[p]) \/ UNCHANGED <<manifest, branch>> \/ Aloof(p)
  PROVE  ClaimInv'
  <1>1. Moved(p) /\ me'[p] = Idle
    BY LeaveShape DEF BaseInv
  <1>2. ~Holds(me[p])' /\ Unmarking(p)
    BY <1>1, IdleTyped DEF Holds, Idle, Unmarking, Marking, Recording
  <1> QED
    BY <1>1, <1>2, ClaimKeep

LEMMA LastStill ==
  ASSUME ClaimInv, UNCHANGED <<manifest, history>>, branch' \in {branch, NoBranch}
  PROVE  LastClaimed'
  BY OnBranchKeep DEF ClaimInv, LastClaimed, Claimed, Prefixed, Marked, IsMarked

LEMMA LastWritten ==
  ASSUME BaseInv, ClaimInv, NEW r \in Runs, NEW m, r = history.last => Claimed(m),
         manifest' = [manifest EXCEPT ![r] = m], history'.last = history.last, branch' = branch
  PROVE  LastClaimed'
  <1>1. history.last \in Runs \union {NoRun} /\ manifest'[r] = m
        /\ \A s \in Runs : s # r => manifest'[s] = manifest[s]
    BY DEF BaseInv, TypeInv, StateTyped, Histories
  <1>2. \A i : OnBranch(i) => OnBranch(i)'
    BY OnBranchKeep
  <1>3. history.last # NoRun => Claimed(manifest'[history.last])
    BY <1>1 DEF ClaimInv, LastClaimed
  <1> QED
    BY <1>2, <1>3 DEF ClaimInv, LastClaimed, Claimed, Marked, IsMarked, Prefixed

(* A command in a place from which it writes nothing as it is.             *)
LEMMA ClaimElsewhere ==
  ASSUME BaseInv, ClaimInv, NEW p \in Processes, Moved(p), LastClaimed',
         me'[p].pc \in {"lock", "guard", "stale", "create", "apply", "abort", "plain"},
         history'.last = history.last, branch' = branch,
         Holds(me[p]) \/ lock = Nobody \/ UNCHANGED <<manifest, branch>> \/ Aloof(p)
  PROVE  ClaimInv'
  <1>1. ClaimAt(me[p])' /\ RecordAt(me[p])' /\ Unmarking(p)
    BY DEF ClaimAt, RecordAt, Looping, Leaving, Recording, Unmarking, Marking
  <1> QED
    BY <1>1, ClaimKeep

LEMMA ClaimBegin == ASSUME BaseInv, ClaimInv, NEW p \in Processes, Begin(p) PROVE ClaimInv'
  <1>0. UNCHANGED <<manifest, branch, history>> /\ LastClaimed'
    BY LastStill DEF Begin, BeginLocked, BeginPlain, BeginDecision, TakeLock, git
  <1>1. CASE TakeLock(p)
    <2>1. CASE Leave(p)
      BY <1>0, <2>1, LeaveClaim
    <2>2. CASE me[p].kind \in Places /\ Goto(p, me[p].kind)
      <3>1. me[p].kind \in DecisionKinds
        BY <1>1, At_p DEF TakeLock, KindAt
      <3>2. Moved(p) /\ me'[p].pc = me[p].kind
        BY <2>2, GotoShape DEF BaseInv
      <3> QED
        BY <1>0, <3>1, <3>2, ClaimElsewhere DEF DecisionKinds
    <2> QED
      BY <1>1, <2>1, <2>2, TakeLockShape DEF BaseInv
  <1>2. CASE ~TakeLock(p)
    <2>1. Moved(p) /\ me'[p].pc \in {"guard", "stale", "lock"}
      BY <1>2, BeginLockedShape, BeginPlainShape, BeginDecisionShape DEF Begin, BaseInv
    <2> QED
      BY <1>0, <2>1, ClaimElsewhere
  <1> QED
    BY <1>1, <1>2

LEMMA ClaimStart ==
  ASSUME BaseInv, RecordsApart, ClaimInv, NEW p \in Processes, Start(p)
  PROVE  ClaimInv'
  <1> USE DEF Recording, Looping, Leaving, Owning, RunKinds, DecisionKinds
  <1>0. KindAt(me[p]) /\ me[p] \in Invocation
    BY At_p
  <1>1. /\ Holds(me[p]) => ClaimAt(me[p]) /\ RecordAt(me[p]) /\ BranchAt(me[p])
        /\ me[p].pc \notin {"stale", "mark", "create"} => Holds(me[p])
    <2>1. me[p].pc \notin {"stale", "mark", "create"} => Holds(me[p])
      BY <1>0 DEF Start, Fresh, Resume, Review, Mark, NoneStale, ReadStale, Create, Record, Setup,
         Holds, KindAt
    <2> QED
      BY <2>1, At_p DEF ClaimInv
  <1>2. CASE Fresh(p) \/ Resume(p) \/ Review(p)
    <2>1. LastClaimed' /\ UNCHANGED <<manifest, branch, history>>
      BY <1>2, LastStill DEF Fresh, Resume, Review, git
    <2>2. Leave(p) \/ (Moved(p) /\ me'[p].pc \in {"stale", "create"})
      BY <1>2, FreshShape, ResumeShape, ReviewShape DEF BaseInv
    <2> QED
      BY <2>1, <2>2, LeaveClaim, ClaimElsewhere
  <1>3. CASE Mark(p)
    <2>1. /\ Moved(p) /\ me[p].pc = "mark" /\ me'[p].pc = "stale"
          /\ me[p].run \in Runs /\ manifest' = [manifest EXCEPT ![me[p].run] = me[p].next]
          /\ UNCHANGED <<branch, history>>
      BY <1>3, MarkShape DEF BaseInv, Mark, git
    <2>2. MarkSays(me[p])
      BY DEF ClaimInv, MarkInv
    <2>3. LastClaimed'
      BY <2>1, <2>2, LastWritten DEF MarkSays, Claimed, Marked
    <2>4. ASSUME NEW q \in Processes, q # p, RecordAt(me[q]) PROVE RecordAt(me[q])'
      <3>1. me'[q] = me[q]
        BY <2>1, <2>4 DEF Moved, Others
      <3>2. me[q].run # me[p].run => manifest'[me[q].run] = manifest[me[q].run]
        BY <2>1 DEF BaseInv, TypeInv, StateTyped
      <3>3. manifest'[me[p].run] = me[p].next
        BY <2>1 DEF BaseInv, TypeInv, StateTyped
      <3> QED
        BY <2>1, <2>2, <2>4, <3>1, <3>2, <3>3 DEF RecordAt, MarkSays, SaysOf, IsMarked
    <2> QED
      BY <2>1, <2>3, <2>4, ClaimElsewhere DEF Aloof
  <1>4. CASE NoneStale(p)
    <2>1. Moved(p) /\ me'[p].pc = "create" /\ UNCHANGED <<manifest, branch, history>>
      BY <1>4, NoneStaleShape DEF BaseInv, NoneStale, git
    <2> QED
      BY <2>1, LastStill, ClaimElsewhere
  <1>5. ASSUME NEW r \in Runs, ReadStale(p, r) PROVE ClaimInv'
    <2>1. /\ Moved(p) /\ me'[p].pc = "mark" /\ me'[p].run = r
          /\ me'[p].next = Unrecoverable(manifest[r]) /\ Exists(r)
          /\ UNCHANGED <<manifest, branch, history>>
      BY <1>5, ReadStaleShape DEF BaseInv, ReadStale, git
    <2>2. manifest[r] \in Manifests
      BY <2>1 DEF BaseInv, TypeInv, StateTyped, Exists
    <2>3. /\ me'[p].next.integration = manifest[r].integration
          /\ IsMarked(me'[p].next)
      BY <2>1, <2>2, UnrecoverableTyped DEF IsMarked
    <2>4. LastClaimed'
      BY <2>1, LastStill
    <2>5. r = history.last =>
            manifest[r].integration = NoIntegration \/ OnBranch(manifest[r].integration)
      BY ConstantFacts DEF ClaimInv, LastClaimed, Claimed, Marked, Prefixed
    <2>6. \A q \in Processes : me[q].pc \in Recording /\ me[q].run = r =>
                               SaysOf(me[q], manifest[r].integration)
      <3> SUFFICES ASSUME NEW q \in Processes, me[q].pc \in Recording, me[q].run = r
                   PROVE  SaysOf(me[q], manifest[r].integration)
        OBVIOUS
      <3>1. Holds(me[q])
        BY At_p DEF KindAt, Holds
      <3> QED
        BY <3>1 DEF ClaimInv, RecordAt
    <2>7. MarkSays(me[p])'
      BY <2>1, <2>3, <2>5, <2>6 DEF MarkSays, Moved, Others, Prefixed, OnBranch, SaysOf
    <2>8. ASSUME NEW q \in Processes, q # p PROVE MarkSays(me[q])'
      <3>1. MarkSays(me[q]) /\ me'[q] = me[q]
        BY <2>1, <2>8 DEF ClaimInv, MarkInv, Moved, Others
      <3>2. \A x \in Processes : me'[x].pc \in Recording => me'[x] = me[x]
        BY <2>1 DEF Moved, Others
      <3> QED
        BY <2>1, <3>1, <3>2 DEF MarkSays, SaysOf, IsMarked, Prefixed, OnBranch
    <2>9. ClaimAt(me[p])' /\ RecordAt(me[p])'
      BY <2>1 DEF ClaimAt, RecordAt
    <2>10. MarkInv'
      BY <2>7, <2>8 DEF MarkInv
    <2> QED
      BY <2>1, <2>4, <2>9, <2>10, ClaimKeep
  <1>6. CASE Create(p)
    <2>1. PICK r \in Runs, m \in Manifests :
            /\ Moved(p) /\ me'[p].run = r /\ me'[p].pc \in {"plain", "record"}
            /\ ~Exists(r) /\ manifest' = [manifest EXCEPT ![r] = m]
            /\ m.integration = NoIntegration /\ history'.last = history.last
            /\ me[p].pc = "create" /\ branch' = branch
            /\ me'[p].pc = (IF me[p].kind = "plain" THEN "plain" ELSE "record")
      <3>1. PICK n \in Runs, m \in Manifests, t \in Runs \union {NoRun} : NewRun(p, n, m, t)
        BY <1>6, NewRunFacts
      <3>2. history'.last = history.last /\ branch' = branch
        BY <1>6, CreateShape DEF BaseInv, Create, git
      <3>3. m.integration = NoIntegration
        BY <3>1 DEF NewRun, Started, Manifests
      <3>4. me'[p].pc \in {"plain", "record"}
        BY <3>1 DEF NewRun
      <3> QED
        BY <3>1, <3>2, <3>3, <3>4 DEF NewRun
    <2>2. r # history.last
      BY <2>1, ConstantFacts DEF BaseInv, RunsInv
    <2>3. LastClaimed'
      BY <2>1, <2>2, LastWritten
    <2>4. manifest'[r] = m /\ \A s \in Runs : s # r => manifest'[s] = manifest[s]
      BY <2>1 DEF BaseInv, TypeInv, StateTyped
    <2>5. Aloof(p)
      <3> SUFFICES ASSUME NEW q \in Processes, q # p, RecordAt(me[q]), me[q].pc \in Recording
                   PROVE  RecordAt(me[q])'
        BY <2>1 DEF Aloof, RecordAt, Moved, Others
      <3>1. me'[q] = me[q] /\ me[q].run \in Runs /\ me[q].run # r
        BY <2>1, At_p DEF Moved, Others, KindAt, Invocation
      <3> QED
        BY <2>4, <3>1 DEF RecordAt, SaysOf, IsMarked
    <2>6. CASE me'[p].pc = "plain"
      BY <2>1, <2>3, <2>5, <2>6, ClaimElsewhere
    <2>7. CASE me'[p].pc = "record"
      <3>1. ClaimAt(me[p])' /\ RecordAt(me[p])'
        BY <2>1, <2>4, <2>7 DEF ClaimAt, RecordAt, SaysOf
      <3>2. ASSUME NEW q \in Processes PROVE MarkSays(me[q])'
        <4> SUFFICES ASSUME me'[q].pc = "mark" PROVE MarkSays(me[q])'
          BY DEF MarkSays
        <4>1. q # p /\ me'[q] = me[q] /\ MarkSays(me[q]) /\ me[q].run # r
          BY <2>1, <2>7, At_p DEF Moved, Others, ClaimInv, MarkInv, KindAt
        <4>2. \A x \in Processes : x # p => me'[x] = me[x]
          BY <2>1 DEF Moved, Others
        <4> QED
          BY <2>1, <4>1, <4>2 DEF MarkSays, SaysOf, IsMarked, Prefixed, OnBranch
      <3>3. MarkInv'
        BY <3>2 DEF MarkInv
      <3> QED
        BY <2>1, <2>3, <2>5, <3>1, <3>3, ClaimKeep
    <2> QED
      BY <2>1, <2>6, <2>7
  <1>7. CASE Record(p)
    <2> DEFINE n == WithIntegration(me[p].held, me[p].from, main.head)
    <2>1. /\ Moved(p) /\ SameCommand(p) /\ me'[p].pc = "setup" /\ me'[p].run = me[p].run
          /\ me[p].run \in Runs /\ me'[p].held = n /\ me'[p].from = me[p].from
          /\ me[p].held \in Manifests /\ me[p].from \in Integrations \union {NoIntegration}
          /\ main.head \in 0..MaxHead /\ me[p].pc = "record"
          /\ manifest' = [manifest EXCEPT ![me[p].run] = n]
          /\ UNCHANGED <<branch, history>>
      BY <1>7, RecordShape DEF BaseInv, Record, git
    <2>2. /\ me[p].from # NoIntegration => n.integration = me[p].from
          /\ me[p].from = NoIntegration => n.integration = [base |-> main.head, tip |-> At(main.head)]
          /\ n.integration # NoIntegration
      BY <2>1, WithIntegrationTyped
    <2>3. me[p].from = NoIntegration => n.integration.tip.work = <<>>
      BY <2>2 DEF At
    <2>4. me[p].from # NoIntegration => branch = me[p].from.tip
      BY <1>1, <2>1 DEF BranchAt
    <2>5. branch # NoBranch => branch.work \in Seq(Merges)
      BY DEF BaseInv, TypeInv, StateTyped, Commits, Works
    <2> HIDE DEF n
    <2>6. OnBranch(n.integration)
      BY <2>2, <2>3, <2>4, <2>5, PrefixSelf, PrefixEmpty DEF OnBranch
    <2>7. LastClaimed'
      BY <2>1, <2>6, LastWritten DEF Prefixed, Claimed
    <2>8. manifest'[me[p].run] = n
      BY <2>1 DEF BaseInv, TypeInv, StateTyped
    <2>9. ClaimAt(me[p])' /\ RecordAt(me[p])'
      BY <2>1, <2>2, <2>3, <2>6, <2>8 DEF ClaimAt, RecordAt, SaysOf, Prefixed, OnBranch
    <2>10. ASSUME NEW q \in Processes PROVE MarkSays(me[q])'
      <3> SUFFICES ASSUME me'[q].pc = "mark" PROVE MarkSays(me[q])'
        BY DEF MarkSays
      <3>1. q # p /\ me'[q] = me[q] /\ MarkSays(me[q])
        BY <2>1 DEF Moved, Others, ClaimInv, MarkInv
      <3>2. \A x \in Processes : x # p => me'[x] = me[x]
        BY <2>1 DEF Moved, Others
      <3>3. ASSUME NEW x \in Processes, me'[x].pc \in Recording, me'[x].run = me[q].run
            PROVE  SaysOf(me'[x], me[q].next.integration)
        <4>1. me[x].pc \in Recording /\ me[x].run = me[q].run
              /\ (me[x] = me'[x] \/ me[x].pc = "record")
          BY <2>1, <3>2, <3>3
        <4> QED
          BY <3>1, <4>1 DEF MarkSays, SaysOf
      <3> QED
        BY <2>1, <3>1, <3>3 DEF MarkSays, IsMarked, Prefixed, OnBranch, SaysOf
    <2>11. MarkInv'
      BY <2>10 DEF MarkInv
    <2> QED
      BY <1>1, <2>1, <2>7, <2>9, <2>11, ClaimKeep
  <1>8. CASE Setup(p)
    <2>1. me[p].pc = "setup" /\ me[p].run \in Runs /\ me[p].next = me[p].held
      BY <1>0, <1>1, <1>8 DEF Setup, KindAt, Invocation, BranchAt
    <2>11. Holds(me[p]) /\ ClaimAt(me[p]) /\ RecordAt(me[p]) /\ BranchAt(me[p])
      BY <1>1, <2>1
    <2>2. CASE EndFailed(p) /\ UNCHANGED <<branch, worktrees, history>>
      <3> DEFINE n == WithStatus(me[p].held, "failed")
      <3>1. n \in Manifests /\ manifest' = [manifest EXCEPT ![me[p].run] = n]
            /\ me[p].held \in Manifests
        BY <2>1, <2>2, EndFailedShape DEF BaseInv
      <3>2. n.integration = me[p].held.integration
        BY <3>1, WithStatusTyped DEF TerminalStatus
      <3> HIDE DEF n
      <3>3. LastClaimed'
        BY <2>11, <2>1, <2>2, <3>1, <3>2, LastWritten DEF ClaimAt, Prefixed, Claimed
      <3> QED
        BY <2>11, <2>2, <3>3, LeaveClaim DEF EndFailed
    <2>3. CASE ~(EndFailed(p) /\ UNCHANGED <<branch, worktrees, history>>)
      <3>1. /\ SetsUp(p) /\ Moved(p) /\ SameCommand(p) /\ manifest' = manifest
            /\ branch' = StartOf(me[p]) /\ branch' \in Commits
            /\ me'[p].pc = "loop" /\ me'[p].held = me[p].held /\ me'[p].next = me[p].next
            /\ history'.last = me[p].run /\ me[p].held \in Manifests
        BY <1>8, <2>3, SetupShape
      <3>11. me[p].held.integration \in Integrations
        BY <2>11, <2>1, <3>1 DEF BranchAt, Manifests
      <3>12. PICK i \in Integrations : i = me[p].held.integration /\ i = me'[p].held.integration
        BY <3>1, <3>11
      <3>2. /\ i # NoIntegration
            /\ \/ manifest'[me[p].run].integration = i
               \/ manifest'[me[p].run].integration = NoIntegration /\ IsMarked(manifest'[me[p].run])
            /\ IF me[p].from # NoIntegration THEN i = me[p].from ELSE i.tip.work = <<>>
        BY <2>11, <2>1, <3>1, <3>12 DEF ClaimAt, RecordAt, SaysOf, BranchAt
      <3>3. branch'.work \in Seq(Merges)
        BY <3>1 DEF Commits, Works
      <3>4. IsPrefix(i.tip.work, branch'.work)
        <4>1. CASE me[p].from # NoIntegration
          BY <3>1, <3>2, <3>3, <4>1, PrefixSelf DEF StartOf
        <4>2. CASE me[p].from = NoIntegration
          BY <3>2, <3>3, <4>2, PrefixEmpty
        <4> QED
          BY <4>1, <4>2
      <3>5. OnBranch(i)'
        BY <3>2, <3>4 DEF OnBranch
      <3>6. LastClaimed'
        BY <2>1, <3>1, <3>2, <3>5, ConstantFacts
        DEF LastClaimed, Claimed, Marked, IsMarked, Prefixed, OnBranch
      <3>7. ClaimAt(me[p])' /\ RecordAt(me[p])'
        BY <2>1, <3>1, <3>12, <3>5 DEF ClaimAt, RecordAt, Prefixed, OnBranch
      <3>8. ASSUME NEW q \in Processes, me'[q].pc = "mark" PROVE MarkSays(me[q])'
        <4>1. q # p /\ me'[q] = me[q] /\ MarkSays(me[q])
          BY <3>1, <3>8 DEF Moved, Others, ClaimInv, MarkInv
        <4>2. me[q].run = me[p].run =>
                me[q].next.integration = NoIntegration \/ me[q].next.integration = i
          BY <2>1, <3>8, <3>12, <4>1 DEF MarkSays, SaysOf
        <4>3. me[q].run = history'.last =>
                me[q].next.integration = NoIntegration \/ Prefixed(me[q].next)'
          BY <3>1, <3>5, <4>1, <4>2 DEF Prefixed, OnBranch
        <4>4. \A x \in Processes : me'[x].pc \in Recording => me'[x] = me[x]
          BY <3>1 DEF Moved, Others
        <4> QED
          BY <4>1, <4>3, <4>4 DEF MarkSays, SaysOf, IsMarked
      <3>9. MarkInv'
        BY <3>8 DEF MarkInv, MarkSays
      <3> QED
        BY <2>11, <3>1, <3>6, <3>7, <3>9, ClaimKeep
    <2> QED
      BY <2>2, <2>3
  <1> QED
    BY <1>2, <1>3, <1>4, <1>5, <1>6, <1>7, <1>8 DEF Start

(* A plain run ends, and writes the record that is its own.                *)
LEMMA ClaimPlain ==
  ASSUME BaseInv, RecordsApart, ClaimInv, NEW p \in Processes, Close(p), me[p].pc = "plain"
  PROVE  ClaimInv'
  <1>1. /\ me[p].run \in Runs /\ Leave(p) /\ UNCHANGED <<branch, history>>
        /\ me[p].run # history.last
    BY At_p DEF Close, KindAt, Invocation, git, RecordsApart, Unset
  <1>2. PICK m : manifest' = [manifest EXCEPT ![me[p].run] = m]
    BY DEF Close
  <1>3. LastClaimed'
    BY <1>1, <1>2, LastWritten
  <1>4. Aloof(p)
    <2> SUFFICES ASSUME NEW q \in Processes, q # p, RecordAt(me[q]), me[q].pc \in Recording
                 PROVE  RecordAt(me[q])'
      BY <1>1, LeaveShape DEF Aloof, RecordAt, Moved, Others, BaseInv
    <2>1. me'[q] = me[q] /\ me[q].run # me[p].run
      BY <1>1, LeaveShape DEF Moved, Others, BaseInv, RecordsApart, Unset
    <2>2. manifest'[me[q].run] = manifest[me[q].run]
      BY <1>2, <2>1 DEF BaseInv, TypeInv, StateTyped
    <2> QED
      BY <2>1, <2>2 DEF RecordAt, SaysOf, IsMarked
  <1> QED
    BY <1>1, <1>3, <1>4, LeaveClaim

LEMMA ClaimLoop ==
  ASSUME BaseInv, RecordsApart, ClaimInv, NEW p \in Processes, Loop(p)
  PROVE  ClaimInv'
  <1> USE DEF Looping, Leaving, RunKinds, DecisionKinds, Recording, Marking
  <1>0. CASE me[p].pc = "plain"
    <2>1. Close(p)
      BY <1>0 DEF Loop, Reserve, Integrate, Finish, Spawn, Checkpoint, Throw, WriteFails
    <2> QED
      BY <1>0, <2>1, ClaimPlain
  <1>01. SUFFICES ASSUME me[p].pc # "plain" PROVE ClaimInv'
    BY <1>0
  <1>1. /\ KindAt(me[p]) /\ me[p] \in Invocation
        /\ Holds(me[p]) /\ ClaimAt(me[p]) /\ BranchAt(me[p])
        /\ me[p].run \in Runs /\ me[p].held \in Manifests /\ me[p].next \in Manifests
    <2>1. KindAt(me[p]) /\ me[p] \in Invocation
      BY At_p
    <2>2. me[p].pc \in Looping \union {"close"}
      BY <1>01 DEF Loop, Reserve, Integrate, Finish, Spawn, Checkpoint, Close, Throw, WriteFails
    <2>3. Holds(me[p])
      BY <2>1, <2>2 DEF Holds, KindAt, Owning
    <2> QED
      BY <2>1, <2>2, <2>3, At_p DEF ClaimInv, KindAt, Invocation, Owning
  (* A record that is written says of the branch what was held.            *)
  <1>2. ASSUME NEW m, Prefixed(m), manifest' = [manifest EXCEPT ![me[p].run] = m],
               UNCHANGED <<branch, history>>
        PROVE  LastClaimed'
    BY <1>1, <1>2, LastWritten DEF Claimed
  <1>3. ASSUME NEW t \in Tasks, Reserve(p, t) PROVE ClaimInv'
    <2> DEFINE n == Reserved(me[p].held)
    <2>1. /\ Moved(p) /\ SameCommand(p) /\ me[p].pc = "loop" /\ me'[p].pc = "spawn"
          /\ manifest' = [manifest EXCEPT ![me[p].run] = n]
          /\ me'[p].held = n /\ me'[p].next = n
      BY <1>3, ReserveShape
    <2>2. n.integration = me[p].held.integration
      BY <1>1, ReservedTyped
    <2> HIDE DEF n
    <2>3. UNCHANGED <<branch, history>>
      BY <1>3 DEF Reserve
    <2>4. OnBranch(n.integration)
      BY <1>1, <2>1, <2>2 DEF ClaimAt, Prefixed
    <2>5. LastClaimed'
      BY <1>2, <2>1, <2>3, <2>4 DEF Prefixed
    <2>6. ClaimAt(me[p])' /\ RecordAt(me[p])'
      BY <2>1, <2>3, <2>4 DEF ClaimAt, RecordAt, Prefixed, OnBranch
    <2> QED
      BY <1>1, <2>1, <2>3, <2>5, <2>6, ClaimKeep DEF Unmarking
  <1>4. CASE Spawn(p)
    <2>1. /\ Moved(p) /\ SameCommand(p) /\ me[p].pc = "spawn" /\ me'[p].pc = "loop"
          /\ me'[p].held = me[p].held /\ me'[p].next = me[p].next
          /\ history'.last = history.last
      BY <1>4, SpawnShape
    <2>2. UNCHANGED <<branch, manifest>>
      BY <1>4 DEF Spawn, git
    <2>3. LastClaimed'
      BY <2>1, <2>2 DEF ClaimInv, LastClaimed, Claimed, Marked, IsMarked, Prefixed, OnBranch
    <2>4. ClaimAt(me[p])' /\ RecordAt(me[p])'
      BY <1>1, <2>1, <2>2 DEF ClaimAt, RecordAt, Prefixed, OnBranch
    <2> QED
      BY <1>1, <2>1, <2>2, <2>3, <2>4, ClaimKeep DEF Unmarking
  <1>5. CASE Checkpoint(p)
    <2>1. /\ Moved(p) /\ SameCommand(p) /\ me[p].pc = "checkpoint"
          /\ me'[p].pc \in {"loop", "integrate"}
          /\ me'[p].held = me[p].next /\ me'[p].next = me[p].next
          /\ manifest' = [manifest EXCEPT ![me[p].run] = me[p].next]
      BY <1>5, CheckpointShape
    <2>2. UNCHANGED <<branch, history>>
      BY <1>5 DEF Checkpoint, git
    <2>3. Prefixed(me[p].next)
      BY <1>1, <2>1 DEF ClaimAt
    <2>4. LastClaimed'
      BY <1>2, <2>1, <2>2, <2>3
    <2>5. ClaimAt(me[p])' /\ RecordAt(me[p])'
      BY <2>1, <2>2, <2>3 DEF ClaimAt, RecordAt, Prefixed, OnBranch
    <2> QED
      BY <1>1, <2>1, <2>2, <2>4, <2>5, ClaimKeep DEF Unmarking
  <1>6. ASSUME NEW t \in Tasks, NEW o \in {"merged", "unchanged", "failed"}, Integrate(p, t, o)
        PROVE  ClaimInv'
    <2> DEFINE n == Checkpointed(me[p].held, DoneBy(t, o))
    <2>1. /\ Moved(p) /\ SameCommand(p) /\ me[p].pc \in {"loop", "integrate"}
          /\ branch' \in Commits
          /\ branch'.work \in {branch.work, Append(branch.work, Merged(t, me[p].run))}
          /\ Merged(t, me[p].run) \in Merges
          /\ n \in Manifests /\ n.integration # NoIntegration /\ n.integration.tip = branch'
      BY <1>6, IntegrateShape
    <2>2. /\ me'[p].pc = "checkpoint" /\ me'[p].next = n /\ me'[p].held = me[p].held
          /\ history'.last = history.last
      BY <1>6, IntegrateShape
    <2>3. manifest' = manifest /\ branch \in Commits /\ branch # NoBranch /\ branch'.work \in Seq(Merges)
          /\ branch.work \in Seq(Merges)
      BY <1>6, <2>1, LoopFacts, MarksAssumption DEF Integrate, Commits, Works
    <2>4. \A i \in Integrations : OnBranch(i) => OnBranch(i)'
      <3> SUFFICES ASSUME NEW i \in Integrations, IsPrefix(i.tip.work, branch.work)
                   PROVE  IsPrefix(i.tip.work, branch'.work)
        BY <2>3 DEF OnBranch
      <3>1. i.tip.work \in Seq(Merges)
        BY DEF Integrations, Commits, Works
      <3>2. IsPrefix(i.tip.work, Append(branch.work, Merged(t, me[p].run)))
        BY <2>1, <2>3, <3>1, PrefixLonger
      <3> QED
        BY <2>1, <3>2
    <2> HIDE DEF n
    <2>5. IsPrefix(n.integration.tip.work, branch'.work)
      BY <2>1, <2>3, PrefixSelf
    <2>6. PICK i \in Integrations :
            i = me[p].held.integration /\ i = me'[p].held.integration /\ OnBranch(i)'
      <3>1. me[p].held.integration \in Integrations /\ OnBranch(me[p].held.integration)
        BY <1>1, <2>1, LoopFacts DEF ClaimAt, Prefixed
      <3>2. PICK i \in Integrations : i = me[p].held.integration /\ OnBranch(i)
        BY <3>1
      <3>3. OnBranch(i)' /\ i = me'[p].held.integration
        BY <2>2, <2>4, <3>2
      <3> QED
        BY <3>2, <3>3
    <2>7. LastClaimed'
      <3>1. history.last \in Runs /\ Exists(history.last)
        BY <1>1, <2>3, ConstantFacts DEF ClaimInv, LastClaimed, BaseInv, RunsInv, TypeInv, StateTyped, Histories
      <3>2. manifest[history.last] \in Manifests /\ Claimed(manifest[history.last])
        BY <3>1, ConstantFacts DEF ClaimInv, LastClaimed, BaseInv, TypeInv, StateTyped, Exists
      <3>3. CASE Marked(manifest[history.last])
        BY <2>2, <2>3, <3>1, <3>3, ConstantFacts DEF LastClaimed, Claimed, Marked, IsMarked
      <3>4. CASE OnBranch(manifest[history.last].integration)
        <4>1. manifest[history.last].integration \in Integrations
          BY <2>3, <3>2, <3>4 DEF OnBranch, Manifests
        <4>2. PICK k \in Integrations : k = manifest[history.last].integration /\ OnBranch(k)'
          BY <2>4, <3>4, <4>1
        <4> QED
          BY <2>2, <2>3, <3>1, <4>2, ConstantFacts DEF LastClaimed, Claimed, Prefixed, OnBranch
      <3> QED
        BY <3>2, <3>3, <3>4 DEF Claimed, Prefixed
    <2>8. ASSUME NEW q \in Processes, me'[q].pc = "mark" PROVE MarkSays(me[q])'
      <3>1. q # p /\ me'[q] = me[q] /\ MarkSays(me[q])
        BY <2>2, <2>1, <2>8 DEF Moved, Others, ClaimInv, MarkInv
      <3>2. me[q].next \in Manifests
        BY <2>8, <3>1, At_p DEF KindAt, Invocation
      <3>3. me[q].run = history'.last =>
              me[q].next.integration = NoIntegration \/ Prefixed(me[q].next)'
        <4> SUFFICES ASSUME me[q].run = history.last, me[q].next.integration # NoIntegration
                     PROVE  Prefixed(me[q].next)'
          BY <2>2
        <4>1. me[q].next.integration \in Integrations /\ OnBranch(me[q].next.integration)
          BY <2>8, <3>1, <3>2 DEF MarkSays, Prefixed, Manifests
        <4>2. PICK k \in Integrations : k = me[q].next.integration /\ OnBranch(k)'
          BY <2>4, <4>1
        <4> QED
          BY <4>2, <3>1 DEF Prefixed, OnBranch
      <3>4. \A x \in Processes : me'[x].pc \in Recording => me'[x] = me[x]
        BY <2>1, <2>2 DEF Moved, Others
      <3> QED
        BY <3>1, <3>3, <3>4 DEF MarkSays, SaysOf, IsMarked
    <2>9. ClaimAt(me[p])' /\ RecordAt(me[p])'
      BY <2>1, <2>2, <2>5, <2>6 DEF ClaimAt, RecordAt, Prefixed, OnBranch
    <2>10. MarkInv'
      BY <2>8 DEF MarkInv, MarkSays
    <2> QED
      BY <1>1, <2>1, <2>7, <2>9, <2>10, ClaimKeep
  <1>7. ASSUME NEW aborted \in BOOLEAN, Finish(p, aborted) PROVE ClaimInv'
    <2> DEFINE n == Final(me[p].held, aborted)
    <2>1. /\ Moved(p) /\ SameCommand(p) /\ me[p].pc \in {"loop", "spawn"}
          /\ me'[p].pc \in {"clean", "close"} /\ me'[p].next = n
      BY <1>7, FinishShape
    <2>2. UNCHANGED <<branch, manifest, history>> /\ branch \in Commits /\ branch.work \in Seq(Merges)
      BY <1>7, <2>1, LoopFacts DEF Finish, git, Commits, Works
    <2>3. /\ branch.work = <<>> => n.integration = me[p].held.integration
          /\ branch.work # <<>> => n.integration # NoIntegration /\ n.integration.tip = branch
      BY <1>1, <2>2, FinalTyped
    <2> HIDE DEF n
    <2>4. OnBranch(n.integration)
      BY <1>1, <2>1, <2>2, <2>3, PrefixSelf DEF ClaimAt, Prefixed, OnBranch
    <2>5. LastClaimed'
      BY <2>2, LastStill
    <2>6. ClaimAt(me[p])' /\ RecordAt(me[p])'
      BY <2>1, <2>2, <2>4 DEF ClaimAt, RecordAt, Prefixed, OnBranch
    <2> QED
      BY <1>1, <2>1, <2>2, <2>5, <2>6, ClaimKeep DEF Unmarking
  <1>8. CASE Close(p)
    <2>1. /\ Leave(p) /\ UNCHANGED <<branch, history>> /\ me[p].pc = "close"
          /\ manifest' = [manifest EXCEPT ![me[p].run] = me[p].next]
      BY <1>01, <1>8 DEF Close, git
    <2>2. Prefixed(me[p].next)
      BY <1>1, <2>1 DEF ClaimAt
    <2> QED
      BY <1>1, <1>2, <2>1, <2>2, LeaveClaim
  <1>9. CASE Throw(p)
    <2> DEFINE n == WithStatus(me[p].held, "failed")
    <2>1. /\ Leave(p) /\ UNCHANGED <<branch, history>> /\ me[p].pc \in Looping
          /\ manifest' = [manifest EXCEPT ![me[p].run] = n]
      BY <1>9 DEF Throw, EndFailed, git
    <2>2. n.integration = me[p].held.integration
      BY <1>1, WithStatusTyped DEF TerminalStatus
    <2> HIDE DEF n
    <2>3. Prefixed(n)
      BY <1>1, <2>1, <2>2 DEF ClaimAt, Prefixed
    <2> QED
      BY <1>1, <1>2, <2>1, <2>3, LeaveClaim
  <1>10. CASE WriteFails(p)
    <2> DEFINE n == Unrecoverable(me[p].held)
    <2>1. /\ Leave(p) /\ UNCHANGED <<branch, history>> /\ me[p].pc = "checkpoint"
          /\ \E m \in {manifest[me[p].run], me[p].next, n} :
               manifest' = [manifest EXCEPT ![me[p].run] = m]
      BY <1>10 DEF WriteFails, git, Mine
    <2>2. n.integration = me[p].held.integration
      BY <1>1, UnrecoverableTyped
    <2> HIDE DEF n
    <2>3. Claimed(n) /\ Claimed(me[p].next) /\ Claimed(manifest[me[p].run])
      BY <1>1, <2>1, <2>2, ConstantFacts
      DEF ClaimAt, Claimed, Prefixed, BranchAt, ClaimInv, LastClaimed
    <2>4. LastClaimed'
      BY <1>1, <2>1, <2>3, LastWritten
    <2> QED
      BY <1>1, <2>1, <2>4, LeaveClaim
  <1> QED
    BY <1>3, <1>4, <1>5, <1>6, <1>7, <1>8, <1>9, <1>10 DEF Loop

LEMMA ClaimDecision == ASSUME BaseInv, ClaimInv, NEW p \in Processes, Decision(p) PROVE ClaimInv'
  <1> USE DEF Looping, Leaving, RunKinds, DecisionKinds, Recording, Marking
  <1>1. /\ KindAt(me[p]) /\ me[p] \in Invocation
        /\ Holds(me[p]) /\ ClaimAt(me[p]) /\ BranchAt(me[p])
        /\ me[p].run \in Runs /\ me[p].held \in Manifests
    <2>1. KindAt(me[p]) /\ me[p] \in Invocation
      BY At_p
    <2>2. Holds(me[p])
      BY <2>1 DEF Decision, Apply, Abort, Decide, Clean, Prune, Holds, KindAt
    <2> QED
      BY <2>1, <2>2, At_p DEF ClaimInv, KindAt, Invocation, Decision, Apply, Abort,
         Decide, Clean, Prune
  <1>2. history' = history /\ branch' \in {branch, NoBranch}
    BY DEF Decision, Apply, Abort, Decide, Clean, Prune, git
  <1>3. LastClaimed'
    <2>1. CASE manifest' = manifest
      BY <1>2, <2>1, LastStill
    <2>2. CASE Decide(p)
      <3>1. /\ manifest' = [manifest EXCEPT ![me[p].run] = me[p].next] /\ branch' = branch
            /\ me[p].pc = "decide"
        BY <2>2 DEF Decide, git
      <3> QED
        BY <1>1, <1>2, <3>1, LastWritten DEF ClaimAt, Claimed
    <2> QED
      BY <2>1, <2>2 DEF Decision, Apply, Abort, Clean, Prune
  <1>4. CASE Leave(p)
    BY <1>1, <1>2, <1>3, <1>4, LeaveClaim
  (* A decision is taken on the branch as it is on record.                 *)
  <1>5. ASSUME NEW s \in TerminalStatus, Moved(p), SameCommand(p), branch' = branch,
               me'[p].pc \in {"decide", "clean"}, me'[p].next = WithStatus(me[p].held, s),
               branch = me[p].held.integration.tip, me[p].kind \in DecisionKinds
        PROVE  ClaimInv'
    <2>1. me'[p].next.integration = me[p].held.integration
      BY <1>1, <1>5, WithStatusTyped
    <2>2. me[p].held.integration # NoIntegration
      BY <1>1, <1>5 DEF KindAt
    <2>3. branch # NoBranch => branch.work \in Seq(Merges)
      BY DEF BaseInv, TypeInv, StateTyped, Commits, Works
    <2>4. ClaimAt(me[p])' /\ RecordAt(me[p])'
      BY <1>5, <2>1, <2>2, <2>3, PrefixSelf DEF ClaimAt, RecordAt, Prefixed, OnBranch
    <2> QED
      BY <1>1, <1>2, <1>3, <1>5, <2>4, ClaimKeep DEF Unmarking
  <1>6. ASSUME NEW pc \in {"clean", "prune", "decide", "close"}, Goto(p, pc),
               me[p].pc \in Leaving \union {"decide"}
        PROVE  ClaimInv'
    <2>1. /\ Moved(p) /\ SameCommand(p) /\ me'[p].pc = pc /\ me'[p].next = me[p].next
      BY <1>6, GotoShape DEF BaseInv, Places
    <2>2. OnBranch(me[p].next.integration)
      BY <1>1, <1>6 DEF ClaimAt, Prefixed
    <2>3. ClaimAt(me[p])' /\ RecordAt(me[p])'
      BY <1>2, <1>6, <2>1, <2>2 DEF ClaimAt, RecordAt, Prefixed, OnBranch
    <2> QED
      BY <1>1, <1>2, <1>3, <1>6, <2>1, <2>3, ClaimKeep DEF Unmarking
  <1>7. CASE Apply(p) /\ ~Leave(p)
    <2>1. /\ Moved(p) /\ SameCommand(p) /\ me'[p].pc = "decide" /\ AppliesCleanly(me[p].held)
          /\ me'[p].next = WithStatus(me[p].held, "applied")
      BY <1>7, ApplyShape
    <2> QED
      BY <1>1, <1>5, <1>7, <2>1 DEF Apply, AppliesCleanly, TerminalStatus, KindAt, git
  <1>8. CASE Abort(p) /\ ~Leave(p)
    <2>1. /\ Moved(p) /\ SameCommand(p) /\ me'[p].pc = "clean" /\ TipIsRecorded(me[p].held)
          /\ me'[p].next = WithStatus(me[p].held, "aborted")
      BY <1>8, AbortShape
    <2> QED
      BY <1>1, <1>5, <1>8, <2>1 DEF Abort, TipIsRecorded, TerminalStatus, KindAt, git
  <1>9. CASE Decide(p)
    BY <1>4, <1>6, <1>9 DEF Decide
  <1>10. CASE Clean(p)
    BY <1>6, <1>10 DEF Clean
  <1>11. CASE Prune(p)
    BY <1>4, <1>6, <1>11 DEF Prune
  <1> QED
    BY <1>4, <1>7, <1>8, <1>9, <1>10, <1>11 DEF Decision

(* What the last run has on record is on the branch, or is the mark of a   *)
(* run that was taken for a dead one; with all that this rests on: what a  *)
(* run that takes no lock has read of a record before it writes it back.   *)
THEOREM ClaimInvariant == Spec => []ClaimInv
  <1>1. Init => ClaimInv
    BY IdleTyped DEF Init, ClaimInv, LastClaimed, MarkInv, MarkSays, Idle, ClaimAt, RecordAt,
       Looping, Leaving, Recording
  <1>2. BaseInv /\ RecordsApart /\ ClaimInv /\ [Next]_vars => ClaimInv'
    <2> SUFFICES ASSUME BaseInv, RecordsApart, ClaimInv, [Next]_vars PROVE ClaimInv'
      OBVIOUS
    <2>1. CASE UNCHANGED <<manifest, branch, me, history>>
      BY <2>1 DEF ClaimInv, LastClaimed, Claimed, Marked, IsMarked, ClaimAt, RecordAt, SaysOf,
         MarkInv, MarkSays, Holds, Prefixed, OnBranch
    <2>2. ASSUME NEW p \in Processes, Crash(p) PROVE ClaimInv'
      BY <2>2, LastStill, LeaveClaim DEF Crash, git
    <2> QED
      BY <2>1, <2>2, ClaimBegin, ClaimStart, ClaimLoop, ClaimDecision
      DEF Next, vars, git, WorkerMoves, WorkerEnds, WriteSentinel, Commit, Edit, Discard, ApprovePlan
  <1> QED
    BY <1>1, <1>2, BaseInvariant, ApartInvariant, PTL DEF Spec

(* Whenever there is work on the branch, a manifest says so: the run that  *)
(* set it up has recorded a commit that is on it.  A plain run, which      *)
(* takes no lock, may mark the record of a run that is alive with what it  *)
(* read before the integration was on it; nothing else takes the claim     *)
(* away, whichever commands are given.                                     *)
THEOREM WorkIsClaimed == Spec => []BranchIsClaimed
  <1>1. BaseInv /\ ClaimInv => BranchIsClaimed
    <2> SUFFICES ASSUME BaseInv, ClaimInv PROVE BranchIsClaimed
      OBVIOUS
    <2>1. TypeOK
      BY DEF TypeOK, BaseInv, TypeInv, StateTyped, Invocation, Exists
    <2>2. ASSUME branch # NoBranch PROVE manifest[history.last] \in Manifests
      BY <2>2, ConstantFacts
      DEF ClaimInv, LastClaimed, BaseInv, RunsInv, TypeInv, StateTyped, Histories, Exists
    <2>3. \A m \in Manifests : IsMarked(m) => m = Unrecoverable(m)
      BY DEF IsMarked, Unrecoverable, Manifests
    <2> QED
      BY <2>1, <2>2, <2>3
      DEF BranchIsClaimed, ClaimInv, LastClaimed, Claimed, Marked, Prefixed, OnBranch, Recorded
  <1> QED
    BY <1>1, BaseInvariant, ClaimInvariant, PTL

(***************************************************************************)
(* The workers that a run and those it continues have started: a sum along *)
(* the chain, which is a recursive function like the chain itself.         *)
(***************************************************************************)
Summed(f, parent, count, n) ==
  f = [r \in 1..n |-> count[r] + IF parent[r] = NoRun THEN 0 ELSE f[parent[r]]]

Sums(parent, count) == CHOOSE f : Summed(f, parent, count, MaxRuns)

LEMMA SumsExist ==
  ASSUME NEW parent, NEW count, Ordered(parent)
  PROVE  Summed(Sums(parent, count), parent, count, MaxRuns)
  <1> DEFINE T == {n \in Nat : n <= MaxRuns /\ ~\E f : Summed(f, parent, count, n)}
  <1>0. MaxRuns \in Nat /\ Runs = 1..MaxRuns /\ NoRun = 0
    BY BoundsAssumption DEF Runs, NoRun
  <1>1. SUFFICES ASSUME MaxRuns \in T PROVE FALSE
    BY <1>0 DEF Sums
  <1>2. PICK n \in T : \A k \in T : n <= k
    BY <1>1, Least
  <1>3. n # 0
    <2>1. Summed([r \in 1..0 |-> count[r] + IF parent[r] = NoRun THEN 0 ELSE 0], parent, count, 0)
      BY DEF Summed
    <2> QED
      BY <2>1
  <1>4. n \in Nat /\ n <= MaxRuns /\ n - 1 \in Nat /\ n - 1 \notin T
    BY <1>0, <1>2, <1>3
  <1>5. PICK f : Summed(f, parent, count, n - 1)
    BY <1>0, <1>4
  <1> DEFINE g == [r \in 1..n |-> IF r = n
                                  THEN count[n] + (IF parent[n] = NoRun THEN 0 ELSE f[parent[n]])
                                  ELSE f[r]]
  <1>6. ASSUME NEW r \in 1..n
        PROVE  g[r] = count[r] + IF parent[r] = NoRun THEN 0 ELSE g[parent[r]]
    <2>1. r \in Runs /\ parent[r] \in Runs \union {NoRun} /\ (parent[r] # NoRun => parent[r] < r)
      BY <1>0, <1>4 DEF Ordered
    <2>2. parent[r] # NoRun => parent[r] \in 1..(n - 1) /\ g[parent[r]] = f[parent[r]]
      BY <1>0, <1>4, <2>1
    <2>3. CASE r = n
      BY <2>2, <2>3
    <2>4. CASE r # n
      <3>1. r \in 1..(n - 1)
        BY <1>4, <2>4
      <3>2. f[r] = count[r] + IF parent[r] = NoRun THEN 0 ELSE f[parent[r]]
        BY <1>5, <3>1 DEF Summed
      <3> QED
        BY <2>2, <2>4, <3>2
    <2> QED
      BY <2>3, <2>4
  <1>7. Summed(g, parent, count, n)
    BY <1>6 DEF Summed
  <1> QED
    BY <1>2, <1>7

LEMMA SumsUnfold ==
  ASSUME NEW parent, NEW count, Ordered(parent), count \in [Runs -> Nat], NEW r \in Runs
  PROVE  /\ parent[r] = NoRun => Sums(parent, count)[r] = count[r]
         /\ parent[r] # NoRun =>
              /\ parent[r] \in Runs /\ parent[r] < r
              /\ Sums(parent, count)[r] = count[r] + Sums(parent, count)[parent[r]]
  <1> DEFINE f == Sums(parent, count)
  <1>1. Summed(f, parent, count, MaxRuns)
    BY SumsExist
  <1> HIDE DEF f
  <1>2. f[r] = count[r] + IF parent[r] = NoRun THEN 0 ELSE f[parent[r]]
    BY <1>1 DEF Summed, Runs
  <1>3. parent[r] # NoRun => parent[r] \in Runs /\ parent[r] < r
    BY DEF Ordered
  <1>4. CASE parent[r] = NoRun
    BY <1>2, <1>4 DEF f
  <1>5. CASE parent[r] # NoRun
    BY <1>2, <1>3, <1>5 DEF f
  <1> QED
    BY <1>4, <1>5

LEMMA SumsTyped ==
  ASSUME NEW parent, NEW count, Ordered(parent), count \in [Runs -> Nat]
  PROVE  \A r \in Runs : Sums(parent, count)[r] \in Nat
  <1> DEFINE f == Sums(parent, count)
             T == {r \in Runs : f[r] \notin Nat}
  <1>1. SUFFICES ASSUME T # {} PROVE FALSE
    OBVIOUS
  <1>10. T \subseteq Nat
    BY DEF Runs
  <1> HIDE DEF T
  <1>2. PICK r \in T : \A k \in T : r <= k
    BY <1>1, <1>10, Least
  <1> USE DEF T
  <1> HIDE DEF f
  <1>3. r \in Runs /\ r \in Nat /\ count[r] \in Nat
    BY <1>2 DEF Runs
  <1>4. CASE parent[r] = NoRun
    BY <1>2, <1>3, <1>4, SumsUnfold DEF f
  <1>5. CASE parent[r] # NoRun
    <2>1. parent[r] \in Runs /\ parent[r] < r /\ f[r] = count[r] + f[parent[r]]
      BY <1>3, <1>5, SumsUnfold DEF f
    <2>2. parent[r] \notin T
      BY <1>2, <1>3, <2>1 DEF Runs
    <2> QED
      BY <1>2, <1>3, <2>1, <2>2
  <1> QED
    BY <1>4, <1>5

(* A run that nobody continues changes no sum but its own.                 *)
LEMMA SumsFrame ==
  ASSUME NEW old, NEW new, Ordered(old), Ordered(new), NEW n \in Runs,
         NEW before \in [Runs -> Nat], NEW after \in [Runs -> Nat],
         \A r \in Runs \ {n} : new[r] = old[r] /\ old[r] # n /\ after[r] = before[r]
  PROVE  \A r \in Runs \ {n} : Sums(new, after)[r] = Sums(old, before)[r]
  <1> DEFINE f == Sums(old, before)
             g == Sums(new, after)
             T == {r \in Runs \ {n} : g[r] # f[r]}
  <1>1. SUFFICES ASSUME T # {} PROVE FALSE
    OBVIOUS
  <1>10. T \subseteq Nat
    BY DEF Runs
  <1> HIDE DEF T
  <1>2. PICK r \in T : \A k \in T : r <= k
    BY <1>1, <1>10, Least
  <1> USE DEF T
  <1> HIDE DEF f, g
  <1>3. /\ r \in Runs \ {n} /\ r \in Nat /\ new[r] = old[r] /\ old[r] # n
        /\ after[r] = before[r]
    BY <1>2 DEF Runs
  <1>4. CASE old[r] = NoRun
    BY <1>2, <1>3, <1>4, SumsUnfold DEF f, g
  <1>5. CASE old[r] # NoRun
    <2>1. /\ old[r] \in Runs /\ old[r] < r /\ f[r] = before[r] + f[old[r]]
      BY <1>3, <1>5, SumsUnfold DEF f
    <2>2. g[r] = after[r] + g[new[r]]
      BY <1>3, <1>5, SumsUnfold DEF g
    <2>3. old[r] \notin T
      BY <1>2, <1>3, <2>1 DEF Runs
    <2> QED
      BY <1>2, <1>3, <2>1, <2>2, <2>3
  <1> QED
    BY <1>4, <1>5

(* The workers that every run and those before it have started.            *)
Spending == Sums(history.parent, history.spawned)

LEMMA SpentSums == \A r : Spent(r) = Spending[r]
  BY DEF Spent, Spending, Sums, Summed, Runs

LEMMA SpentTyped == ASSUME BaseInv PROVE \A r \in Runs : Spending[r] \in Nat
  <1>1. history.spawned \in [Runs -> Nat]
    BY DEF BaseInv, TypeInv, StateTyped, Histories
  <1> QED
    BY <1>1, ParentsOrdered, SumsTyped DEF Spending

(* The sums of the runs there are stay as they are.                        *)
SpentKept == \A r \in Runs : Exists(r) => Spending'[r] = Spending[r]

LEMMA SpentStill ==
  ASSUME history'.parent = history.parent, history'.spawned = history.spawned
  PROVE  SpentKept
  BY DEF SpentKept, Spending

LEMMA SpentGrow ==
  ASSUME BaseInv, NEW n \in Runs, ~Exists(n), Created = 1..(n - 1), history.spawned[n] = 0,
         NEW r \in Runs \union {NoRun}, r # NoRun => Exists(r),
         history'.parent = [history.parent EXCEPT ![n] = r], history'.spawned = history.spawned
  PROVE  /\ SpentKept
         /\ Spending'[n] = IF r = NoRun THEN 0 ELSE Spending[r]
  <1> DEFINE old == history.parent
             new == history'.parent
             count == history.spawned
  <1>0. /\ \A s \in Runs : Exists(s) <=> s \in 1..(n - 1)
        /\ r # NoRun => r < n
    BY DEF Created, Runs, NoRun
  <1>1. Ordered(old) /\ old \in [Runs -> Runs \union {NoRun}] /\ count \in [Runs -> Nat]
    BY ParentsOrdered DEF Ordered, BaseInv, TypeInv, StateTyped, Histories
  <1>2. \A s \in Runs : old[s] # NoRun => Exists(s) /\ old[s] < s
    BY DEF BaseInv, RunsInv
  <1>3. Ordered(new)
    BY <1>0, <1>1 DEF Ordered
  <1>4. \A s \in Runs \ {n} : new[s] = old[s] /\ old[s] # n
    BY <1>0, <1>1, <1>2 DEF Runs, NoRun
  <1>5. \A s \in Runs \ {n} : Sums(new, count)[s] = Sums(old, count)[s]
    <2> HIDE DEF old, new, count
    <2>1. \A s \in Runs \ {n} : new[s] = old[s] /\ old[s] # n /\ count[s] = count[s]
      BY <1>4
    <2>2. Ordered(old) /\ Ordered(new) /\ count \in [Runs -> Nat]
      BY <1>1, <1>3
    <2> QED
      BY <2>1, <2>2, SumsFrame
  <1>6. new[n] = r /\ count[n] = 0
    BY <1>1
  <1>61. \A s : Spending[s] = Sums(old, count)[s] /\ Spending'[s] = Sums(new, count)[s]
    BY DEF Spending
  <1>62. \A s \in Runs : Spending[s] \in Nat
    BY SpentTyped
  <1> HIDE DEF old, new, count
  <1>7. SpentKept
    BY <1>0, <1>5, <1>61 DEF SpentKept
  <1>8. r = NoRun => Spending'[n] = 0
    BY <1>1, <1>3, <1>6, <1>61, SumsUnfold
  <1>9. r # NoRun => Spending'[n] = Spending[r]
    <2> SUFFICES ASSUME r # NoRun PROVE Spending'[n] = Spending[r]
      OBVIOUS
    <2>1. r \in Runs \ {n}
      BY <1>0 DEF Runs
    <2>2. Sums(new, count)[n] = 0 + Sums(new, count)[r]
      BY <1>1, <1>3, <1>6, SumsUnfold
    <2>3. Sums(new, count)[r] = Spending[r] /\ Spending[r] \in Nat
      BY <1>5, <1>61, <1>62, <2>1
    <2> QED
      BY <1>61, <2>2, <2>3
  <1> QED
    BY <1>7, <1>8, <1>9

LEMMA SpentMore ==
  ASSUME BaseInv, NEW n \in Runs, \A s \in Runs : history.parent[s] # n,
         history'.parent = history.parent,
         history'.spawned = [history.spawned EXCEPT ![n] = @ + 1]
  PROVE  /\ \A s \in Runs : s # n => Spending'[s] = Spending[s]
         /\ Spending'[n] = Spending[n] + 1
  <1> DEFINE old == history.parent
             before == history.spawned
             after == history'.spawned
  <1>1. /\ Ordered(old) /\ old \in [Runs -> Runs \union {NoRun}]
        /\ before \in [Runs -> Nat] /\ after \in [Runs -> Nat]
        /\ after[n] = before[n] + 1 /\ \A s \in Runs : s # n => after[s] = before[s]
    BY ParentsOrdered DEF Ordered, BaseInv, TypeInv, StateTyped, Histories
  <1>2. \A s : Spending[s] = Sums(old, before)[s] /\ Spending'[s] = Sums(old, after)[s]
    BY DEF Spending
  <1>3. \A s \in Runs : old[s] # n
    OBVIOUS
  <1>4. \A s \in Runs : Spending[s] \in Nat
    BY SpentTyped
  <1> HIDE DEF old, before, after
  <1>5. \A s \in Runs \ {n} : Sums(old, after)[s] = Sums(old, before)[s]
    BY <1>1, <1>3, SumsFrame
  <1>6. Spending'[n] = Spending[n] + 1
    <2>1. CASE old[n] = NoRun
      BY <1>1, <1>2, <2>1, SumsUnfold
    <2>2. CASE old[n] # NoRun
      <3>1. /\ old[n] \in Runs \ {n}
            /\ Sums(old, before)[n] = before[n] + Sums(old, before)[old[n]]
            /\ Sums(old, after)[n] = after[n] + Sums(old, after)[old[n]]
        BY <1>1, <1>3, <2>2, SumsUnfold
      <3>2. Sums(old, after)[old[n]] = Spending[old[n]] /\ Spending[old[n]] \in Nat
            /\ before[n] \in Nat
        BY <1>1, <1>2, <1>4, <1>5, <3>1
      <3> QED
        BY <1>1, <1>2, <3>1, <3>2
    <2> QED
      BY <2>1, <2>2
  <1> QED
    BY <1>2, <1>5, <1>6

(***************************************************************************)
(* The budget.  A run reserves before it spawns, so that what it holds, or *)
(* has on record, is ahead of what it has started by what it owes.         *)
(***************************************************************************)
Live(m) == m.status \in OpenStatus /\ (m.status # "interrupted" \/ m.safe)

Within(m, spent, owed) == spent + owed <= m.dispatches /\ m.dispatches <= m.max

Owes(m) == IF m.pc = "spawn" THEN 1 ELSE 0

RecordsWithin ==
  \A r \in Runs : Exists(r) /\ Live(manifest[r]) => Within(manifest[r], Spending[r], 0)

Unspent == \A r \in Runs : ~Exists(r) => history.spawned[r] = 0

Childless(r) == \A s \in Runs : history.parent[s] # r

(* A run that begins has spent nothing; what is marked counts no more.     *)
NewAt(m) ==
  /\ m.pc = "mark" => ~Live(m.next)
  /\ m.pc \in {"guard", "stale", "mark"} => m.held.dispatches = 0
  /\ m.pc = "create" /\ m.kind # "resume" => m.held.dispatches = 0
  /\ m.pc \in {"stale", "mark"} => m.kind # "resume"

BudgetAt(m) ==
  /\ m.pc = "create" /\ m.kind = "resume" => Within(m.held, Spending[m.target], 0)
  /\ m.pc \in Owning =>
       /\ Within(m.held, Spending[m.run], Owes(m))
       /\ Within(m.next, Spending[m.run], Owes(m))
       /\ Live(manifest[m.run]) => Within(manifest[m.run], Spending[m.run], Owes(m))
       /\ Childless(m.run)
  /\ m.kind \in RunKinds /\ m.pc \in Leaving => Within(m.next, Spending[m.run], 0)

BudgetInv ==
  /\ Unspent /\ RecordsWithin
  /\ \A p \in Processes : NewAt(me[p]) /\ (Holds(me[p]) => BudgetAt(me[p]))

SameBudget(n, m) == n.dispatches = m.dispatches /\ n.max = m.max

LEMMA BudgetsKept ==
  ASSUME NEW m \in Manifests
  PROVE  /\ m.dispatches \in Nat /\ m.max \in Nat /\ 0 <= m.max
         /\ \A status : SameBudget(WithStatus(m, status), m)
         /\ Reserved(m).dispatches = m.dispatches + 1 /\ Reserved(m).max = m.max
         /\ \A plain \in BOOLEAN : SameBudget(Started(m, plain), m)
         /\ \A from, head : SameBudget(WithIntegration(m, from, head), m)
         /\ \A aborted \in BOOLEAN : SameBudget(Final(m, aborted), m)
  <1>1. m.dispatches \in Nat /\ m.max \in Nat /\ 0 <= m.max
    <2>1. m.dispatches \in Nat /\ m.max \in Limits
      BY DEF Manifests
    <2>2. m.max \in Nat
      BY <2>1, ChoicesAssumption
    <2> QED
      BY <2>1, <2>2
  <1>2. \A status : SameBudget(WithStatus(m, status), m)
    BY DEF SameBudget, WithStatus, Manifests
  <1>3. Reserved(m).dispatches = m.dispatches + 1 /\ Reserved(m).max = m.max
    BY DEF Reserved, Manifests
  <1>4. \A plain \in BOOLEAN : SameBudget(Started(m, plain), m)
    BY DEF SameBudget, Started, Manifests
  <1>5. \A from, head : SameBudget(WithIntegration(m, from, head), m)
    BY DEF SameBudget, WithIntegration, Manifests
  <1>6. \A aborted \in BOOLEAN : SameBudget(Final(m, aborted), m)
    BY DEF SameBudget, Final, Manifests
  <1> QED
    BY <1>1, <1>2, <1>3, <1>4, <1>5, <1>6

LEMMA CheckpointedBudget ==
  ASSUME NEW m \in Manifests, NEW done
  PROVE  SameBudget(Checkpointed(m, done), m)
  <1>1. CASE Recorded(m)
    <2> DEFINE i == [m.integration EXCEPT !.tip = branch']
    <2>1. Checkpointed(m, done) = [m EXCEPT !.done = @ \union done, !.integration = i]
      BY <1>1 DEF Checkpointed, Manifests
    <2> HIDE DEF i
    <2> QED
      BY <2>1 DEF SameBudget, Manifests
  <1>2. CASE ~Recorded(m)
    BY <1>2 DEF Checkpointed, SameBudget, Manifests
  <1> QED
    BY <1>1, <1>2

(* Records that count are as they were, and no run is continued.           *)
Aside ==
  /\ SpentKept
  /\ \A r \in Runs : history'.parent[r] \in {history.parent[r], NoRun}
  /\ \A r \in Runs : Exists(r) /\ Live(manifest'[r]) => manifest'[r] = manifest[r]

LEMMA BudgetKeep ==
  ASSUME BaseInv, BudgetInv, NEW p \in Processes, Moved(p), Unspent', RecordsWithin',
         NewAt(me[p])', Holds(me[p]) \/ lock = Nobody \/ Aside,
         Holds(me[p])' => BudgetAt(me[p])'
  PROVE  BudgetInv'
  <1> SUFFICES ASSUME NEW q \in Processes, q # p
               PROVE  NewAt(me[q])' /\ (Holds(me[q])' => BudgetAt(me[q])')
    BY DEF BudgetInv
  <1>1. me'[q] = me[q]
    BY DEF Moved, Others
  <1>2. NewAt(me[q])'
    BY <1>1 DEF BudgetInv, NewAt
  <1>3. ASSUME Holds(me[q])' PROVE BudgetAt(me[q])'
    <2>1. Aside /\ Holds(me[q]) /\ BudgetAt(me[q])
      BY <1>1, <1>3, Alone DEF BudgetInv, Holds
    <2>2. /\ me[q].pc \in Owning \union Leaving => me[q].run \in Runs /\ Exists(me[q].run)
          /\ me[q].kind = "resume" => me[q].target \in Runs /\ Exists(me[q].target)
      BY At_p DEF KindAt, Invocation
    <2>3. /\ me[q].pc \in Owning \union Leaving => Spending'[me[q].run] = Spending[me[q].run]
          /\ me[q].kind = "resume" => Spending'[me[q].target] = Spending[me[q].target]
      BY <2>1, <2>2 DEF Aside, SpentKept
    <2>4. me[q].pc \in Owning =>
            /\ Live(manifest'[me[q].run]) => manifest'[me[q].run] = manifest[me[q].run]
            /\ Childless(me[q].run) => \A s \in Runs : history'.parent[s] # me[q].run
      BY <2>1, <2>2, ConstantFacts DEF Aside, Childless
    <2> QED
      BY <1>1, <2>1, <2>3, <2>4 DEF BudgetAt, Owes, Childless
  <1> QED
    BY <1>2, <1>3

LEMMA WithinKept ==
  ASSUME RecordsWithin, SpentKept,
         \A r \in Runs : Exists(r)' /\ Live(manifest'[r]) => Exists(r) /\ manifest'[r] = manifest[r]
  PROVE  RecordsWithin'
  BY DEF RecordsWithin, SpentKept

LEMMA WithinWritten ==
  ASSUME BaseInv, RecordsWithin, NEW n \in Runs, NEW m \in Manifests,
         manifest' = [manifest EXCEPT ![n] = m],
         \A r \in Runs \ {n} : Exists(r) => Spending'[r] = Spending[r],
         Live(m) => Within(m, Spending'[n], 0)
  PROVE  RecordsWithin'
  <1>1. manifest'[n] = m /\ \A r \in Runs \ {n} : manifest'[r] = manifest[r]
    BY DEF BaseInv, TypeInv, StateTyped
  <1> QED
    BY <1>1 DEF RecordsWithin, Exists

(* A record that is written over, and nothing else that counts.            *)
LEMMA BudgetWritten ==
  ASSUME BaseInv, BudgetInv, NEW n \in Runs, Exists(n), NEW m \in Manifests,
         manifest' = [manifest EXCEPT ![n] = m], history' = history,
         Live(m) => Within(m, Spending[n], 0)
  PROVE  /\ Unspent' /\ RecordsWithin' /\ SpentKept /\ Spending' = Spending
         /\ ~Live(m) => Aside
         /\ manifest'[n] = m
  <1>1. SpentKept /\ Spending' = Spending
    BY SpentStill DEF Spending
  <1>2. /\ \A s \in Runs : Exists(s)' <=> Exists(s)
        /\ manifest'[n] = m /\ \A s \in Runs : s # n => manifest'[s] = manifest[s]
    BY Rewritten DEF BaseInv, TypeInv
  <1>3. RecordsWithin'
    BY <1>1, WithinWritten DEF BudgetInv
  <1>4. Unspent'
    BY <1>2 DEF BudgetInv, Unspent
  <1>5. ~Live(m) => Aside
    BY <1>1, <1>2 DEF Aside
  <1> QED
    BY <1>1, <1>2, <1>3, <1>4, <1>5

LEMMA BudgetSame ==
  ASSUME BaseInv, BudgetInv, manifest' = manifest,
         history'.parent = history.parent, history'.spawned = history.spawned
  PROVE  Unspent' /\ RecordsWithin' /\ Aside /\ Spending' = Spending
  <1>1. SpentKept /\ Spending' = Spending
    BY SpentStill DEF Spending
  <1>2. \A r \in Runs : Exists(r)' <=> Exists(r)
    BY DEF Exists
  <1> QED
    BY <1>1, <1>2, WithinKept DEF BudgetInv, Unspent, Aside

LEMMA LeaveBudget ==
  ASSUME BaseInv, BudgetInv, NEW p \in Processes, Leave(p), Unspent', RecordsWithin',
         Holds(me[p]) \/ Aside
  PROVE  BudgetInv'
  <1>1. Moved(p) /\ me'[p] = Idle
    BY LeaveShape DEF BaseInv
  <1>2. ~Holds(me[p])' /\ NewAt(me[p])'
    BY <1>1, IdleTyped DEF Holds, NewAt
  <1> QED
    BY <1>1, <1>2, BudgetKeep

LEMMA LeaveSame ==
  ASSUME BaseInv, BudgetInv, NEW p \in Processes, Leave(p), manifest' = manifest,
         history' = history
  PROVE  BudgetInv'
  BY LeaveBudget, BudgetSame

LEMMA LeaveWriting ==
  ASSUME BaseInv, BudgetInv, NEW p \in Processes, Leave(p), history' = history,
         NEW n \in Runs, Exists(n), NEW m \in Manifests,
         manifest' = [manifest EXCEPT ![n] = m],
         Live(m) => Holds(me[p]) /\ Within(m, Spending[n], 0)
  PROVE  BudgetInv'
  BY LeaveBudget, BudgetWritten

LEMMA BudgetBegin == ASSUME BaseInv, BudgetInv, NEW p \in Processes, Begin(p) PROVE BudgetInv'
  <1> USE DEF Owning, Recording, Looping, Leaving
  <1>0. manifest' = manifest /\ history' = history
    BY DEF Begin, BeginLocked, BeginPlain, BeginDecision, TakeLock
  <1>01. Unspent' /\ RecordsWithin' /\ Aside
    BY <1>0, BudgetSame
  <1>02. ASSUME Moved(p), NewAt(me[p])', me'[p].pc \in {"guard", "stale", "lock", "apply", "abort"}
         PROVE  BudgetInv'
    <2>1. BudgetAt(me[p])'
      BY <1>02 DEF BudgetAt
    <2> QED
      BY <1>01, <1>02, <2>1, BudgetKeep
  <1>1. ASSUME NEW kind \in Kinds, NEW target \in Runs \union {NoRun}, NEW keep \in Keeps,
               NEW max \in Limits, BeginLocked(p, kind, target, keep, max)
        PROVE BudgetInv'
    <2>1. Moved(p) /\ me'[p].pc = "guard" /\ NewRecord(me'[p].held)
      BY <1>1, BeginLockedShape DEF BaseInv
    <2> QED
      BY <1>02, <2>1 DEF NewAt, NewRecord
  <1>2. ASSUME NEW max \in Limits, BeginPlain(p, max) PROVE BudgetInv'
    <2>1. Moved(p) /\ me'[p].pc = "stale" /\ NewRecord(me'[p].held) /\ me'[p].kind = "plain"
      BY <1>2, BeginPlainShape DEF BaseInv
    <2> QED
      BY <1>02, <2>1 DEF NewAt, NewRecord
  <1>3. ASSUME NEW kind \in {"apply", "abort"}, NEW r \in Runs, BeginDecision(p, kind, r)
        PROVE BudgetInv'
    <2>1. Moved(p) /\ me'[p].pc = "lock"
      BY <1>3, BeginDecisionShape DEF BaseInv
    <2> QED
      BY <1>02, <2>1 DEF NewAt
  <1>4. CASE TakeLock(p)
    <2>1. CASE Leave(p)
      BY <1>0, <2>1, LeaveSame
    <2>2. CASE me[p].kind \in Places /\ Goto(p, me[p].kind)
      <3>1. me[p].kind \in DecisionKinds
        BY <1>4, At_p DEF TakeLock, KindAt
      <3>2. Moved(p) /\ me'[p].pc = me[p].kind
        BY <2>2, GotoShape DEF BaseInv
      <3> QED
        BY <1>02, <3>1, <3>2 DEF NewAt, DecisionKinds
    <2> QED
      BY <1>4, <2>1, <2>2, TakeLockShape DEF BaseInv
  <1> QED
    BY <1>1, <1>2, <1>3, <1>4 DEF Begin

(* A resume starts from what its parent has on record, which is safe.      *)
LEMMA BudgetGuards ==
  ASSUME BaseInv, BudgetInv, NEW p \in Processes, Fresh(p) \/ Resume(p) \/ Review(p)
  PROVE  BudgetInv'
  <1> USE DEF Owning, Recording, Looping, Leaving
  <1>1. manifest' = manifest /\ history' = history
    BY DEF Fresh, Resume, Review
  <1>2. Unspent' /\ RecordsWithin' /\ Aside /\ Spending' = Spending
    BY <1>1, BudgetSame
  <1>3. /\ me[p].pc = "guard" /\ me[p].held.dispatches = 0 /\ KindAt(me[p])
        /\ me[p] \in Invocation
    BY At_p DEF Fresh, Resume, Review, BudgetInv, NewAt
  <1>4. CASE Leave(p)
    BY <1>1, <1>4, LeaveSame
  <1>5. CASE (Fresh(p) \/ Review(p)) /\ ~Leave(p)
    <2>1. /\ Moved(p) /\ SameCommand(p) /\ me'[p].pc = "stale" /\ me'[p].held = me[p].held
      BY <1>5, FreshShape, ReviewShape DEF BaseInv
    <2>2. me'[p].kind # "resume"
      BY <1>5, <2>1 DEF Fresh, Review, SameCommand
    <2>3. NewAt(me[p])' /\ BudgetAt(me[p])'
      BY <1>3, <2>1, <2>2 DEF NewAt, BudgetAt
    <2> QED
      BY <1>2, <2>1, <2>3, BudgetKeep
  <1>6. CASE Resume(p) /\ ~Leave(p)
    <2> DEFINE k == manifest[me[p].target]
               h == Inherited(k, me[p].held)
    <2>1. /\ Moved(p) /\ SameCommand(p) /\ me'[p].pc = "create"
          /\ ResumeGuards(k, me[p].held.plan) /\ me'[p].held = h
      BY <1>6, ResumeShape DEF BaseInv
    <2>2. /\ me[p].kind = "resume" /\ me[p].held \in Manifests
          /\ me[p].target \in Runs /\ Exists(me[p].target) /\ k \in Manifests
      BY <1>3, <1>6 DEF Resume, KindAt, Invocation, Exists, BaseInv, TypeInv, StateTyped
    <2>3. BudgetGuard(k, me[p].held.max)
      BY <1>6 DEF Resume
    <2>4. h.dispatches = k.dispatches /\ h.max = me[p].held.max
      BY <2>2 DEF Inherited, Manifests
    <2>5. Within(k, Spending[me[p].target], 0)
      BY <2>1, <2>2 DEF BudgetInv, RecordsWithin, Live, ResumeGuards, OpenStatus
    <2>6. k.dispatches \in Nat /\ me[p].held.max \in Nat
      BY <2>2, BudgetsKept
    <2> HIDE DEF h, k
    <2>7. Within(h, Spending[me[p].target], 0)
      BY <2>3, <2>4, <2>5, <2>6 DEF Within, BudgetGuard
    <2>8. NewAt(me[p])' /\ BudgetAt(me[p])'
      BY <1>2, <2>1, <2>2, <2>7 DEF NewAt, BudgetAt, SameCommand
    <2> QED
      BY <1>2, <2>1, <2>8, BudgetKeep
  <1> QED
    BY <1>4, <1>5, <1>6

LEMMA BudgetMarks ==
  ASSUME BaseInv, BudgetInv, NEW p \in Processes,
         Mark(p) \/ NoneStale(p) \/ (\E r \in Runs : ReadStale(p, r))
  PROVE  BudgetInv'
  <1> USE DEF Owning, Recording, Looping, Leaving
  <1>1. CASE Mark(p)
    <2>1. /\ Moved(p) /\ SameCommand(p) /\ me[p].pc = "mark" /\ me'[p].pc = "stale"
          /\ me'[p].held = me[p].held
          /\ me[p].run \in Runs /\ Exists(me[p].run) /\ me[p].next \in Manifests
          /\ manifest' = [manifest EXCEPT ![me[p].run] = me[p].next]
      BY <1>1, MarkShape DEF BaseInv
    <2>2. ~Live(me[p].next) /\ me[p].held.dispatches = 0 /\ me[p].kind # "resume"
      BY <2>1 DEF BudgetInv, NewAt
    <2>3. Unspent' /\ RecordsWithin' /\ Aside
      BY <1>1, <2>1, <2>2, BudgetWritten DEF Mark
    <2>4. NewAt(me[p])' /\ BudgetAt(me[p])'
      BY <2>1, <2>2 DEF NewAt, BudgetAt, SameCommand
    <2> QED
      BY <2>1, <2>3, <2>4, BudgetKeep
  <1>2. CASE NoneStale(p)
    <2>1. /\ Moved(p) /\ SameCommand(p) /\ me[p].pc = "stale" /\ me'[p].pc = "create"
          /\ me'[p].held = me[p].held
      BY <1>2, NoneStaleShape DEF BaseInv
    <2>2. Unspent' /\ RecordsWithin' /\ Aside /\ Spending' = Spending
      BY <1>2, BudgetSame DEF NoneStale
    <2>3. me[p].held.dispatches = 0 /\ me[p].kind # "resume"
      BY <2>1 DEF BudgetInv, NewAt
    <2>4. NewAt(me[p])' /\ BudgetAt(me[p])'
      BY <2>1, <2>2, <2>3 DEF NewAt, BudgetAt, SameCommand
    <2> QED
      BY <2>1, <2>2, <2>4, BudgetKeep
  <1>3. ASSUME NEW r \in Runs, ReadStale(p, r) PROVE BudgetInv'
    <2> DEFINE n == Unrecoverable(manifest[r])
    <2>1. /\ Moved(p) /\ SameCommand(p) /\ me[p].pc = "stale" /\ me'[p].pc = "mark"
          /\ me'[p].held = me[p].held /\ me'[p].next = n /\ Exists(r)
      BY <1>3, ReadStaleShape DEF BaseInv
    <2>2. Unspent' /\ RecordsWithin' /\ Aside
      BY <1>3, BudgetSame DEF ReadStale
    <2>3. manifest[r] \in Manifests
      BY <2>1 DEF BaseInv, TypeInv, StateTyped, Exists
    <2>4. n.status = "interrupted" /\ n.safe = FALSE
      BY <2>3, UnrecoverableTyped
    <2>5. me[p].held.dispatches = 0 /\ me[p].kind # "resume"
      BY <2>1 DEF BudgetInv, NewAt
    <2> HIDE DEF n
    <2>6. ~Live(n)
      BY <2>4 DEF Live
    <2>7. NewAt(me[p])' /\ BudgetAt(me[p])'
      BY <2>1, <2>5, <2>6 DEF NewAt, BudgetAt, Live, SameCommand
    <2> QED
      BY <2>1, <2>2, <2>7, BudgetKeep
  <1> QED
    BY <1>1, <1>2, <1>3

LEMMA BudgetCreate == ASSUME BaseInv, BudgetInv, NEW p \in Processes, Create(p) PROVE BudgetInv'
  <1> USE DEF Owning, Recording, Looping, Leaving
  <1>10. PICK n \in Runs, m \in Manifests, s \in Runs \union {NoRun} : NewRun(p, n, m, s)
    BY NewRunFacts
  <1>11. SameBudget(m, me[p].held)
    BY <1>10, BudgetsKept DEF NewRun
  <1>1. /\ Moved(p) /\ SameCommand(p) /\ me[p].pc = "create"
        /\ me'[p].pc = (IF me[p].kind = "plain" THEN "plain" ELSE "record")
        /\ me'[p].run = n /\ me'[p].held = m /\ me'[p].next = m
        /\ SameBudget(m, me[p].held) /\ me[p].held \in Manifests
        /\ ~Exists(n) /\ Created = 1..(n - 1) /\ manifest' = [manifest EXCEPT ![n] = m]
        /\ s = (IF me[p].kind = "resume" THEN me[p].target ELSE NoRun)
        /\ history'.parent = [history.parent EXCEPT ![n] = s]
        /\ history'.spawned = history.spawned
    BY <1>10, <1>11 DEF NewRun
  <1>2. /\ s # NoRun => me[p].kind = "resume" /\ s = me[p].target /\ Exists(s) /\ s \in Runs
        /\ me[p].kind = "resume" => s # NoRun
    BY <1>1, At_p DEF KindAt
  <1>3. history.spawned[n] = 0
    BY <1>1 DEF BudgetInv, Unspent
  <1>4. SpentKept /\ Spending'[n] = IF s = NoRun THEN 0 ELSE Spending[s]
    BY <1>1, <1>2, <1>3, SpentGrow
  <1>5. manifest'[n] = m /\ \A r \in Runs \ {n} : manifest'[r] = manifest[r]
    BY <1>1 DEF BaseInv, TypeInv, StateTyped
  <1>6. /\ \A r \in Runs : history'.parent[r] = IF r = n THEN s ELSE history.parent[r]
        /\ \A r \in Runs : history.parent[r] # n
        /\ s # n
    <2>1. \A r \in Runs : history'.parent[r] = IF r = n THEN s ELSE history.parent[r]
      BY <1>1 DEF BaseInv, TypeInv, StateTyped, Histories
    <2>2. \A r \in Runs : Exists(r) => r \in 1..(n - 1)
      BY <1>1 DEF Created
    <2>3. \A r \in Runs : history.parent[r] # n
      <3> SUFFICES ASSUME NEW r \in Runs, history.parent[r] = n PROVE FALSE
        OBVIOUS
      <3>1. n # NoRun
        BY ConstantFacts
      <3>2. Exists(r) /\ n < r /\ r \in 1..(n - 1)
        BY <2>2, <3>1 DEF BaseInv, RunsInv
      <3> QED
        BY <3>2 DEF Runs
    <2>4. s # n
      BY <1>1, <1>2, ConstantFacts
    <2> QED
      BY <2>1, <2>3, <2>4
  <1>7. Within(m, Spending'[n], 0)
    <2>1. CASE s = NoRun
      <3>1. me[p].held.dispatches = 0
        BY <1>1, <1>2, <2>1 DEF BudgetInv, NewAt
      <3>2. m.dispatches = 0 /\ 0 <= m.max
        BY <1>1, <3>1, BudgetsKept DEF SameBudget
      <3> QED
        BY <1>4, <2>1, <3>2 DEF Within
    <2>2. CASE s # NoRun
      <3>1. Holds(me[p])
        BY <1>1, <1>2, <2>2 DEF Holds
      <3>2. Within(me[p].held, Spending[s], 0)
        BY <1>1, <1>2, <2>2, <3>1 DEF BudgetInv, BudgetAt
      <3> QED
        BY <1>1, <1>4, <2>2, <3>2 DEF Within, SameBudget
    <2> QED
      BY <2>1, <2>2
  <1>8. RecordsWithin'
    BY <1>1, <1>4, <1>7, WithinWritten DEF SpentKept, BudgetInv
  <1>9. Unspent'
    <2>1. \A r \in Runs : ~Exists(r)' => ~Exists(r)
      BY <1>1, <1>5, MarksAssumption DEF Exists
    <2> QED
      BY <1>1, <2>1 DEF BudgetInv, Unspent
  <1>13. NewAt(me[p])'
    BY <1>1 DEF NewAt
  <1>14. Holds(me[p]) \/ Aside
    <2>1. CASE me[p].kind # "plain"
      BY <1>1, <2>1 DEF Holds
    <2>2. CASE me[p].kind = "plain"
      BY <1>1, <1>2, <1>4, <1>5, <1>6, <2>2 DEF Aside
    <2> QED
      BY <2>1, <2>2
  <1>12. Holds(me[p])' => BudgetAt(me[p])'
    <2>1. Childless(n)'
      BY <1>6, ConstantFacts DEF Childless
    <2> QED
      BY <1>1, <1>5, <1>7, <2>1 DEF BudgetAt, Owes, Holds, SameCommand, Childless
  <1> QED
    BY <1>1, <1>8, <1>9, <1>12, <1>13, <1>14, BudgetKeep

(* A run that goes on: what it holds, and what it is to write.             *)
LEMMA BudgetGoesOn ==
  ASSUME BaseInv, BudgetInv, NEW p \in Processes, Moved(p), SameCommand(p),
         me[p].pc \in Owning, me'[p].pc \in Owning \union Leaving, me'[p].run = me[p].run,
         Unspent', RecordsWithin', history'.parent = history.parent,
         me'[p].pc \in Owning =>
           /\ Within(me'[p].held, Spending'[me[p].run], Owes(me'[p]))
           /\ Within(me'[p].next, Spending'[me[p].run], Owes(me'[p]))
           /\ Live(manifest'[me[p].run]) =>
                Within(manifest'[me[p].run], Spending'[me[p].run], Owes(me'[p])),
         me'[p].pc \in Leaving => Within(me'[p].next, Spending'[me[p].run], 0)
  PROVE  BudgetInv'
  <1> USE DEF Owning, Recording, Looping, Leaving
  <1>1. Holds(me[p]) /\ BudgetAt(me[p])
    BY At_p DEF KindAt, Holds, RunKinds, BudgetInv
  <1>2. \A s \in Runs : history'.parent[s] # me[p].run
    BY <1>1 DEF BudgetAt, Childless
  <1>3. NewAt(me[p])'
    BY DEF NewAt
  <1>4. BudgetAt(me[p])'
    BY <1>2 DEF BudgetAt, Childless, Owes
  <1> QED
    BY <1>1, <1>3, <1>4, BudgetKeep

(* As before, with a write of that record.                                 *)
LEMMA BudgetWrites ==
  ASSUME BaseInv, BudgetInv, NEW p \in Processes, Moved(p), SameCommand(p),
         me[p].pc \in Owning, me'[p].pc \in Owning, me'[p].run = me[p].run,
         NEW m \in Manifests, Within(m, Spending[me[p].run], Owes(me'[p])),
         Within(m, Spending[me[p].run], 0),
         me'[p].held = m, me'[p].next = m,
         manifest' = [manifest EXCEPT ![me[p].run] = m], history' = history
  PROVE  BudgetInv'
  <1>1. me[p].run \in Runs /\ Exists(me[p].run)
    BY At_p DEF KindAt, Invocation
  <1>2. Unspent' /\ RecordsWithin' /\ Spending' = Spending /\ manifest'[me[p].run] = m
    BY <1>1, BudgetWritten
  <1>3. me'[p].pc \notin Leaving
    BY DEF Owning, Recording, Looping, Leaving
  <1> QED
    BY <1>2, <1>3, BudgetGoesOn

LEMMA BudgetSetUp ==
  ASSUME BaseInv, BudgetInv, NEW p \in Processes, Record(p) \/ Setup(p)
  PROVE  BudgetInv'
  <1> USE DEF Owning, Recording, Looping, Leaving
  <1>1. /\ me[p].pc \in Recording /\ me[p].run \in Runs /\ Exists(me[p].run)
        /\ me[p].held \in Manifests /\ Holds(me[p])
        /\ Within(me[p].held, Spending[me[p].run], 0)
        /\ Within(me[p].next, Spending[me[p].run], 0)
        /\ Live(manifest[me[p].run]) => Within(manifest[me[p].run], Spending[me[p].run], 0)
    BY At_p DEF Record, Setup, KindAt, Invocation, Holds, RunKinds, BudgetInv, BudgetAt, Owes
  <1>2. CASE Record(p)
    <2> DEFINE n == WithIntegration(me[p].held, me[p].from, main.head)
    <2>1. /\ Moved(p) /\ SameCommand(p) /\ me'[p].pc = "setup" /\ me'[p].run = me[p].run
          /\ me'[p].held = n /\ me'[p].next = n /\ n \in Manifests
          /\ manifest' = [manifest EXCEPT ![me[p].run] = n]
      BY <1>2, RecordShape DEF BaseInv
    <2>2. SameBudget(n, me[p].held)
      BY <1>1, BudgetsKept
    <2> HIDE DEF n
    <2>3. Within(n, Spending[me[p].run], 0) /\ Owes(me'[p]) = 0
      BY <1>1, <2>1, <2>2 DEF Within, SameBudget, Owes
    <2> QED
      BY <1>1, <1>2, <2>1, <2>3, BudgetWrites DEF Record
  <1>3. CASE Setup(p)
    <2>1. CASE EndFailed(p) /\ UNCHANGED history
      <3> DEFINE n == WithStatus(me[p].held, "failed")
      <3>1. n \in Manifests /\ manifest' = [manifest EXCEPT ![me[p].run] = n]
        BY <1>1, <2>1, EndFailedShape DEF BaseInv
      <3>2. n.status = "failed"
        BY <1>1, WithStatusTyped DEF TerminalStatus
      <3> HIDE DEF n
      <3>3. ~Live(n)
        BY <3>2 DEF Live, OpenStatus
      <3> QED
        BY <1>1, <2>1, <3>1, <3>3, LeaveWriting DEF EndFailed
    <2>2. CASE ~(EndFailed(p) /\ UNCHANGED history)
      <3>1. /\ Moved(p) /\ SameCommand(p) /\ manifest' = manifest /\ me'[p].pc = "loop"
            /\ me'[p].held = me[p].held /\ me'[p].next = me[p].next /\ me'[p].run = me[p].run
            /\ history'.parent = history.parent
        BY <1>3, <2>2, SetupShape
      <3>2. history'.spawned = history.spawned
        BY <1>3, <2>2 DEF Setup, BaseInv, TypeInv, StateTyped, Histories
      <3>3. Unspent' /\ RecordsWithin' /\ Spending' = Spending
        BY <3>1, <3>2, BudgetSame
      <3>4. Owes(me'[p]) = 0
        BY <3>1 DEF Owes
      <3> QED
        BY <1>1, <3>1, <3>3, <3>4, BudgetGoesOn
    <2> QED
      BY <2>1, <2>2
  <1> QED
    BY <1>2, <1>3

LEMMA BudgetReserve ==
  ASSUME BaseInv, BudgetInv, NEW p \in Processes, NEW t \in Tasks, Reserve(p, t)
  PROVE  BudgetInv'
  <1> USE DEF Owning, Recording, Looping, Leaving
  <1> DEFINE n == Reserved(me[p].held)
  <1>1. /\ Moved(p) /\ SameCommand(p) /\ me[p].pc = "loop" /\ me'[p].pc = "spawn"
        /\ n \in Manifests /\ manifest' = [manifest EXCEPT ![me[p].run] = n]
        /\ me'[p].held = n /\ me'[p].next = n /\ me'[p].run = me[p].run
    BY ReserveShape
  <1>2. /\ me[p].held \in Manifests /\ me[p].run \in Runs /\ Holds(me[p])
        /\ Within(me[p].held, Spending[me[p].run], 0)
    BY <1>1, LoopFacts DEF BudgetInv, BudgetAt, Owes
  <1>3. n.dispatches = me[p].held.dispatches + 1 /\ n.max = me[p].held.max
    BY <1>2, BudgetsKept
  <1>4. me[p].held.dispatches < me[p].held.max /\ history' = history
    BY DEF Reserve, Mine
  <1>5. /\ me[p].held.dispatches \in Nat /\ me[p].held.max \in Nat
        /\ Spending[me[p].run] \in Nat
    BY <1>2, BudgetsKept, SpentTyped
  <1> HIDE DEF n
  <1>6. /\ Within(n, Spending[me[p].run], 1) /\ Within(n, Spending[me[p].run], 0)
        /\ Owes(me'[p]) = 1
    BY <1>1, <1>2, <1>3, <1>4, <1>5 DEF Within, Owes
  <1> QED
    BY <1>1, <1>4, <1>6, BudgetWrites

LEMMA BudgetSpawn == ASSUME BaseInv, BudgetInv, NEW p \in Processes, Spawn(p) PROVE BudgetInv'
  <1> USE DEF Owning, Recording, Looping, Leaving
  <1>1. /\ Moved(p) /\ SameCommand(p) /\ me[p].pc = "spawn" /\ me'[p].pc = "loop"
        /\ me'[p].held = me[p].held /\ me'[p].next = me[p].next /\ me'[p].run = me[p].run
        /\ history'.parent = history.parent /\ manifest' = manifest
    BY SpawnShape DEF Spawn
  <1>2. history'.spawned = [history.spawned EXCEPT ![me[p].run] = @ + 1]
    BY DEF Spawn, BaseInv, TypeInv, StateTyped, Histories
  <1>3. PICK r \in Runs : r = me[p].run /\ Exists(r) /\ Childless(r)
    BY <1>1, LoopFacts DEF BudgetInv, BudgetAt
  <1>4. /\ \A s \in Runs : s # r => Spending'[s] = Spending[s]
        /\ Spending'[r] = Spending[r] + 1
    BY <1>1, <1>2, <1>3, SpentMore DEF Childless
  <1>5. /\ Within(me[p].held, Spending[r], 1) /\ Within(me[p].next, Spending[r], 1)
        /\ Live(manifest[r]) => Within(manifest[r], Spending[r], 1)
    BY <1>1, <1>3, LoopFacts DEF BudgetInv, BudgetAt, Owes
  <1>6. Spending[r] \in Nat
    BY SpentTyped
  <1>7. \A m : Within(m, Spending[r], 1) => Within(m, Spending'[r], 0)
    BY <1>4, <1>6 DEF Within
  <1>8. RecordsWithin'
    BY <1>1, <1>4, <1>5, <1>7 DEF BudgetInv, RecordsWithin, Exists
  <1>9. Unspent'
    BY <1>1, <1>2, <1>3 DEF BudgetInv, Unspent, Exists, BaseInv, TypeInv, StateTyped, Histories
  <1>10. Owes(me'[p]) = 0
    BY <1>1 DEF Owes
  <1> QED
    BY <1>1, <1>3, <1>5, <1>7, <1>8, <1>9, <1>10, BudgetGoesOn

LEMMA BudgetLoop == ASSUME BaseInv, BudgetInv, NEW p \in Processes, Loop(p) PROVE BudgetInv'
  <1> USE DEF Owning, Recording, Looping, Leaving
  <1>1. me[p].pc \in Looping =>
          /\ me[p].run \in Runs /\ Exists(me[p].run) /\ Holds(me[p])
          /\ me[p].held \in Manifests /\ me[p].next \in Manifests
          /\ Within(me[p].held, Spending[me[p].run], 0)
          /\ Within(me[p].next, Spending[me[p].run], 0)
          /\ Live(manifest[me[p].run]) => Within(manifest[me[p].run], Spending[me[p].run], 0)
    <2> SUFFICES ASSUME me[p].pc \in Looping
                 PROVE  /\ me[p].run \in Runs /\ Exists(me[p].run) /\ Holds(me[p])
                        /\ me[p].held \in Manifests /\ me[p].next \in Manifests
                        /\ Within(me[p].held, Spending[me[p].run], 0)
                        /\ Within(me[p].next, Spending[me[p].run], 0)
                        /\ Live(manifest[me[p].run]) =>
                             Within(manifest[me[p].run], Spending[me[p].run], 0)
      OBVIOUS
    <2>1. /\ me[p].run \in Runs /\ Exists(me[p].run) /\ Holds(me[p])
          /\ me[p].held \in Manifests /\ me[p].next \in Manifests
      BY LoopFacts
    <2>2. Spending[me[p].run] \in Nat /\ Owes(me[p]) \in {0, 1}
      BY <2>1, SpentTyped DEF Owes
    <2>3. \A m : Within(m, Spending[me[p].run], Owes(me[p])) /\ m.dispatches \in Nat
                   => Within(m, Spending[me[p].run], 0)
      BY <2>2 DEF Within
    <2>4. manifest[me[p].run].dispatches \in Nat
      BY <2>1, BudgetsKept DEF Exists, BaseInv, TypeInv, StateTyped
    <2> QED
      BY <2>1, <2>3, <2>4, BudgetsKept DEF BudgetInv, BudgetAt
  <1>3. CASE Checkpoint(p)
    <2>1. /\ Moved(p) /\ SameCommand(p) /\ me[p].pc = "checkpoint"
          /\ me'[p].pc \in {"loop", "integrate"} /\ Owes(me'[p]) = 0
          /\ me'[p].held = me[p].next /\ me'[p].next = me[p].next /\ me'[p].run = me[p].run
          /\ manifest' = [manifest EXCEPT ![me[p].run] = me[p].next]
      BY <1>3, CheckpointShape DEF Owes
    <2> QED
      BY <1>1, <1>3, <2>1, BudgetWrites DEF Checkpoint
  <1>4. ASSUME NEW t \in Tasks, NEW o \in {"merged", "unchanged", "failed"}, Integrate(p, t, o)
        PROVE  BudgetInv'
    <2> DEFINE n == Checkpointed(me[p].held, DoneBy(t, o))
    <2>1. /\ Moved(p) /\ SameCommand(p) /\ me[p].pc \in {"loop", "integrate"}
          /\ me'[p].pc = "checkpoint" /\ me'[p].next = n /\ me'[p].held = me[p].held
          /\ me'[p].run = me[p].run /\ history'.parent = history.parent
      BY <1>4, IntegrateShape
    <2>2. SameBudget(n, me[p].held)
      BY <1>1, <2>1, CheckpointedBudget
    <2> HIDE DEF n
    <2>3. manifest' = manifest /\ history'.spawned = history.spawned
      BY <1>4 DEF Integrate, BaseInv, TypeInv, StateTyped, Histories
    <2>4. Unspent' /\ RecordsWithin' /\ Spending' = Spending
      BY <2>1, <2>3, BudgetSame
    <2>5. Within(n, Spending[me[p].run], 0) /\ Owes(me'[p]) = 0
      BY <1>1, <2>1, <2>2 DEF Within, SameBudget, Owes
    <2> QED
      BY <1>1, <2>1, <2>3, <2>4, <2>5, BudgetGoesOn
  <1>5. ASSUME NEW aborted \in BOOLEAN, Finish(p, aborted) PROVE BudgetInv'
    <2> DEFINE n == Final(me[p].held, aborted)
    <2>1. /\ Moved(p) /\ SameCommand(p) /\ me[p].pc \in {"loop", "spawn"}
          /\ me'[p].pc \in {"clean", "close"} /\ me'[p].next = n /\ me'[p].run = me[p].run
      BY <1>5, FinishShape
    <2>2. SameBudget(n, me[p].held)
      BY <1>1, <2>1, BudgetsKept
    <2> HIDE DEF n
    <2>3. Unspent' /\ RecordsWithin' /\ Spending' = Spending /\ history'.parent = history.parent
      BY <1>5, BudgetSame DEF Finish
    <2>4. Within(n, Spending[me[p].run], 0)
      BY <1>1, <2>1, <2>2 DEF Within, SameBudget
    <2> QED
      BY <2>1, <2>3, <2>4, BudgetGoesOn
  <1>6. ASSUME NEW s \in {"completed", "failed", "cancelled"}, Leave(p), history' = history,
               me[p].pc \in Looping \union {"plain"},
               manifest' = [manifest EXCEPT ![me[p].run] = WithStatus(me[p].held, s)]
        PROVE  BudgetInv'
    <2> DEFINE n == WithStatus(me[p].held, s)
    <2>1. /\ me[p].run \in Runs /\ Exists(me[p].run) /\ me[p].held \in Manifests
      BY <1>1, <1>6, At_p DEF KindAt, Invocation
    <2>2. n \in Manifests /\ n.status = s
      BY <2>1, WithStatusTyped DEF TerminalStatus
    <2>3. manifest' = [manifest EXCEPT ![me[p].run] = n]
      BY <1>6
    <2> HIDE DEF n
    <2>4. ~Live(n)
      BY <2>2 DEF Live, OpenStatus
    <2> QED
      BY <1>6, <2>1, <2>2, <2>3, <2>4, LeaveWriting
  <1>7. CASE Close(p)
    <2>1. Leave(p) /\ history' = history
      BY <1>7 DEF Close
    <2>2. CASE me[p].pc = "close" /\ manifest' = [manifest EXCEPT ![me[p].run] = me[p].next]
      <3>1. /\ me[p].run \in Runs /\ Exists(me[p].run) /\ me[p].next \in Manifests
            /\ Holds(me[p]) /\ Within(me[p].next, Spending[me[p].run], 0)
        BY <2>2, At_p DEF KindAt, Invocation, Holds, RunKinds, BudgetInv, BudgetAt
      <3> QED
        BY <2>1, <2>2, <3>1, LeaveWriting
    <2> QED
      BY <1>6, <1>7, <2>1, <2>2 DEF Close, Mine
  <1>8. CASE Throw(p)
    BY <1>6, <1>8 DEF Throw, EndFailed
  <1>9. CASE WriteFails(p)
    <2>1. /\ me[p].pc = "checkpoint" /\ Leave(p) /\ history' = history
          /\ \E m \in {manifest[me[p].run], me[p].next, Unrecoverable(me[p].held)} :
               manifest' = [manifest EXCEPT ![me[p].run] = m]
      BY <1>9 DEF WriteFails, Mine
    <2>2. manifest[me[p].run] \in Manifests
      BY <1>1, <2>1 DEF Exists, BaseInv, TypeInv, StateTyped
    <2> DEFINE n == Unrecoverable(me[p].held)
    <2>3. n \in Manifests /\ n.status = "interrupted" /\ n.safe = FALSE
      BY <1>1, <2>1, UnrecoverableTyped
    <2>4. \E m \in {manifest[me[p].run], me[p].next, n} :
            manifest' = [manifest EXCEPT ![me[p].run] = m]
      BY <2>1
    <2> HIDE DEF n
    <2>5. ~Live(n)
      BY <2>3 DEF Live
    <2>6. PICK m \in {manifest[me[p].run], me[p].next, n} :
            manifest' = [manifest EXCEPT ![me[p].run] = m]
      BY <2>4
    <2>7. m \in Manifests /\ (Live(m) => Within(m, Spending[me[p].run], 0))
      BY <1>1, <2>1, <2>2, <2>3, <2>5, <2>6
    <2> QED
      BY <1>1, <2>1, <2>6, <2>7, LeaveWriting
  <1> QED
    BY <1>3, <1>4, <1>5, <1>7, <1>8, <1>9, BudgetReserve, BudgetSpawn DEF Loop

LEMMA BudgetDecision ==
  ASSUME BaseInv, ReadyInv, BudgetInv, NEW p \in Processes, Decision(p)
  PROVE  BudgetInv'
  <1> USE DEF Owning, Recording, Looping, Leaving, RunKinds, DecisionKinds
  <1>0. /\ history' = history /\ KindAt(me[p]) /\ me[p] \in Invocation /\ Holds(me[p])
        /\ me[p].run \in Runs /\ Exists(me[p].run) /\ BudgetAt(me[p]) /\ ReadyAt(me[p])
    BY At_p DEF Decision, Apply, Abort, Decide, Clean, Prune, KindAt, Invocation, BudgetInv,
       Holds, ReadyInv
  <1>1. manifest' = manifest => Unspent' /\ RecordsWithin' /\ Spending' = Spending
    BY <1>0, BudgetSame
  <1>2. CASE Leave(p) /\ manifest' = manifest
    BY <1>0, <1>2, LeaveSame
  <1>3. ASSUME Moved(p), SameCommand(p), Unspent', RecordsWithin', Spending' = Spending,
               me'[p].pc \in {"decide", "clean", "prune", "close"}, me'[p].run = me[p].run,
               me[p].kind \in RunKinds => me[p].pc \in Leaving /\ me'[p].next = me[p].next
        PROVE  BudgetInv'
    <2>1. NewAt(me[p])'
      BY <1>3 DEF NewAt
    <2>2. BudgetAt(me[p])'
      BY <1>0, <1>3 DEF BudgetAt, SameCommand
    <2> QED
      BY <1>0, <1>3, <2>1, <2>2, BudgetKeep
  <1>4. ASSUME NEW pc \in {"clean", "prune", "decide", "close"}, Goto(p, pc),
               Unspent', RecordsWithin', Spending' = Spending,
               me[p].kind \in RunKinds => me[p].pc \in Leaving
        PROVE  BudgetInv'
    <2>1. /\ Moved(p) /\ SameCommand(p) /\ me'[p].pc = pc /\ me'[p].run = me[p].run
          /\ me'[p].next = me[p].next
      BY <1>4, GotoShape DEF BaseInv, Places
    <2> QED
      BY <1>3, <1>4, <2>1
  <1>5. CASE (Apply(p) \/ Abort(p)) /\ ~Leave(p)
    <2>1. /\ Moved(p) /\ SameCommand(p) /\ me'[p].pc \in {"decide", "clean"}
          /\ me'[p].run = me[p].run /\ manifest' = manifest
      BY <1>5, ApplyShape, AbortShape DEF Apply, Abort
    <2>2. me[p].kind \in DecisionKinds
      BY <1>0, <1>5 DEF KindAt, Apply, Abort
    <2> QED
      BY <1>1, <1>3, <2>1, <2>2
  <1>6. CASE Decide(p)
    <2>1. /\ me[p].next \in Manifests /\ me[p].kind \in DecisionKinds
          /\ me[p].next.status \in {"applied", "aborted"}
      BY <1>0, <1>6 DEF Decide, KindAt, Invocation, ReadyAt
    <2>2. ~Live(me[p].next)
      BY <2>1 DEF Live, OpenStatus
    <2>3. manifest' = [manifest EXCEPT ![me[p].run] = me[p].next]
      BY <1>6 DEF Decide
    <2>4. Unspent' /\ RecordsWithin' /\ Spending' = Spending
      BY <1>0, <2>1, <2>2, <2>3, BudgetWritten
    <2>5. CASE Leave(p)
      BY <1>0, <2>1, <2>2, <2>3, <2>5, LeaveWriting
    <2> QED
      BY <1>4, <1>6, <2>1, <2>4, <2>5 DEF Decide
  <1>7. CASE Clean(p)
    BY <1>1, <1>4, <1>7 DEF Clean
  <1>8. CASE Prune(p)
    BY <1>1, <1>2, <1>4, <1>8 DEF Prune
  <1> QED
    BY <1>2, <1>5, <1>6, <1>7, <1>8 DEF Decision, Apply, Abort

(* Records, and what commands hold in memory, cover what the runs have     *)
(* started, and are within the limit.                                      *)
THEOREM BudgetInvariant == Spec => []BudgetInv
  <1>1. Init => BudgetInv
    BY IdleTyped DEF Init, BudgetInv, Unspent, RecordsWithin, NewAt, Exists, Idle
  <1>2. BaseInv /\ ReadyInv /\ BudgetInv /\ [Next]_vars => BudgetInv'
    <2> SUFFICES ASSUME BaseInv, ReadyInv, BudgetInv, [Next]_vars PROVE BudgetInv'
      OBVIOUS
    <2>1. CASE UNCHANGED <<manifest, me, history>>
      <3>1. Unspent' /\ RecordsWithin' /\ Spending' = Spending
        BY <2>1, BudgetSame
      <3> QED
        BY <2>1, <3>1 DEF BudgetInv, NewAt, BudgetAt, Childless, Holds
    <2>2. ASSUME NEW p \in Processes, Crash(p) PROVE BudgetInv'
      BY <2>2, LeaveSame DEF Crash
    <2>3. ASSUME NEW p \in Processes, Start(p) PROVE BudgetInv'
      BY <2>3, BudgetGuards, BudgetMarks, BudgetCreate, BudgetSetUp DEF Start
    <2> QED
      BY <2>1, <2>2, <2>3, BudgetBegin, BudgetLoop, BudgetDecision
      DEF Next, vars, WorkerMoves, WorkerEnds, WriteSentinel, Commit, Edit, Discard, ApprovePlan
  <1> QED
    BY <1>1, <1>2, BaseInvariant, ReadyInvariant, PTL DEF Spec

(* The dispatches an open run has on record, which is what the next one of *)
(* its chain starts from, are no fewer than the workers it and the runs    *)
(* before it have started, and never above its limit: however often a      *)
(* chain is resumed, no worker escapes the account (manifest.ts, run.ts).  *)
THEOREM NoRunOverspends == Spec => []LineageBudget
  <1>1. BaseInv /\ BudgetInv => LineageBudget
    <2> SUFFICES ASSUME BaseInv, BudgetInv, NEW r \in OpenManifests,
                        manifest[r].status # "interrupted" \/ manifest[r].safe
                 PROVE  /\ Spent(r) <= manifest[r].dispatches
                        /\ manifest[r].dispatches <= manifest[r].max
      BY DEF LineageBudget
    <2>1. r \in Runs /\ Exists(r) /\ Live(manifest[r])
      BY DEF OpenManifests, IsOpen, Live
    <2>2. Within(manifest[r], Spending[r], 0)
      BY <2>1 DEF BudgetInv, RecordsWithin
    <2>3. Spending[r] \in Nat /\ Spent(r) = Spending[r]
      BY <2>1, SpentTyped, SpentSums
    <2> QED
      BY <2>2, <2>3 DEF Within
  <1> QED
    BY <1>1, BaseInvariant, BudgetInvariant, PTL
=============================================================================
