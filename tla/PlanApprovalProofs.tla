------------------------- MODULE PlanApprovalProofs -------------------------
(***************************************************************************)
(* What is run was approved and admitted, a plan on record is there, and   *)
(* nothing is lost without an overlap: for any number of commands, at once *)
(* or not, and any number of edits.                                        *)
(***************************************************************************)
EXTENDS PlanApproval, TLAPS

Places == {"idle", "begin", "done", "save", "think", "import", "read", "archive", "put", "gate",
           "decide", "write", "start", "auto", "again", "work"}

EveryKind == StageKinds \cup PlanKinds \cup {"approve", "reject", "run", "bypass", "resume"}

Invocation ==
  [pc: Places, kind: EveryKind, arts: SUBSET Artifact, what: EveryKind,
   body: Bodies \cup {NoPlan}, prev: Envelope \cup {NoPlan}]

Execution == [how: EveryKind, sound: BOOLEAN, approved: BOOLEAN, standing: BOOLEAN]

Records ==
  [standing: SUBSET Bodies, approved: SUBSET Bodies, ran: SUBSET Execution,
   written: SUBSET Artifact, overlap: BOOLEAN]

(* What one command holds is of its type, what it is about to write too.   *)
TypedAt(m) ==
  /\ m.pc \in {"write", "archive"} => m.prev # NoPlan
  /\ m.pc \in {"read", "archive", "put"} => m.body \in Bodies
  /\ m.pc = "save" => m.what \in StageKinds \cup {"plan", "run"}

TypeInv ==
  /\ plan \in Envelope \cup {NoPlan}
  /\ archive \subseteq Envelope
  /\ session = Torn \/ session \subseteq Artifact
  /\ edits \in 0..MaxEdits
  /\ history \in Records
  /\ me \in [Procs -> Invocation]
  /\ \A p \in Procs : TypedAt(me[p])

(* An approval on file is of a decision that stands, whatever the body     *)
(* has become: the hash says what it was about.                            *)
DecisionInv ==
  plan # NoPlan /\ plan.status = "approved" => plan.hash \in history.standing

(* What one command holds of the session, and is about to save of its own, *)
(* lists no plan before the file is there.                                 *)
RecordAt(m) ==
  \/ plan # NoPlan
  \/ ~Has(m.arts, "plan") /\ ~(m.pc = "save" /\ m.what = "plan")

RecordInv ==
  /\ session # Torn /\ Has(session, "plan") => plan # NoPlan
  /\ \A p \in Procs : RecordAt(me[p])

(* Without an overlap, what a command has read of the plan is still the    *)
(* revision on file, though the user may have edited it.                   *)
SameRevision(f) ==
  IF plan = NoPlan THEN f = NoPlan
  ELSE f # NoPlan /\ f.rev = plan.rev /\ f.origin = plan.origin

AloneAt(m) ==
  /\ m.pc \notin {"idle", "done"} => history.written \subseteq m.arts
  /\ m.pc \in {"archive", "put", "write"} => SameRevision(m.prev)
  /\ m.pc = "put" /\ plan # NoPlan => \E a \in archive : a.rev = plan.rev

AloneInv ==
  ~history.overlap =>
    /\ \A p, q \in Procs : Active(p) /\ Active(q) => p = q
    /\ plan = NoPlan => archive = {}
    /\ RevisionsKept /\ SessionKeeps
    /\ \A p \in Procs : AloneAt(me[p])

PlanInv == TypeInv /\ DecisionInv /\ RecordInv /\ RunIsApproved /\ AloneInv

(***************************************************************************)
(* Reading a plan.                                                         *)
(***************************************************************************)
LEMMA FreshEnvelope ==
  ASSUME NEW f \in Envelope
  PROVE  /\ Fresh(f) \in Envelope /\ Fresh(f) # NoPlan
         /\ Fresh(f).rev = f.rev /\ Fresh(f).origin = f.origin /\ Fresh(f).body = f.body
         /\ Fresh(f).status = IF Stale(f) \/ f.v = 1 THEN "pending" ELSE f.status
  <1>1. Fresh(f) \in Envelope
    BY DEF Fresh, Envelope, Statuses
  <1>2. /\ Fresh(f).rev = f.rev /\ Fresh(f).origin = f.origin /\ Fresh(f).body = f.body
        /\ Fresh(f).status = IF Stale(f) \/ f.v = 1 THEN "pending" ELSE f.status
    BY DEF Fresh, Envelope
  <1> QED
    BY <1>1, <1>2, NoPlanAssumption

(* What passes the gate of run is sound, and approved as it stands; only   *)
(* the second is forgiven by --bypass.                                     *)
LEMMA GateOfRun ==
  ASSUME NEW f \in Envelope, NEW bypass \in BOOLEAN, GatePasses(f, "run", bypass)
  PROVE  /\ f.body \in Sound
         /\ ~bypass => f.status = "approved" /\ f.hash = f.body
  <1>1. Blockers(f, "run") \subseteq IF bypass THEN {"not-approved"} ELSE {}
    BY DEF GatePasses, Bypassable
  <1>2. f.body \in Sound
    BY <1>1 DEF Blockers
  <1>3. ASSUME ~bypass PROVE f.status = "approved" /\ f.hash = f.body
    <2>1. Fresh(f).status = "approved"
      BY <1>1, <1>3 DEF Blockers
    <2>2. ~Stale(f) /\ f.v # 1 /\ f.status = "approved"
      BY <2>1, FreshEnvelope
    <2> QED
      BY <2>2 DEF Stale, Envelope
  <1> QED
    BY <1>2, <1>3

(***************************************************************************)
(* Initially.                                                              *)
(***************************************************************************)
LEMMA AtIsInvocation ==
  ASSUME NEW pc \in Places
  PROVE  At(pc) \in Invocation /\ At(pc).pc = pc /\ At(pc).arts = {}
  <1>1. NewMe({}, "evolve") \in Invocation
    BY DEF NewMe, Invocation, Places, EveryKind, StageKinds
  <1>2. At(pc) = [NewMe({}, "evolve") EXCEPT !.pc = pc]
    BY DEF At
  <1> QED
    BY <1>1, <1>2 DEF Invocation, NewMe

LEMMA InitInv == Init => PlanInv
  <1> SUFFICES ASSUME Init PROVE PlanInv
    OBVIOUS
  <1>1. /\ me \in [Procs -> Invocation]
        /\ \A p \in Procs : me[p].pc = "idle" /\ me[p].arts = {}
    <2>1. me = [p \in Procs |-> At("idle")]
      BY DEF Init
    <2>2. At("idle") \in Invocation /\ At("idle").pc = "idle" /\ At("idle").arts = {}
      BY AtIsInvocation DEF Places
    <2> QED
      BY <2>1, <2>2
  <1>2. \/ plan = NoPlan
        \/ plan \in Envelope /\ plan.rev = 1 /\ plan.hash = plan.body /\ plan # NoPlan
    BY NoPlanAssumption, BodiesAssumption DEF Init, Envelope, Statuses
  <1>3. /\ archive = {} /\ edits \in 0..MaxEdits
        /\ session \subseteq Artifact
        /\ Has(session, "plan") => plan # NoPlan
    BY BodiesAssumption DEF Init, Artifact, Has
  <1>4. /\ history \in Records
        /\ history.ran = {} /\ history.written = session
        /\ plan # NoPlan /\ plan.status = "approved" => history.standing = {plan.body}
    BY <1>2, <1>3 DEF Init, Records, Envelope
  <1>5. TypeInv
    BY <1>1, <1>2, <1>3, <1>4 DEF TypeInv, TypedAt
  <1>6. DecisionInv
    BY <1>2, <1>4 DEF DecisionInv
  <1>7. RecordInv
    BY <1>1, <1>3 DEF RecordInv, RecordAt, Has
  <1>8. RunIsApproved
    BY <1>4 DEF RunIsApproved
  <1>9. AloneInv
    <2>1. RevisionsKept
      BY <1>2, <1>3 DEF RevisionsKept
    <2> QED
      BY <1>1, <1>3, <1>4, <2>1 DEF AloneInv, AloneAt, Active, SessionKeeps
  <1> QED
    BY <1>5, <1>6, <1>7, <1>8, <1>9 DEF PlanInv

(***************************************************************************)
(* The steps of one command.                                               *)
(***************************************************************************)
(* What the others hold stays the same.                                    *)
LEMMA NextMe ==
  ASSUME TypeInv, NEW p \in Procs, NEW m \in Invocation, me' = [me EXCEPT ![p] = m]
  PROVE  /\ me' \in [Procs -> Invocation]
         /\ me'[p] = m /\ \A q \in Procs \ {p} : me'[q] = me[q]
  BY DEF TypeInv

(* A step that changes nothing but what one command holds.                 *)
LEMMA ControlInv ==
  ASSUME PlanInv, NEW p \in Procs, NEW m \in Invocation,
         me' = [me EXCEPT ![p] = m], Active(p),
         UNCHANGED <<plan, archive, session, edits, history>>,
         TypedAt(m), RecordAt(m),
         ~history.overlap => AloneAt(m)
  PROVE  PlanInv'
  <1>1. /\ me' \in [Procs -> Invocation]
        /\ me'[p] = m /\ \A q \in Procs \ {p} : me'[q] = me[q]
    BY NextMe DEF PlanInv
  <1>2. TypeInv'
    BY <1>1 DEF PlanInv, TypeInv, TypedAt
  <1>3. DecisionInv'
    BY DEF PlanInv, DecisionInv
  <1>4. RecordInv'
    BY <1>1 DEF PlanInv, RecordInv, RecordAt
  <1>5. RunIsApproved'
    BY DEF PlanInv, RunIsApproved
  <1>6. AloneInv'
    <2> SUFFICES ASSUME ~history.overlap PROVE AloneInv'
      BY DEF AloneInv
    <2>1. \A q, r \in Procs : Active(q)' /\ Active(r)' => q = r
      BY <1>1 DEF PlanInv, AloneInv, Active
    <2>2. \A q \in Procs : AloneAt(me[q])'
      BY <1>1 DEF PlanInv, AloneInv, AloneAt, SameRevision
    <2> QED
      BY <2>1, <2>2 DEF PlanInv, AloneInv, RevisionsKept, SessionKeeps
  <1> QED
    BY <1>2, <1>3, <1>4, <1>5, <1>6 DEF PlanInv

(* A command that ends, by itself or not, and has written nothing.         *)
LEMMA QuitInv ==
  ASSUME PlanInv, NEW p \in Procs, Active(p), Quit(p),
         UNCHANGED <<plan, archive, session, edits, history>>
  PROVE  PlanInv'
  <1>1. /\ At("done") \in Invocation /\ At("done").pc = "done" /\ At("done").arts = {}
        /\ me' = [me EXCEPT ![p] = At("done")]
    BY AtIsInvocation DEF Quit, Places
  <1>2. TypedAt(At("done")) /\ RecordAt(At("done")) /\ AloneAt(At("done"))
    BY <1>1 DEF TypedAt, RecordAt, AloneAt, Has
  <1> QED
    BY <1>1, <1>2, ControlInv

(* One that goes on, and holds what it held.                               *)
LEMMA GotoInv ==
  ASSUME PlanInv, NEW p \in Procs, Active(p),
         NEW pc \in Places \ {"save", "read", "archive", "put", "write"}, Goto(p, pc),
         UNCHANGED <<plan, archive, session, edits, history>>
  PROVE  PlanInv'
  <1> DEFINE m == [me[p] EXCEPT !.pc = pc]
  <1>1. me[p] \in Invocation
    BY DEF PlanInv, TypeInv
  <1>2. m \in Invocation /\ m.pc = pc /\ m.arts = me[p].arts
    BY <1>1 DEF Invocation
  <1>3. me' = [me EXCEPT ![p] = m]
    BY DEF Goto
  <1>4. TypedAt(m)
    BY <1>2 DEF TypedAt
  <1>5. RecordAt(m)
    BY <1>2 DEF PlanInv, RecordInv, RecordAt
  <1>6. ~history.overlap => AloneAt(m)
    BY <1>2 DEF PlanInv, AloneInv, AloneAt, Active
  <1> QED
    BY <1>2, <1>3, <1>4, <1>5, <1>6, ControlInv

LEMMA ThinkInv == ASSUME PlanInv, NEW p \in Procs, Think(p) PROVE PlanInv'
  <1>1. PICK b \in Bodies : me' = [me EXCEPT ![p] = [me[p] EXCEPT !.body = b, !.pc = "read"]]
    BY DEF Think, PlanInv, TypeInv, Invocation
  <1> DEFINE m == [me[p] EXCEPT !.body = b, !.pc = "read"]
  <1>2. me[p] \in Invocation /\ Active(p)
    BY DEF PlanInv, TypeInv, Think, Active
  <1>3. m \in Invocation /\ m.pc = "read" /\ m.arts = me[p].arts /\ m.body = b
    BY <1>2 DEF Invocation, Places
  <1>4. TypedAt(m) /\ RecordAt(m)
    BY <1>3 DEF TypedAt, PlanInv, RecordInv, RecordAt
  <1>5. ~history.overlap => AloneAt(m)
    BY <1>2, <1>3 DEF PlanInv, AloneInv, AloneAt, Active
  <1>6. me' = [me EXCEPT ![p] = m]
    BY <1>1
  <1> HIDE DEF m
  <1> QED
    BY <1>2, <1>3, <1>4, <1>5, <1>6, ControlInv DEF Think

LEMMA ImportInv == ASSUME PlanInv, NEW p \in Procs, Import(p) PROVE PlanInv'
  <1>1. PICK b \in Bodies :
          me' = [me EXCEPT ![p] = [me[p] EXCEPT !.body = b,
                                     !.pc = IF b \in Sound THEN "read" ELSE "done"]]
    BY DEF Import, PlanInv, TypeInv, Invocation
  <1> DEFINE m == [me[p] EXCEPT !.body = b, !.pc = IF b \in Sound THEN "read" ELSE "done"]
  <1>2. me[p] \in Invocation /\ Active(p)
    BY DEF PlanInv, TypeInv, Import, Active
  <1>3. m \in Invocation /\ m.pc \in {"read", "done"} /\ m.arts = me[p].arts /\ m.body = b
    BY <1>2 DEF Invocation, Places
  <1>4. TypedAt(m) /\ RecordAt(m)
    BY <1>3 DEF TypedAt, PlanInv, RecordInv, RecordAt
  <1>5. ~history.overlap => AloneAt(m)
    BY <1>2, <1>3 DEF PlanInv, AloneInv, AloneAt, Active
  <1>6. me' = [me EXCEPT ![p] = m]
    BY <1>1
  <1> HIDE DEF m
  <1> QED
    BY <1>2, <1>3, <1>4, <1>5, <1>6, ControlInv DEF Import

(* The previous plan as it is read is of the revision on file.             *)
LEMMA ReadPreviousInv == ASSUME PlanInv, NEW p \in Procs, ReadPrevious(p) PROVE PlanInv'
  <1> DEFINE prev == IF plan = NoPlan THEN NoPlan ELSE Fresh(plan)
             m == [me[p] EXCEPT !.prev = prev,
                                !.pc = IF plan = NoPlan THEN "put" ELSE "archive"]
  <1>1. me' = [me EXCEPT ![p] = m]
    BY DEF ReadPrevious
  <1>2. me[p] \in Invocation /\ Active(p) /\ me[p].body \in Bodies
    BY DEF PlanInv, TypeInv, TypedAt, ReadPrevious, Active
  <1>3. prev \in Envelope \cup {NoPlan} /\ SameRevision(prev)
    BY FreshEnvelope DEF PlanInv, TypeInv, SameRevision
  <1>4. /\ m \in Invocation /\ m.arts = me[p].arts /\ m.prev = prev /\ m.body = me[p].body
        /\ m.pc = IF plan = NoPlan THEN "put" ELSE "archive"
    BY <1>2, <1>3 DEF Invocation, Places
  <1>5. TypedAt(m) /\ RecordAt(m)
    BY <1>2, <1>3, <1>4 DEF TypedAt, SameRevision, PlanInv, RecordInv, RecordAt
  <1>6. ~history.overlap => AloneAt(m)
    BY <1>2, <1>3, <1>4 DEF PlanInv, AloneInv, AloneAt, Active
  <1> HIDE DEF m, prev
  <1> QED
    BY <1>1, <1>2, <1>4, <1>5, <1>6, ControlInv DEF ReadPrevious

LEMMA GateInv == ASSUME PlanInv, NEW p \in Procs, Gate(p) PROVE PlanInv'
  <1>1. Active(p) /\ (Goto(p, "decide") \/ Quit(p))
    BY DEF Gate, Active
  <1> QED
    BY <1>1, GotoInv, QuitInv DEF Gate, Places

LEMMA AutoGateInv == ASSUME PlanInv, NEW p \in Procs, AutoGate(p) PROVE PlanInv'
  <1>1. Active(p) /\ (Goto(p, "think") \/ Goto(p, "again") \/ Quit(p))
    BY DEF AutoGate, Active
  <1> QED
    BY <1>1, GotoInv, QuitInv DEF AutoGate, Places

LEMMA DecideReadInv == ASSUME PlanInv, NEW p \in Procs, DecideRead(p) PROVE PlanInv'
  <1>1. Active(p)
    BY DEF DecideRead, Active
  <1>2. CASE Quit(p)
    BY <1>1, <1>2, QuitInv DEF DecideRead
  <1>3. CASE ~Quit(p)
    <2> DEFINE prev == Fresh(plan)
               m == [me[p] EXCEPT !.prev = prev, !.pc = "write"]
    <2>1. plan # NoPlan /\ me' = [me EXCEPT ![p] = m]
      BY <1>3 DEF DecideRead
    <2>2. me[p] \in Invocation
      BY DEF PlanInv, TypeInv
    <2>3. prev \in Envelope /\ prev # NoPlan /\ SameRevision(prev)
      BY <2>1, FreshEnvelope DEF PlanInv, TypeInv, SameRevision
    <2>4. m \in Invocation /\ m.arts = me[p].arts /\ m.prev = prev /\ m.pc = "write"
      BY <2>2, <2>3 DEF Invocation, Places
    <2>5. TypedAt(m) /\ RecordAt(m)
      BY <2>3, <2>4 DEF TypedAt, PlanInv, RecordInv, RecordAt
    <2>6. ~history.overlap => AloneAt(m)
      BY <1>1, <2>3, <2>4 DEF PlanInv, AloneInv, AloneAt, Active
    <2> HIDE DEF m, prev
    <2> QED
      BY <1>1, <2>1, <2>4, <2>5, <2>6, ControlInv DEF DecideRead
  <1> QED
    BY <1>2, <1>3

LEMMA WorkInv == ASSUME PlanInv, NEW p \in Procs, Work(p) PROVE PlanInv'
  <1>1. Active(p)
    BY DEF Work, Active
  <1>2. CASE Quit(p)
    BY <1>1, <1>2, QuitInv DEF Work
  <1>3. CASE ~Quit(p)
    <2> DEFINE m == [me[p] EXCEPT !.pc = "save", !.what = "run"]
    <2>1. me' = [me EXCEPT ![p] = m]
      BY <1>3 DEF Work
    <2>2. me[p] \in Invocation
      BY DEF PlanInv, TypeInv
    <2>3. m \in Invocation /\ m.arts = me[p].arts /\ m.what = "run" /\ m.pc = "save"
      BY <2>2 DEF Invocation, Places, EveryKind
    <2>4. TypedAt(m) /\ RecordAt(m)
      BY <2>3 DEF TypedAt, PlanInv, RecordInv, RecordAt
    <2>5. ~history.overlap => AloneAt(m)
      BY <1>1, <2>3 DEF PlanInv, AloneInv, AloneAt, Active
    <2> HIDE DEF m
    <2> QED
      BY <1>1, <2>1, <2>3, <2>4, <2>5, ControlInv DEF Work
  <1> QED
    BY <1>2, <1>3

(* A session that was read lists a plan only if its file is there.         *)
LEMMA BeginInv ==
  ASSUME PlanInv, NEW p \in Procs, NEW kind \in EveryKind, NEW pc \in Places,
         Begin(p, kind, pc),
         pc \notin {"idle", "done", "read", "archive", "put", "write"},
         pc = "save" => kind \in StageKinds
  PROVE  PlanInv'
  <1> DEFINE m == [NewMe(session, kind) EXCEPT !.pc = pc]
  <1>1. session # Torn /\ session \subseteq Artifact /\ ~Active(p)
    BY DEF PlanInv, TypeInv, Begin, Loadable, Active
  <1>2. me' = [me EXCEPT ![p] = m]
    BY DEF Begin
  <1>3. NewMe(session, kind) \in Invocation
    BY <1>1 DEF NewMe, Invocation, Places
  <1>4. m \in Invocation /\ m.arts = session /\ m.what = kind /\ m.pc = pc
    BY <1>3 DEF Invocation, NewMe
  <1> HIDE DEF m
  <1>5. /\ me' \in [Procs -> Invocation]
        /\ me'[p] = m /\ \A q \in Procs \ {p} : me'[q] = me[q]
    BY <1>2, <1>4, NextMe DEF PlanInv
  <1>6. \/ /\ \E q \in Procs \ {p} : Active(q)
           /\ history' = [history EXCEPT !.overlap = TRUE, !.written = {}]
        \/ /\ \A q \in Procs \ {p} : ~Active(q)
           /\ history' = history
    BY DEF Begin
  <1>7. /\ history' \in Records
        /\ history'.standing = history.standing /\ history'.ran = history.ran
        /\ ~history'.overlap => /\ history' = history
                                /\ \A q \in Procs \ {p} : ~Active(q)
    BY <1>6 DEF PlanInv, TypeInv, Records
  <1>8. UNCHANGED <<plan, archive, session, edits>>
    BY DEF Begin
  <1>9. TypeInv'
    BY <1>4, <1>5, <1>7, <1>8 DEF PlanInv, TypeInv, TypedAt
  <1>10. DecisionInv'
    BY <1>7, <1>8 DEF PlanInv, DecisionInv
  <1>11. RecordInv'
    BY <1>1, <1>4, <1>5, <1>8 DEF PlanInv, RecordInv, RecordAt, StageKinds
  <1>12. RunIsApproved'
    BY <1>7 DEF PlanInv, RunIsApproved
  <1>13. AloneInv'
    <2> SUFFICES ASSUME ~history'.overlap PROVE AloneInv'
      BY DEF AloneInv
    <2>1. history' = history
      BY <1>7
    <2>2. \A q, r \in Procs : Active(q)' /\ Active(r)' => q = r
      BY <1>5, <1>7 DEF Active
    <2>3. \A q \in Procs : AloneAt(me[q])'
      BY <1>1, <1>4, <1>5, <1>8, <2>1 DEF PlanInv, AloneInv, AloneAt, SameRevision, SessionKeeps
    <2> QED
      BY <1>8, <2>1, <2>2, <2>3 DEF PlanInv, AloneInv, RevisionsKept, SessionKeeps
  <1> QED
    BY <1>9, <1>10, <1>11, <1>12, <1>13 DEF PlanInv

(* A copy of the previous plan is of its revision.                         *)
LEMMA ArchiveInv == ASSUME PlanInv, NEW p \in Procs, Archive(p) PROVE PlanInv'
  <1> DEFINE copy == [me[p].prev EXCEPT !.status = "superseded", !.v = 2]
             m == [me[p] EXCEPT !.pc = "put"]
  <1>1. /\ me[p] \in Invocation /\ Active(p)
        /\ me[p].prev \in Envelope /\ me[p].body \in Bodies
    BY DEF PlanInv, TypeInv, TypedAt, Archive, Active, Invocation
  <1>2. /\ copy \in Envelope /\ copy.rev = me[p].prev.rev
        /\ copy.origin = me[p].prev.origin /\ copy.status = "superseded"
    BY <1>1 DEF Envelope, Statuses
  <1>3. /\ m \in Invocation /\ m.pc = "put" /\ m.arts = me[p].arts
        /\ m.prev = me[p].prev /\ m.body = me[p].body
    BY <1>1 DEF Invocation, Places
  <1>4. /\ archive' = archive \cup {copy} /\ me' = [me EXCEPT ![p] = m]
        /\ me[p].pc = "archive"
        /\ UNCHANGED <<plan, session, edits, history>>
    BY DEF Archive, Goto
  <1> HIDE DEF m, copy
  <1>5. /\ me' \in [Procs -> Invocation]
        /\ me'[p] = m /\ \A q \in Procs \ {p} : me'[q] = me[q]
    BY <1>3, <1>4, NextMe DEF PlanInv
  <1>6. TypeInv'
    BY <1>1, <1>2, <1>3, <1>4, <1>5 DEF PlanInv, TypeInv, TypedAt
  <1>7. DecisionInv' /\ RunIsApproved'
    BY <1>4 DEF PlanInv, DecisionInv, RunIsApproved
  <1>8. RecordInv'
    BY <1>3, <1>4, <1>5 DEF PlanInv, RecordInv, RecordAt
  <1>9. AloneInv'
    <2> SUFFICES ASSUME ~history.overlap PROVE AloneInv'
      BY <1>4 DEF AloneInv
    <2>1. plan # NoPlan /\ copy.rev = plan.rev /\ copy.origin = plan.origin /\ plan \in Envelope
      BY <1>1, <1>2, <1>4, NoPlanAssumption
      DEF PlanInv, TypeInv, AloneInv, AloneAt, SameRevision
    <2>2. \A q, r \in Procs : Active(q)' /\ Active(r)' => q = r
      BY <1>1, <1>5 DEF PlanInv, AloneInv, Active
    <2>3. RevisionsKept'
      <3>1. plan.rev <= plan.rev
        BY <2>1 DEF Envelope
      <3> QED
        BY <1>2, <1>4, <2>1, <3>1 DEF PlanInv, AloneInv, RevisionsKept
    <2>4. \A q \in Procs : AloneAt(me[q])'
      BY <1>1, <1>3, <1>4, <1>5, <2>1 DEF PlanInv, AloneInv, AloneAt, SameRevision
    <2> QED
      BY <1>4, <2>1, <2>2, <2>3, <2>4 DEF PlanInv, AloneInv, SessionKeeps
  <1> QED
    BY <1>6, <1>7, <1>8, <1>9 DEF PlanInv

(* The plan that is put is pending, and of the next revision.              *)
LEMMA PutInv == ASSUME PlanInv, NEW p \in Procs, Put(p) PROVE PlanInv'
  <1> DEFINE rev == IF me[p].prev = NoPlan THEN 1 ELSE me[p].prev.rev + 1
             new == [v |-> 2, rev |-> rev, origin |-> p, body |-> me[p].body,
                     status |-> "pending", hash |-> me[p].body]
             m == [me[p] EXCEPT !.pc = "save", !.what = "plan", !.body = NoPlan, !.prev = NoPlan]
  <1>1. /\ me[p] \in Invocation /\ Active(p) /\ me[p].body \in Bodies
        /\ me[p].prev \in Envelope \cup {NoPlan}
    BY DEF PlanInv, TypeInv, TypedAt, Put, Active, Invocation
  <1>2. rev \in Nat
    BY <1>1 DEF Envelope
  <1>3. /\ new \in Envelope /\ new # NoPlan /\ new.rev = rev /\ new.origin = p
        /\ new.status = "pending"
    BY <1>1, <1>2, NoPlanAssumption DEF Envelope, Statuses
  <1>4. /\ m \in Invocation /\ m.pc = "save" /\ m.what = "plan" /\ m.arts = me[p].arts
    BY <1>1 DEF Invocation, Places, EveryKind, PlanKinds
  <1>5. /\ plan' = new /\ me' = [me EXCEPT ![p] = m]
        /\ history' = [history EXCEPT !.standing = {}]
        /\ me[p].pc = "put"
        /\ UNCHANGED <<archive, session, edits>>
    BY DEF Put, WriteJsonAtomic
  <1>6. /\ history' \in Records /\ history'.ran = history.ran
        /\ history'.overlap = history.overlap /\ history'.written = history.written
    BY <1>5 DEF PlanInv, TypeInv, Records
  <1>7. rev = IF me[p].prev = NoPlan THEN 1 ELSE me[p].prev.rev + 1
    OBVIOUS
  <1> HIDE DEF m, new, rev
  <1>8. /\ me' \in [Procs -> Invocation]
        /\ me'[p] = m /\ \A q \in Procs \ {p} : me'[q] = me[q]
    BY <1>4, <1>5, NextMe DEF PlanInv
  <1>9. TypeInv'
    BY <1>3, <1>4, <1>5, <1>6, <1>8 DEF PlanInv, TypeInv, TypedAt
  <1>10. DecisionInv' /\ RunIsApproved'
    BY <1>3, <1>5, <1>6 DEF PlanInv, DecisionInv, RunIsApproved
  <1>11. RecordInv'
    BY <1>3, <1>5 DEF RecordInv, RecordAt
  <1>12. AloneInv'
    <2> SUFFICES ASSUME ~history.overlap PROVE AloneInv'
      BY <1>6 DEF AloneInv
    <2>1. \A q, r \in Procs : Active(q)' /\ Active(r)' => q = r
      BY <1>1, <1>8 DEF PlanInv, AloneInv, Active
    <2>2. \A q \in Procs \ {p} : ~Active(q)
      BY <1>1 DEF PlanInv, AloneInv
    <2>3. \A q \in Procs : AloneAt(me[q])'
      BY <1>1, <1>4, <1>5, <1>6, <1>8, <2>2 DEF PlanInv, AloneInv, AloneAt, Active
    <2>4. CASE plan = NoPlan
      <3>1. archive = {} /\ rev = 1
        BY <1>1, <1>5, <1>7, <2>4 DEF PlanInv, AloneInv, AloneAt, SameRevision
      <3>2. RevisionsKept'
        BY <1>3, <1>5, <3>1 DEF RevisionsKept
      <3> QED
        BY <1>3, <1>5, <1>6, <2>1, <2>3, <3>2 DEF PlanInv, AloneInv, SessionKeeps
    <2>5. CASE plan # NoPlan
      <3>1. /\ plan \in Envelope /\ rev = plan.rev + 1 /\ plan.rev \in Nat
            /\ \E a \in archive : a.rev = plan.rev
        BY <1>1, <1>5, <1>7, <2>5 DEF PlanInv, TypeInv, AloneInv, AloneAt, SameRevision, Envelope
      <3>2. /\ \A r \in 1..(plan.rev - 1) : \E a \in archive : a.rev = r
            /\ \A a \in archive : a.status = "superseded" /\ a.rev <= plan.rev /\ a.rev \in Nat
            /\ \A a, b \in archive : a.rev = b.rev => a.origin = b.origin
        BY <2>5 DEF PlanInv, TypeInv, AloneInv, RevisionsKept, Envelope
      <3>3. \A r \in 1..(rev - 1) : \E a \in archive : a.rev = r
        BY <3>1, <3>2
      <3>4. \A a \in archive : a.rev <= rev /\ a.rev # rev
        BY <3>1, <3>2
      <3>5. \A a, b \in archive \cup {new} : a.rev = b.rev => a.origin = b.origin
        BY <1>3, <3>2, <3>4
      <3>6. RevisionsKept'
        BY <1>3, <1>5, <3>2, <3>3, <3>4, <3>5 DEF RevisionsKept
      <3> QED
        BY <1>3, <1>5, <1>6, <2>1, <2>3, <3>6 DEF PlanInv, AloneInv, SessionKeeps
    <2> QED
      BY <2>4, <2>5
  <1> QED
    BY <1>9, <1>10, <1>11, <1>12 DEF PlanInv

(* What is saved holds what was read; without an overlap that is all there *)
(* was.                                                                    *)
LEMMA SaveInv == ASSUME PlanInv, NEW p \in Procs, Save(p) PROVE PlanInv'
  <1> DEFINE saved == me[p].arts \cup {[by |-> p, kind |-> me[p].what]}
             more == [me[p] EXCEPT !.arts = saved, !.what = "learn"]
  <1>1. /\ me[p] \in Invocation /\ Active(p) /\ me[p].pc = "save"
        /\ me[p].arts \subseteq Artifact /\ me[p].what \in StageKinds \cup {"plan", "run"}
    BY DEF PlanInv, TypeInv, TypedAt, Save, Active, Invocation
  <1>2. saved \subseteq Artifact /\ me[p].arts \subseteq saved
    BY <1>1 DEF Artifact
  <1>3. Has(saved, "plan") => plan # NoPlan
    BY <1>1 DEF Has, PlanInv, RecordInv, RecordAt
  <1>4. /\ session' = saved
        /\ history' = [history EXCEPT !.written = IF history.overlap THEN {} ELSE @ \cup saved]
        /\ UNCHANGED <<plan, archive, edits>>
    BY DEF Save, Saved
  <1>5. /\ history' \in Records /\ history'.ran = history.ran
        /\ history'.overlap = history.overlap /\ history'.standing = history.standing
        /\ ~history.overlap => history'.written = history.written \cup saved
    BY <1>2, <1>4 DEF PlanInv, TypeInv, Records
  <1>6. PICK m \in Invocation :
          /\ me' = [me EXCEPT ![p] = m] /\ TypedAt(m)
          /\ \/ m.pc = "done" /\ m.arts = {}
             \/ m.pc = "save" /\ m.what = "learn" /\ m.arts = saved
    <2>1. CASE Quit(p)
      BY <2>1, AtIsInvocation DEF Quit, Places, TypedAt
    <2>2. CASE me' = [me EXCEPT ![p] = more]
      <3>1. /\ more \in Invocation /\ more.pc = "save" /\ more.what = "learn"
            /\ more.arts = saved
        BY <1>1, <1>2 DEF Invocation, EveryKind, StageKinds
      <3> QED
        BY <2>2, <3>1 DEF TypedAt, StageKinds
    <2> QED
      BY <2>1, <2>2 DEF Save, Saved
  <1> HIDE DEF saved, more
  <1>7. /\ me' \in [Procs -> Invocation]
        /\ me'[p] = m /\ \A q \in Procs \ {p} : me'[q] = me[q]
    BY <1>6, NextMe DEF PlanInv
  <1>8. TypeInv'
    BY <1>2, <1>4, <1>5, <1>6, <1>7 DEF PlanInv, TypeInv, TypedAt
  <1>9. DecisionInv' /\ RunIsApproved'
    BY <1>4, <1>5 DEF PlanInv, DecisionInv, RunIsApproved
  <1>10. RecordInv'
    BY <1>3, <1>4, <1>6, <1>7 DEF PlanInv, RecordInv, RecordAt, Has
  <1>11. AloneInv'
    <2> SUFFICES ASSUME ~history.overlap PROVE AloneInv'
      BY <1>5 DEF AloneInv
    <2>1. \A q, r \in Procs : Active(q)' /\ Active(r)' => q = r
      BY <1>1, <1>7 DEF PlanInv, AloneInv, Active
    <2>2. \A q \in Procs \ {p} : ~Active(q)
      BY <1>1 DEF PlanInv, AloneInv
    <2>3. history.written \subseteq saved
      BY <1>1, <1>2 DEF PlanInv, AloneInv, AloneAt
    <2>4. \A q \in Procs : AloneAt(me[q])'
      BY <1>4, <1>5, <1>6, <1>7, <2>2, <2>3 DEF AloneAt, Active
    <2>5. SessionKeeps'
      BY <1>4, <1>5, <2>3 DEF SessionKeeps
    <2> QED
      BY <1>4, <1>5, <2>1, <2>4, <2>5 DEF PlanInv, AloneInv, RevisionsKept
  <1> QED
    BY <1>8, <1>9, <1>10, <1>11 DEF PlanInv

(* An approval is of the body that is written with it.                     *)
LEMMA DecideWriteInv == ASSUME PlanInv, NEW p \in Procs, DecideWrite(p) PROVE PlanInv'
  <1> DEFINE prev == me[p].prev
             decision == IF me[p].kind = "approve" THEN "approved" ELSE "rejected"
             new == [prev EXCEPT !.v = 2, !.status = decision, !.hash = prev.body]
             m == At("done")
  <1>1. Active(p) /\ me[p].pc = "write" /\ prev \in Envelope
    BY DEF PlanInv, TypeInv, TypedAt, DecideWrite, Active, Invocation
  <1>2. /\ new \in Envelope /\ new # NoPlan /\ new.hash = prev.body /\ new.status = decision
        /\ new.rev = prev.rev /\ new.origin = prev.origin
    <2>1. new \in Envelope
      BY <1>1 DEF Envelope, Statuses
    <2> QED
      BY <1>1, <2>1, NoPlanAssumption DEF Envelope
  <1>3. /\ plan' = new /\ me' = [me EXCEPT ![p] = m]
        /\ UNCHANGED <<archive, session, edits>>
    BY DEF DecideWrite, Quit, WriteJsonAtomic
  <1>4. m \in Invocation /\ m.pc = "done" /\ m.arts = {}
    BY AtIsInvocation DEF Places
  <1>5. prev.body \in Bodies
    BY <1>1 DEF Envelope
  <1>6. /\ history' \in Records /\ history'.ran = history.ran
        /\ history'.overlap = history.overlap /\ history'.written = history.written
        /\ decision = "approved" => prev.body \in history'.standing
    BY <1>5 DEF PlanInv, TypeInv, Records, DecideWrite
  <1> HIDE DEF new, m, prev
  <1>7. /\ me' \in [Procs -> Invocation]
        /\ me'[p] = m /\ \A q \in Procs \ {p} : me'[q] = me[q]
    BY <1>3, <1>4, NextMe DEF PlanInv
  <1>8. TypeInv'
    BY <1>2, <1>3, <1>4, <1>6, <1>7 DEF PlanInv, TypeInv, TypedAt
  <1>9. DecisionInv' /\ RunIsApproved'
    BY <1>2, <1>3, <1>6 DEF PlanInv, DecisionInv, RunIsApproved
  <1>10. RecordInv'
    BY <1>2, <1>3 DEF RecordInv, RecordAt
  <1>11. AloneInv'
    <2> SUFFICES ASSUME ~history.overlap PROVE AloneInv'
      BY <1>6 DEF AloneInv
    <2>1. \A q, r \in Procs : Active(q)' /\ Active(r)' => q = r
      BY <1>1, <1>7 DEF PlanInv, AloneInv, Active
    <2>2. \A q \in Procs \ {p} : ~Active(q)
      BY <1>1 DEF PlanInv, AloneInv
    <2>3. \A q \in Procs : AloneAt(me[q])'
      BY <1>4, <1>7, <2>2 DEF AloneAt, Active
    <2>4. plan # NoPlan /\ plan.rev = new.rev /\ plan.origin = new.origin
      BY <1>1, <1>2, NoPlanAssumption DEF PlanInv, AloneInv, AloneAt, SameRevision, prev
    <2>5. RevisionsKept'
      BY <1>2, <1>3, <2>4 DEF PlanInv, AloneInv, RevisionsKept
    <2> QED
      BY <1>2, <1>3, <1>6, <2>1, <2>3, <2>5 DEF PlanInv, AloneInv, SessionKeeps
  <1> QED
    BY <1>8, <1>9, <1>10, <1>11 DEF PlanInv

(* An execution is recorded, and the command goes on to work.              *)
LEMMA ExecuteInv ==
  ASSUME PlanInv, NEW p \in Procs, Active(p), Execute(p, plan), Goto(p, "work"),
         UNCHANGED <<plan, archive, session, edits>>,
         me[p].kind \in {"run", "bypass"} => plan.body \in Sound,
         me[p].kind = "run" => plan.body \in history.standing
  PROVE  PlanInv'
  <1> DEFINE m == [me[p] EXCEPT !.pc = "work"]
             isSound    == plan.body \in Sound
             isApproved == plan.body \in history.approved
             stands     == plan.body \in history.standing
             r == [how |-> me[p].kind, sound |-> isSound,
                   approved |-> isApproved, standing |-> stands]
  <1>1. me[p] \in Invocation /\ me[p].kind \in EveryKind
    BY DEF PlanInv, TypeInv, Invocation
  <1>2. m \in Invocation /\ m.pc = "work" /\ m.arts = me[p].arts
    BY <1>1 DEF Invocation, Places
  <1>3. me' = [me EXCEPT ![p] = m] /\ history' = [history EXCEPT !.ran = @ \cup {r}]
    BY DEF Goto, Execute
  <1>4. /\ r \in Execution
        /\ r.how = "run" => r.standing
        /\ r.how \in {"run", "bypass"} => r.sound
    <2>1. /\ isSound \in BOOLEAN /\ isApproved \in BOOLEAN /\ stands \in BOOLEAN
          /\ me[p].kind \in {"run", "bypass"} => isSound
          /\ me[p].kind = "run" => stands
      OBVIOUS
    <2> HIDE DEF isSound, isApproved, stands
    <2> QED
      BY <1>1, <2>1 DEF Execution
  <1> HIDE DEF m, r
  <1>5. /\ history' \in Records /\ history'.ran = history.ran \cup {r}
        /\ history'.overlap = history.overlap /\ history'.written = history.written
        /\ history'.standing = history.standing
    BY <1>3, <1>4 DEF PlanInv, TypeInv, Records
  <1>6. /\ me' \in [Procs -> Invocation]
        /\ me'[p] = m /\ \A q \in Procs \ {p} : me'[q] = me[q]
    BY <1>2, <1>3, NextMe DEF PlanInv
  <1>7. TypeInv'
    BY <1>2, <1>5, <1>6 DEF PlanInv, TypeInv, TypedAt
  <1>8. DecisionInv'
    BY <1>5 DEF PlanInv, DecisionInv
  <1>9. RunIsApproved'
    BY <1>4, <1>5 DEF PlanInv, RunIsApproved
  <1>10. RecordInv'
    BY <1>2, <1>6 DEF PlanInv, RecordInv, RecordAt
  <1>11. AloneInv'
    <2> SUFFICES ASSUME ~history.overlap PROVE AloneInv'
      BY <1>5 DEF AloneInv
    <2>1. \A q, o \in Procs : Active(q)' /\ Active(o)' => q = o
      BY <1>6 DEF PlanInv, AloneInv, Active
    <2>2. \A q \in Procs : AloneAt(me[q])'
      BY <1>2, <1>5, <1>6 DEF PlanInv, AloneInv, AloneAt, SameRevision, Active
    <2> QED
      BY <1>5, <2>1, <2>2 DEF PlanInv, AloneInv, RevisionsKept, SessionKeeps
  <1> QED
    BY <1>7, <1>8, <1>9, <1>10, <1>11 DEF PlanInv

LEMMA StartInv ==
  ASSUME PlanInv, NEW p \in Procs, Start(p), me[p].kind \in {"run", "bypass"}
  PROVE  PlanInv'
  <1>1. Active(p) /\ UNCHANGED <<plan, archive, session, edits>>
    BY DEF Start, Active
  <1>2. CASE Quit(p) /\ UNCHANGED history
    BY <1>1, <1>2, QuitInv
  <1>3. CASE /\ Readable(me[p].arts) /\ GatePasses(plan, "run", me[p].kind = "bypass")
             /\ Execute(p, plan) /\ Goto(p, "work")
    <2>1. plan \in Envelope /\ plan # NoPlan
      BY <1>3 DEF PlanInv, TypeInv, Readable
    <2>2. /\ plan.body \in Sound
          /\ me[p].kind = "run" => plan.status = "approved" /\ plan.hash = plan.body
      BY <1>3, <2>1, GateOfRun
    <2>3. me[p].kind = "run" => plan.body \in history.standing
      BY <2>1, <2>2 DEF PlanInv, DecisionInv
    <2> QED
      BY <1>1, <1>3, <2>2, <2>3, ExecuteInv
  <1> QED
    BY <1>2, <1>3 DEF Start

LEMMA AutoAgainInv ==
  ASSUME PlanInv, NEW p \in Procs, AutoAgain(p), me[p].kind = "resume"
  PROVE  PlanInv'
  <1>1. Active(p)
    BY DEF AutoAgain, Active
  <1> QED
    BY <1>1, ExecuteInv DEF AutoAgain

(* An edit leaves the decision, and what it was about, as they are.        *)
LEMMA EditInv == ASSUME PlanInv, Edit PROVE PlanInv'
  <1>1. PICK b \in Bodies : plan' = [plan EXCEPT !.body = b]
    BY DEF Edit
  <1>2. plan \in Envelope /\ plan # NoPlan
    BY DEF Edit, PlanInv, TypeInv
  <1>3. /\ plan' \in Envelope /\ plan' # NoPlan /\ plan'.hash = plan.hash
        /\ plan'.status = plan.status /\ plan'.rev = plan.rev /\ plan'.origin = plan.origin
    <2>1. plan' \in Envelope
      BY <1>1, <1>2 DEF Envelope
    <2> QED
      BY <1>1, <1>2, <2>1, NoPlanAssumption DEF Envelope
  <1>4. edits' \in 0..MaxEdits /\ UNCHANGED <<archive, session, me, history>>
    BY BodiesAssumption DEF Edit, PlanInv, TypeInv
  <1>5. TypeInv'
    BY <1>3, <1>4 DEF PlanInv, TypeInv, TypedAt
  <1>6. DecisionInv' /\ RunIsApproved' /\ RecordInv'
    BY <1>2, <1>3, <1>4 DEF PlanInv, DecisionInv, RunIsApproved, RecordInv, RecordAt
  <1>7. AloneInv'
    <2> SUFFICES ASSUME ~history.overlap PROVE AloneInv'
      BY <1>4 DEF AloneInv
    <2>1. RevisionsKept'
      BY <1>2, <1>3, <1>4 DEF PlanInv, AloneInv, RevisionsKept
    <2>2. \A q \in Procs : AloneAt(me[q])'
      BY <1>2, <1>3, <1>4 DEF PlanInv, AloneInv, AloneAt, SameRevision
    <2> QED
      BY <1>3, <1>4, <2>1, <2>2 DEF PlanInv, AloneInv, SessionKeeps, Active
  <1> QED
    BY <1>5, <1>6, <1>7 DEF PlanInv

LEMMA CrashInv == ASSUME PlanInv, NEW p \in Procs, Crash(p) PROVE PlanInv'
  <1>1. CASE UNCHANGED session
    BY <1>1, QuitInv DEF Crash
  <1>2. CASE session' = Torn
    <2> DEFINE m == At("done")
    <2>1. /\ m \in Invocation /\ m.pc = "done" /\ m.arts = {}
          /\ me' = [me EXCEPT ![p] = m]
          /\ UNCHANGED <<plan, archive, edits, history>>
      BY AtIsInvocation DEF Crash, Quit, Places
    <2> HIDE DEF m
    <2>2. /\ me' \in [Procs -> Invocation]
          /\ me'[p] = m /\ \A q \in Procs \ {p} : me'[q] = me[q]
      BY <2>1, NextMe DEF PlanInv
    <2>3. TypeInv'
      BY <1>2, <2>1, <2>2 DEF PlanInv, TypeInv, TypedAt
    <2>4. DecisionInv' /\ RunIsApproved'
      BY <2>1 DEF PlanInv, DecisionInv, RunIsApproved
    <2>5. RecordInv'
      BY <1>2, <2>1, <2>2 DEF PlanInv, RecordInv, RecordAt, Has
    <2>6. AloneInv'
      <3> SUFFICES ASSUME ~history.overlap PROVE AloneInv'
        BY <2>1 DEF AloneInv
      <3>1. \A q, r \in Procs : Active(q)' /\ Active(r)' => q = r
        BY <2>1, <2>2 DEF PlanInv, AloneInv, Active
      <3>2. \A q \in Procs : AloneAt(me[q])'
        BY <2>1, <2>2 DEF PlanInv, AloneInv, AloneAt, SameRevision
      <3> QED
        BY <1>2, <2>1, <3>1, <3>2 DEF PlanInv, AloneInv, RevisionsKept, SessionKeeps
    <2> QED
      BY <2>3, <2>4, <2>5, <2>6 DEF PlanInv
  <1> QED
    BY <1>1, <1>2 DEF Crash

(***************************************************************************)
(* All steps.                                                              *)
(***************************************************************************)
LEMMA WritePendingPlanInv ==
  ASSUME PlanInv, NEW p \in Procs, WritePendingPlan(p) PROVE PlanInv'
  BY ReadPreviousInv, ArchiveInv, PutInv DEF WritePendingPlan

LEMMA Invariance == PlanInv /\ [Next]_vars => PlanInv'
  <1> SUFFICES ASSUME PlanInv, [Next]_vars PROVE PlanInv'
    OBVIOUS
  <1>1. CASE UNCHANGED vars
    BY <1>1 DEF vars, PlanInv, TypeInv, TypedAt, DecisionInv, RecordInv, RecordAt, RunIsApproved,
                AloneInv, AloneAt, SameRevision, RevisionsKept, SessionKeeps, Active
  <1>2. ASSUME NEW p \in Procs, NEW kind \in EveryKind, NEW pc \in Places, Starts(p, kind, pc),
               pc \notin {"idle", "done", "read", "archive", "put", "write"},
               pc = "save" => kind \in StageKinds
        PROVE PlanInv'
    BY <1>2, BeginInv DEF Starts
  <1>3. ASSUME NEW p \in Procs, EvolveCommand(p) \/ LearnCommand(p) PROVE PlanInv'
    BY <1>2, <1>3, SaveInv DEF EvolveCommand, LearnCommand, EveryKind, StageKinds, Places
  <1>4. ASSUME NEW p \in Procs, PlanCommand(p) PROVE PlanInv'
    BY <1>2, <1>4, ThinkInv, WritePendingPlanInv, SaveInv
    DEF PlanCommand, EveryKind, PlanKinds, Places
  <1>5. ASSUME NEW p \in Procs, ImportPlanCommand(p) PROVE PlanInv'
    BY <1>2, <1>5, ImportInv, WritePendingPlanInv, SaveInv
    DEF ImportPlanCommand, EveryKind, PlanKinds, Places
  <1>6. ASSUME NEW p \in Procs, DecideCommand(p) PROVE PlanInv'
    BY <1>2, <1>6, GateInv, DecideReadInv, DecideWriteInv DEF DecideCommand, EveryKind, Places
  <1>7. ASSUME NEW p \in Procs, RunCommand(p) PROVE PlanInv'
    BY <1>2, <1>7, StartInv, WorkInv, SaveInv DEF RunCommand, Given, EveryKind, Places
  <1>8. ASSUME NEW p \in Procs, AutoCommand(p) PROVE PlanInv'
    BY <1>2, <1>8, AutoGateInv, ThinkInv, WritePendingPlanInv, SaveInv, AutoAgainInv, WorkInv
    DEF AutoCommand, Given, EveryKind, PlanKinds, Places
  <1>9. ASSUME Next PROVE PlanInv'
    <2>1. CASE Edit
      BY <2>1, EditInv
    <2>2. ASSUME NEW p \in Procs,
                 \/ EvolveCommand(p) \/ LearnCommand(p)
                 \/ PlanCommand(p) \/ ImportPlanCommand(p) \/ DecideCommand(p)
                 \/ RunCommand(p) \/ AutoCommand(p) \/ Crash(p)
          PROVE  PlanInv'
      BY <1>3, <1>4, <1>5, <1>6, <1>7, <1>8, <2>2, CrashInv
    <2> QED
      BY <1>9, <2>1, <2>2 DEF Next
  <1> QED
    BY <1>1, <1>9

(* What is on file, and what every command has read of it, agrees with    *)
(* what was decided (plan.ts, persistence/index.ts, session.ts).          *)
THEOREM PlanInvariant == Spec => []PlanInv
  BY InitInv, Invariance, PTL DEF Spec

(***************************************************************************)
(* What follows.                                                           *)
(***************************************************************************)
(* run executes what a standing decision has approved, and nothing the     *)
(* preflight refuses is executed by it, not even with --bypass.            *)
THEOREM OnlyApprovedRuns == Spec => []RunIsApproved
  BY PlanInvariant, PTL DEF PlanInv

(* A plan on record has its file, whatever dies or overlaps.               *)
THEOREM RecordHasFile == Spec => []PlanOnRecordExists
  <1>1. PlanInv => PlanOnRecordExists
    BY DEF PlanInv, TypeInv, TypedAt, Invocation, RecordInv, PlanOnRecordExists, TypeOK
  <1> QED
    BY <1>1, PlanInvariant, PTL

(* Until two commands overlap no revision is lost, and no record of an     *)
(* artifact from a session file that can be read; a death may tear it.     *)
THEOREM AloneNothingIsLost == Spec => []AloneLosesNothing
  <1>1. PlanInv => AloneLosesNothing
    BY DEF PlanInv, AloneInv, AloneLosesNothing
  <1> QED
    BY <1>1, PlanInvariant, PTL
=============================================================================
