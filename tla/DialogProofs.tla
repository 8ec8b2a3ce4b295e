----------------------------- MODULE DialogProofs -----------------------------
(***************************************************************************)
(* What the two dialogs with a person promise.  StageDialog, of the        *)
(* questions of a stage, for every set of questions and every number of    *)
(* rounds and commands.  Chat, of the shell, for every catalog of commands *)
(* and all that can be typed, for every number of sessions and of steps of *)
(* another terminal.                                                       *)
(***************************************************************************)
EXTENDS StageDialog, Chat, TLAPS, WellFoundedInduction

(***************************************************************************)
(* The inductive invariant                                                 *)
(***************************************************************************)
(* A command under way.                                                    *)
Command ==
  [stage: StageSet, told: BOOLEAN, done: BOOLEAN, rounds: Nat, calls: Nat, tty: BOOLEAN,
   heard: SUBSET Answer, unsent: BOOLEAN, session: Session,
   status: {"completed", "awaiting", "blocked", "failed"}, asks: SUBSET Questions,
   followUps: BOOLEAN]

(* Its calls are at most one ahead of its rounds; the dialog that is over  *)
(* had nothing left to send, and with questions open no one to ask or no   *)
(* round left.                                                             *)
InBounds(c) ==
  /\ c.rounds <= MaxRounds
  /\ c.told \/ c.stage \in {"plan", "run", "learn"}
  /\ ~c.done => c.calls <= c.rounds
  /\ c.done => c.calls <= c.rounds + 1 /\ ~c.unsent
  /\ ~c.told /\ ~c.done => ~c.unsent
  /\ c.done /\ c.told /\ c.status = "awaiting" /\ c.asks # {} =>
       ~c.tty \/ c.rounds = MaxRounds

(* One answer to a question at a time.                                     *)
OneEach(ans) == \A x, y \in ans : x.about = y.about /\ x.q = y.q => x = y

(* Other than a plan's, an output that waited for a person says so.        *)
WaitingShows(as) ==
  \A s \in StageSet \ {"plan"} :
    as[s] # None /\ as[s].open => as[s].status = "awaiting"

(* A command carries, and will write back, every answer given while no       *)
(* command was under way: whoever answers meanwhile speaks to the record,  *)
(* not to the command.  If its model is told of answers, it is of these.   *)
Carries(c, told) ==
  /\ told \subseteq c.session.answers /\ OneEach(c.session.answers)
  /\ c.told => told \subseteq c.heard

DialogInv ==
  /\ TypeOK /\ WaitingShows(last) /\ said \subseteq session.answers
  /\ cmd # None => cmd \in Command /\ InBounds(cmd) /\ Carries(cmd, said)

(* Every dialog begins within its bounds.                                  *)
LEMMA StartsFacts ==
  ASSUME TypeOK, said \subseteq session.answers, NEW s \in StageSet, NEW t \in BOOLEAN,
         NEW r \in {0, 1}, NEW h \in SUBSET Answer,
         t \/ s \in {"plan", "run", "learn"},
         t => session.answers \subseteq h, Starts(s, t, r, h)
  PROVE  cmd' \in Command /\ InBounds(cmd') /\ Carries(cmd', said')
         /\ UNCHANGED <<last, session, said>>
  <1>1. PICK tty \in BOOLEAN :
          cmd' = [stage |-> s, told |-> t, done |-> FALSE, rounds |-> r, calls |-> 0,
                  tty |-> tty, heard |-> h, unsent |-> FALSE, session |-> session,
                  status |-> "completed", asks |-> {}, followUps |-> FALSE]
    BY DEF Starts
  <1>2. cmd' \in Command
    BY <1>1 DEF Command, TypeOK
  <1>3. InBounds(cmd')
    BY <1>1, BoundsAssumption DEF InBounds
  <1>4. UNCHANGED <<last, session, said>>
    BY DEF Starts
  <1>5. cmd'.session = session /\ cmd'.told = t /\ cmd'.heard = h
    BY <1>1
  <1>6. OneEach(session.answers)
    BY DEF TypeOK, OneEach
  <1>7. Carries(cmd', said')
    BY <1>4, <1>5, <1>6 DEF Carries
  <1> QED
    BY <1>2, <1>3, <1>4, <1>7

(* A call keeps a dialog within its bounds, and says nothing to it.        *)
LEMMA CallFacts ==
  ASSUME cmd \in Command, InBounds(cmd), Carries(cmd, said), Call
  PROVE  cmd' \in Command /\ InBounds(cmd') /\ Carries(cmd', said')
         /\ UNCHANGED <<last, session, said>>
  <1>1. PICK status \in {"completed", "awaiting"}, asks \in SUBSET Questions :
          LET over == \/ status # "awaiting" \/ asks = {}
                      \/ Exhausted \/ ~cmd.tty
              next == cmd.rounds + 1
              ends == over \/ next > MaxRounds
          IN cmd' = [cmd EXCEPT
               !.status = IF ends THEN status ELSE @,
               !.asks   = IF ends THEN asks ELSE @,
               !.rounds = IF over THEN @ ELSE next,
               !.calls = @ + 1, !.done = ends, !.unsent = ~over]
    BY DEF Call
  <1> DEFINE over == \/ status # "awaiting" \/ asks = {}
                     \/ Exhausted \/ ~cmd.tty
  <1>2. ~cmd.done /\ cmd.told /\ UNCHANGED <<last, session, said>>
    BY DEF Call
  <1>3. /\ cmd.rounds \in Nat /\ cmd.calls \in Nat /\ MaxRounds \in Nat
        /\ cmd.rounds <= MaxRounds /\ cmd.calls <= cmd.rounds
    BY <1>2, BoundsAssumption DEF Command, InBounds
  <1>4. ~over => ~(cmd.rounds + 1 > MaxRounds)
    BY <1>3 DEF Exhausted
  <1>5. CASE over
    <2>1. cmd' = [cmd EXCEPT !.status = status, !.asks = asks, !.rounds = cmd.rounds,
                             !.calls = cmd.calls + 1, !.done = TRUE, !.unsent = FALSE]
      BY <1>1, <1>5
    <2>2. cmd' \in Command
      <3> DEFINE n == cmd.calls + 1
      <3>1. n \in Nat
        BY <1>3
      <3>2. cmd' = [cmd EXCEPT !.status = status, !.asks = asks, !.rounds = cmd.rounds,
                               !.calls = n, !.done = TRUE, !.unsent = FALSE]
        BY <2>1
      <3> HIDE DEF n
      <3> QED
        BY <1>3, <3>1, <3>2 DEF Command
    <2>3. /\ cmd'.rounds = cmd.rounds /\ cmd'.calls = cmd.calls + 1 /\ cmd'.done
          /\ ~cmd'.unsent /\ cmd'.status = status /\ cmd'.asks = asks
          /\ cmd'.tty = cmd.tty /\ cmd'.told = cmd.told /\ cmd'.heard = cmd.heard
          /\ cmd'.session = cmd.session /\ cmd'.stage = cmd.stage
      BY <2>1 DEF Command
    <2>4. Exhausted => cmd.rounds = MaxRounds
      BY <1>3 DEF Exhausted
    <2>5. cmd.calls + 1 <= cmd.rounds + 1
      BY <1>3
    <2>6. InBounds(cmd')
      BY <1>3, <1>5, <2>3, <2>4, <2>5 DEF InBounds
    <2> QED
      BY <1>2, <2>2, <2>3, <2>6 DEF Carries
  <1>6. CASE ~over
    <2>1. cmd' = [cmd EXCEPT !.rounds = cmd.rounds + 1,
                             !.calls = cmd.calls + 1, !.done = FALSE, !.unsent = TRUE]
      BY <1>1, <1>4, <1>6 DEF Command
    <2>2. cmd' \in Command
      <3> DEFINE n == cmd.calls + 1
                 r == cmd.rounds + 1
      <3>1. n \in Nat /\ r \in Nat
        BY <1>3
      <3>2. cmd' = [cmd EXCEPT !.rounds = r, !.calls = n, !.done = FALSE, !.unsent = TRUE]
        BY <2>1
      <3> HIDE DEF n, r
      <3> QED
        BY <3>1, <3>2 DEF Command
    <2>3. /\ cmd'.rounds = cmd.rounds + 1 /\ cmd'.calls = cmd.calls + 1 /\ ~cmd'.done
          /\ cmd'.stage = cmd.stage /\ cmd'.told = cmd.told /\ cmd'.heard = cmd.heard /\ cmd'.session = cmd.session
      BY <2>1 DEF Command
    <2>4. cmd.rounds + 1 <= MaxRounds /\ cmd.calls + 1 <= cmd.rounds + 1
      BY <1>3, <1>4, <1>6
    <2>5. InBounds(cmd')
      BY <1>2, <2>3, <2>4 DEF InBounds
    <2> QED
      BY <1>2, <2>2, <2>3, <2>5 DEF Carries
  <1> QED
    BY <1>5, <1>6

(* What a stage of the pipeline may answer is an artifact.                 *)
LEMMA PipeAnswersFacts ==
  ASSUME NEW s \in {"plan", "run", "learn"}, NEW a \in PipeAnswers(s)
  PROVE  a \in Artifact /\ a.status # "envelope"
  <1>1. CASE s = "plan"
    <2>1. PipeAnswers(s) = {Settled("completed")}
      BY <1>1 DEF PipeAnswers
    <2>2. a = [status |-> "completed", asks |-> {}, followUps |-> FALSE, open |-> FALSE]
      BY <2>1 DEF Settled
    <2> QED
      BY <2>2 DEF Artifact
  <1>2. CASE s = "run"
    BY <1>2 DEF PipeAnswers, Artifact
  <1>3. CASE s = "learn"
    BY <1>3 DEF PipeAnswers, Artifact
  <1> QED
    BY <1>1, <1>2, <1>3

(* One call of a stage of the pipeline.                                    *)
LEMMA PipeCallFacts ==
  ASSUME cmd \in Command, InBounds(cmd), Carries(cmd, said), PipeCall
  PROVE  cmd' \in Command /\ InBounds(cmd') /\ Carries(cmd', said')
         /\ UNCHANGED <<last, session, said>>
  <1>1. PICK a \in PipeAnswers(cmd.stage) :
          cmd' = [cmd EXCEPT !.status = a.status, !.asks = a.asks, !.followUps = a.followUps,
                             !.calls = @ + 1, !.done = TRUE]
    BY DEF PipeCall
  <1>2. ~cmd.done /\ ~cmd.told /\ UNCHANGED <<last, session, said>>
    BY DEF PipeCall
  <1>3. a.status \in {"completed", "awaiting", "blocked", "failed"}
        /\ a.asks \in SUBSET Questions /\ a.followUps \in BOOLEAN
    <2>0. cmd.stage \in {"plan", "run", "learn"}
      BY <1>2 DEF InBounds
    <2>1. a \in Artifact /\ a.status # "envelope"
      BY <2>0, PipeAnswersFacts
    <2> QED
      BY <2>1 DEF Artifact
  <1>4. /\ cmd.rounds \in Nat /\ cmd.calls \in Nat /\ MaxRounds \in Nat
        /\ cmd.rounds <= MaxRounds /\ cmd.calls <= cmd.rounds
    BY <1>2, BoundsAssumption DEF Command, InBounds
  <1> DEFINE n == cmd.calls + 1
  <1>5. n \in Nat /\ n <= cmd.rounds + 1
    BY <1>4
  <1>6. cmd' = [cmd EXCEPT !.status = a.status, !.asks = a.asks, !.followUps = a.followUps,
                           !.calls = n, !.done = TRUE]
    BY <1>1
  <1> HIDE DEF n
  <1>7. cmd' \in Command
    BY <1>3, <1>5, <1>6 DEF Command
  <1>8. /\ cmd'.rounds = cmd.rounds /\ cmd'.calls = n /\ cmd'.done /\ cmd'.unsent = cmd.unsent
        /\ cmd'.told = cmd.told /\ cmd'.heard = cmd.heard /\ cmd'.session = cmd.session
        /\ cmd'.stage = cmd.stage
    BY <1>6 DEF Command
  <1>9. InBounds(cmd')
    BY <1>2, <1>4, <1>5, <1>8 DEF InBounds
  <1> QED
    BY <1>2, <1>7, <1>8, <1>9 DEF Carries

(* An answer replaces the one to the same question.                        *)
LEMMA UpsertFacts ==
  ASSUME NEW ans \in SUBSET Answer, OneEach(ans), NEW s \in StageSet,
         NEW q \in Questions \cup {BlockedAction}, NEW blank \in BOOLEAN
  PROVE  /\ Upsert(ans, s, q, blank) \subseteq Answer
         /\ OneEach(Upsert(ans, s, q, blank))
  <1> DEFINE new == [about |-> s, q |-> q, blank |-> blank]
             old == Others(ans, s, q)
  <1>1. new \in Answer /\ new.about = s /\ new.q = q
    BY DEF Answer
  <1>2. /\ old \subseteq Answer /\ \A x \in old : ~(x.about = s /\ x.q = q)
        /\ \A x, y \in old : x.about = y.about /\ x.q = y.q => x = y
    BY DEF Others, OneEach
  <1>3. Upsert(ans, s, q, blank) = old \cup {new}
    BY DEF Upsert
  <1> HIDE DEF old, new
  <1> QED
    BY <1>1, <1>2, <1>3 DEF OneEach

(* A session that is new or planned.                                       *)
LEMMA InitInv == Init => DialogInv
  <1> SUFFICES ASSUME Init PROVE DialogInv
    OBVIOUS
  <1>1. Settled("completed") \in Artifact /\ Settled("envelope") \in Artifact
    BY DEF Settled, Artifact
  <1>2. last \in [StageSet -> Artifact \cup {None}]
    BY <1>1 DEF Init
  <1>3. WaitingShows(last)
    BY DEF Init, WaitingShows, Settled
  <1> QED
    BY <1>2, <1>3 DEF Init, DialogInv, TypeOK, Session

(* Whatever is done, by a command or by a person.                          *)
LEMMA StepInv == DialogInv /\ [Next]_vars => DialogInv'
  <1> SUFFICES ASSUME DialogInv, [Next]_vars PROVE DialogInv'
    OBVIOUS
  <1>0. /\ TypeOK /\ WaitingShows(last) /\ said \subseteq session.answers
        /\ cmd # None => cmd \in Command /\ InBounds(cmd) /\ Carries(cmd, said)
    BY DEF DialogInv
  <1>s. StageSet = {"explore", "snapshot", "plan", "run", "learn", "evolve"}
    <2>1. DOMAIN Stages = 1..6
      BY DEF Stages
    <2>2. 1..6 = {1, 2, 3, 4, 5, 6}
      OBVIOUS
    <2> QED
      BY <2>1, <2>2 DEF StageSet, Stages
  <1>1. ASSUME NEW s \in StageSet, NEW t \in BOOLEAN, NEW r \in {0, 1}, NEW h \in SUBSET Answer,
               t \/ s \in {"plan", "run", "learn"},
               t => session.answers \subseteq h, Starts(s, t, r, h)
        PROVE  DialogInv'
    <2>1. cmd' \in Command /\ InBounds(cmd') /\ Carries(cmd', said')
          /\ UNCHANGED <<last, session, said>>
      BY <1>0, <1>1, StartsFacts
    <2> QED
      BY <1>0, <2>1 DEF DialogInv, TypeOK, WaitingShows
  <1>a. session.answers \subseteq Answer /\ OneEach(session.answers)
    BY <1>0 DEF TypeOK, Session, OneEach
  <1>2. CASE BeginExplore
    <2>1. PICK r \in {0, 1} : Starts("explore", TRUE, r, session.answers)
      <3>1. (session.answers \ About("explore")) \cup About("explore") = session.answers
        BY DEF About
      <3> QED
        BY <1>2, <3>1 DEF BeginExplore
    <2> QED
      BY <1>1, <1>s, <1>a, <2>1
  <1>3. CASE BeginSnapshot \/ BeginPlan \/ BeginEvolve
    BY <1>1, <1>3, <1>s, <1>a DEF BeginSnapshot, BeginPlan, BeginEvolve
  <1>4. CASE BeginLearn \/ BeginRun \/ BeginAuto
    <2>1. PICK s \in {"learn", "run", "plan"} : Starts(s, FALSE, 0, {})
      BY <1>4 DEF BeginLearn, BeginRun, BeginAuto
    <2>2. s \in StageSet /\ {} \in SUBSET Answer /\ 0 \in {0, 1} /\ FALSE \in BOOLEAN
      BY <1>s
    <2>3. cmd' \in Command /\ InBounds(cmd') /\ Carries(cmd', said')
          /\ UNCHANGED <<last, session, said>>
      BY <1>0, <2>1, <2>2, StartsFacts
    <2> QED
      BY <1>0, <2>3 DEF DialogInv, TypeOK, WaitingShows
  <1>5. CASE Call \/ PipeCall
    <2>1. cmd # None
      BY <1>5 DEF Call, PipeCall
    <2>2. cmd' \in Command /\ InBounds(cmd') /\ Carries(cmd', said')
          /\ UNCHANGED <<last, session, said>>
      BY <1>0, <1>5, <2>1, CallFacts, PipeCallFacts
    <2> QED
      BY <1>0, <2>2 DEF DialogInv, TypeOK, WaitingShows
  <1>6. CASE Fail
    BY <1>0, <1>6 DEF Fail, DialogInv, TypeOK, WaitingShows
  <1>7. CASE Save
    <2>1. cmd \in Command /\ Carries(cmd, said) /\ cmd' = None /\ UNCHANGED said
      BY <1>0, <1>7 DEF Save
    <2> DEFINE a == IF cmd.stage = "plan"
                    THEN [Settled("envelope") EXCEPT !.open = (cmd.status = "awaiting")]
                    ELSE [status |-> cmd.status, asks |-> cmd.asks,
                          followUps |-> cmd.followUps, open |-> cmd.status = "awaiting"]
    <2>2. a \in Artifact /\ (cmd.stage # "plan" /\ a.open => a.status = "awaiting")
      BY <2>1 DEF Artifact, Settled, Command
    <2>3. last' = [last EXCEPT ![cmd.stage] = a]
      BY <1>7 DEF Save
    <2> HIDE DEF a
    <2>4. \A s \in StageSet : last'[s] = last[s] \/ (s = cmd.stage /\ last'[s] = a)
      BY <1>0, <2>3 DEF TypeOK
    <2>5. last' \in [StageSet -> Artifact \cup {None}]
      BY <1>0, <2>2, <2>3 DEF TypeOK
    <2>6. WaitingShows(last')
      BY <1>0, <2>2, <2>4 DEF WaitingShows
    <2>7. session' = [cmd.session EXCEPT !.acted = @ \ {cmd.stage}] /\ cmd.session \in Session
      BY <1>7, <2>1 DEF Save, Command
    <2>8. session' \in Session /\ session'.answers = cmd.session.answers
      BY <2>7 DEF Session
    <2> QED
      BY <1>0, <2>1, <2>5, <2>6, <2>8 DEF DialogInv, TypeOK, Carries, OneEach
  <1>8. ASSUME NEW s \in StageSet, NEW q \in Questions \cup {BlockedAction},
               NEW blank \in BOOLEAN, Respond(s, q, blank)
        PROVE  DialogInv'
    <2> DEFINE ans == Upsert(session.answers, s, q, blank)
               act == IF q = BlockedAction THEN session.acted \cup {s} ELSE session.acted
    <2>1. /\ session' = [answers |-> ans, acted |-> act] /\ UNCHANGED <<last, cmd>>
          /\ said' = IF cmd = None THEN Upsert(said, s, q, blank) ELSE Others(said, s, q)
      BY <1>8 DEF Respond
    <2>2. ans \subseteq Answer /\ OneEach(ans)
      BY <1>a, UpsertFacts
    <2>3. act \in SUBSET StageSet
      BY <1>0 DEF TypeOK, Session
    <2>4. said' \subseteq ans /\ (cmd # None => said' \subseteq said)
      BY <1>0, <2>1 DEF Upsert, Others
    <2> HIDE DEF ans, act
    <2>5. session' \in Session /\ session'.answers = ans
      BY <2>1, <2>2, <2>3 DEF Session
    <2>6. TypeOK'
      BY <1>0, <2>1, <2>2, <2>4, <2>5 DEF TypeOK, OneEach
    <2>7. cmd' # None => cmd' \in Command /\ InBounds(cmd') /\ Carries(cmd', said')
      BY <1>0, <2>1, <2>4 DEF Carries
    <2> QED
      BY <1>0, <2>1, <2>4, <2>5, <2>6, <2>7 DEF DialogInv, WaitingShows
  <1>9. CASE UNCHANGED vars
    BY <1>0, <1>9 DEF vars, DialogInv, TypeOK, WaitingShows
  <1> QED
    BY <1>2, <1>3, <1>4, <1>5, <1>6, <1>7, <1>8, <1>9
    DEF Next, ExploreCommand, SnapshotCommand, PlanCommand, LearnCommand, EvolveCommand,
        RunCommand, Dialog

(* The strengthening behind the theorems below: what a command under way   *)
(* has asked, holds and has told its model, beside a person who answers at *)
(* any time (explore.ts, plan.ts, evolve.ts, learn.ts, run.ts, auto.ts).   *)
THEOREM DialogInvariant == Spec => []DialogInv
  <1> QED
    BY InitInv, StepInv, PTL DEF Spec

(* A dialog calls its model at most once more than it has rounds, nothing  *)
(* a person said in it is left unsent, and one that ends with questions    *)
(* open had no terminal or no round left.                                  *)
THEOREM DialogsEnd == Spec => []DialogIsBounded
  <1>1. DialogInv => DialogIsBounded
    <2> SUFFICES ASSUME DialogInv, cmd # None
                 PROVE  /\ cmd.calls <= MaxRounds + 1
                        /\ cmd.done => ~cmd.unsent
                        /\ cmd.done /\ cmd.told /\ cmd.status = "awaiting" /\ cmd.asks # {} =>
                             ~cmd.tty \/ cmd.rounds = MaxRounds
      BY DEF DialogInv, DialogIsBounded
    <2>1. cmd \in Command /\ InBounds(cmd)
      BY DEF DialogInv
    <2>2. /\ cmd.calls \in Nat /\ cmd.rounds \in Nat /\ MaxRounds \in Nat
          /\ cmd.rounds <= MaxRounds /\ cmd.calls <= cmd.rounds + 1
      <3>1. cmd.calls \in Nat /\ cmd.rounds \in Nat /\ MaxRounds \in Nat /\ cmd.done \in BOOLEAN
        BY <2>1, BoundsAssumption DEF Command
      <3>2. cmd.rounds <= MaxRounds /\ (cmd.calls <= cmd.rounds \/ cmd.calls <= cmd.rounds + 1)
        BY <2>1 DEF InBounds
      <3> QED
        BY <3>1, <3>2
    <2>3. cmd.calls <= MaxRounds + 1
      BY <2>2
    <2> QED
      BY <2>1, <2>3 DEF InBounds
  <1> QED
    BY <1>1, DialogInvariant, PTL

(* What was answered while no command was under way stays on record,       *)
(* whatever commands then write, and every explore, snapshot, plan and     *)
(* evolve since has told its model of it (explore.ts, snapshot.ts,         *)
(* plan.ts, evolve.ts; session.ts: upsertSessionAnswers).                  *)
THEOREM EveryAnswerIsHeard == Spec => []AnswersAreHeard
  <1>1. DialogInv => AnswersAreHeard
    BY DEF DialogInv, AnswersAreHeard, Carries
  <1> QED
    BY <1>1, DialogInvariant, PTL

(***************************************************************************)
(* What is run next                                                        *)
(***************************************************************************)
(* A set of stages that is not empty has a first.                          *)
LEMMA First ==
  ASSUME NEW S \in SUBSET Nat, S # {}
  PROVE  \E i \in S : \A j \in S : i <= j
  <1>1. PICK i \in S : \A j \in S : <<j, i>> \notin OpToRel(<, Nat)
    BY WFMin, NatLessThanWellFounded, Zenon
  <1>2. ASSUME NEW j \in S PROVE i <= j
    <2>1. ~(j < i)
      BY <1>1 DEF OpToRel
    <2> QED
      BY <2>1
  <1> QED
    BY <1>2

(* A stage that waits for a person no longer does once all is answered.    *)
LEMMA AwaitEnds == ASSUME TypeOK PROVE AwaitIsLeft
  <1> SUFFICES ASSUME NEW s \in StageSet, StatusNow(s) = "await"
               PROVE  StageStatus(s, last[s],
                        [answers |-> session.answers
                           \cup {[about |-> s, q |-> q, blank |-> FALSE] : q \in Shown(last[s])},
                         acted |-> session.acted \cup {s}])
                      # "await"
    BY DEF AwaitIsLeft
  <1> DEFINE a == last[s]
             ans == session.answers
                      \cup {[about |-> s, q |-> q, blank |-> FALSE] : q \in Shown(a)}
             ses == [answers |-> ans, acted |-> session.acted \cup {s}]
  <1>1. a # None /\ ~NeedsResume(s, a, session) /\ HasHumanBlock(s, a, session)
    BY DEF StatusNow, StageStatus
  <1>3. ses.answers = ans /\ s \in ses.acted
    OBVIOUS
  <1>4. \A q \in Shown(a) : HasAnswer(ses, s, q)
    <2> TAKE q \in Shown(a)
    <2> DEFINE x == [about |-> s, q |-> q, blank |-> FALSE]
    <2>1. x \in ans /\ x.about = s /\ x.q = q /\ ~x.blank
      OBVIOUS
    <2> HIDE DEF ans, x
    <2> QED
      BY <2>1 DEF HasAnswer
  <1> HIDE DEF a, ans, ses
  <1>5. CASE a.asks # {}
    <2>1. \A q \in a.asks : HasAnswer(ses, s, q)
      BY <1>4, <1>5 DEF Shown
    <2>2. ~HasHumanBlock(s, a, ses)
      BY <1>5, <2>1 DEF HasHumanBlock
    <2> QED
      BY <2>2 DEF StageStatus, a, ans, ses
  <1>6. CASE a.asks = {}
    <2>1. a.status # "awaiting"
      BY <1>1, <1>6 DEF NeedsResume
    <2>2. ~HasHumanBlock(s, a, ses)
      BY <1>3, <1>6, <2>1 DEF HasHumanBlock
    <2> QED
      BY <2>2 DEF StageStatus, a, ans, ses
  <1> QED
    BY <1>5, <1>6

(* What would be run next is never past a stage other than plan whose last *)
(* output waited for a person, and a person can move every stage on        *)
(* (slad.ts: stageStatusesForSession, nextPipelineStageFromProgress).      *)
THEOREM NoStageIsPassedOver == Spec => []NothingPassedOver
  <1>1. DialogInv => NothingPassedOver
    <2> SUFFICES ASSUME DialogInv, NEW i \in DOMAIN Stages, Stages[i] # "plan",
                        last[Stages[i]] # None, last[Stages[i]].open
                 PROVE  NextStage # 0 /\ NextStage <= i
      BY AwaitEnds DEF DialogInv, NothingPassedOver
    <2> DEFINE s == Stages[i]
               left == {j \in DOMAIN Stages : StatusNow(Stages[j]) # "done"}
    <2>0. last[s].status = "awaiting"
      <3>1. s \in StageSet \ {"plan"}
        BY DEF StageSet
      <3> QED
        BY <3>1 DEF DialogInv, WaitingShows
    <2>1. StatusNow(s) # "done"
      <3>1. CASE NeedsResume(s, last[s], session)
        BY <3>1 DEF StatusNow, StageStatus
      <3>2. CASE ~NeedsResume(s, last[s], session)
        <4>1. HasHumanBlock(s, last[s], session)
          BY <2>0, <3>2 DEF NeedsResume, HasHumanBlock
        <4> QED
          BY <2>0, <3>2, <4>1 DEF StatusNow, StageStatus
      <3> QED
        BY <3>1, <3>2
    <2>2. i \in left
      BY <2>1
    <2>3. DOMAIN Stages = 1..6
      BY DEF Stages
    <2>4. left \in SUBSET Nat /\ 0 \notin left
      BY <2>3
    <2>5. NextStage = IF left = {} THEN 0 ELSE CHOOSE k \in left : \A j \in left : k <= j
      BY DEF NextStage
    <2> HIDE DEF left, s
    <2>6. \E k \in left : \A j \in left : k <= j
      BY <2>2, <2>4, First
    <2> QED
      BY <2>2, <2>4, <2>5, <2>6
  <1> QED
    BY <1>1, DialogInvariant, PTL

(***************************************************************************)
(* The shell                                                               *)
(***************************************************************************)
(* What holds at 0, and with k - 1 at k, holds at the end.                 *)
LEMMA Climb ==
  ASSUME NEW N \in Nat, NEW P, 0 \in P, \A k \in 1..N : k - 1 \in P => k \in P
  PROVE  N \in P
  <1> DEFINE B == {k \in 0..N : k \notin P}
  <1> SUFFICES ASSUME B # {} PROVE FALSE
    OBVIOUS
  <1>1. B \subseteq Nat
    OBVIOUS
  <1>2. PICK k \in B : \A j \in B : k <= j
    <2> HIDE DEF B
    <2> QED
      BY <1>1, First
  <1>3. k \in 0..N /\ k \notin P /\ k # 0
    BY <1>2
  <1>4. k \in 1..N /\ k - 1 \in 0..N /\ ~(k <= k - 1)
    BY <1>3
  <1>5. k - 1 \in P
    BY <1>2, <1>4
  <1> QED
    BY <1>3, <1>4, <1>5

(* The search of the catalog, as the function of how much it has seen.     *)
Catalogued == {Catalog[i] : i \in DOMAIN Catalog}

SearchesBy(f, text, s, size) ==
  f = [n \in 0..size |->
         IF n = 0 THEN <<>>
         ELSE IF Finds(text, s, Catalog[n]) THEN Append(f[n-1], Catalog[n])
         ELSE f[n-1]]

LEMMA SearchesExist ==
  ASSUME NEW text, NEW s, NEW size \in Nat
  PROVE  \E f : SearchesBy(f, text, s, size)
  <1> DEFINE Next0(n, c) == IF n = 0 THEN <<>>
                            ELSE IF Finds(text, s, Catalog[n]) THEN Append(c, Catalog[n])
                            ELSE c
             T == {k \in 0..size : \E f : SearchesBy(f, text, s, k)}
  <1>1. 0 \in T
    <2> DEFINE g == [n \in 0..0 |-> Next0(0, n)]
    <2>1. ASSUME NEW n \in 0..0 PROVE g[n] = Next0(n, g[n-1])
      <3>1. n = 0
        OBVIOUS
      <3> QED
        BY <3>1
    <2>2. SearchesBy(g, text, s, 0)
      BY <2>1 DEF SearchesBy
    <2> QED
      BY <2>2
  <1>2. ASSUME NEW k \in 1..size, k - 1 \in T PROVE k \in T
    <2>1. PICK f : SearchesBy(f, text, s, k - 1)
      BY <1>2
    <2> DEFINE g == [n \in 0..k |-> IF n = k THEN Next0(k, f[k-1]) ELSE f[n]]
    <2>2. ASSUME NEW n \in 0..k PROVE g[n] = Next0(n, g[n-1])
      <3>1. n # 0 => n - 1 \in 0..(k - 1) /\ g[n-1] = f[n-1]
        OBVIOUS
      <3>2. CASE n = k
        BY <3>1, <3>2
      <3>3. CASE n # k
        <4>1. n \in 0..(k - 1) /\ g[n] = f[n]
          BY <3>3
        <4>2. f[n] = Next0(n, f[n-1])
          BY <2>1, <4>1 DEF SearchesBy
        <4> QED
          BY <3>1, <4>1, <4>2
      <3> QED
        BY <3>2, <3>3
    <2>3. SearchesBy(g, text, s, k)
      BY <2>2 DEF SearchesBy
    <2> QED
      BY <2>3
  <1> HIDE DEF T
  <1>3. 0 \in T /\ \A k \in 1..size : k - 1 \in T => k \in T
    BY <1>1, <1>2
  <1>4. size \in T
    BY <1>3, Climb
  <1> QED
    BY <1>4 DEF T

(* It finds commands of the catalog.                                       *)
LEMMA SearchFacts ==
  ASSUME NEW text, NEW s
  PROVE  SearchAvailable(text, s) \in Seq(Catalogued)
  <1> DEFINE N == Len(Catalog)
             f == CHOOSE g : SearchesBy(g, text, s, N)
             P == {n \in 0..N : f[n] \in Seq(Catalogued)}
  <1>1. N \in Nat /\ \A n \in 1..N : Catalog[n] \in Catalogued
    BY CatalogAssumption DEF Catalogued
  <1>2. SearchesBy(f, text, s, N)
    <2>1. \E g : SearchesBy(g, text, s, N)
      BY <1>1, SearchesExist
    <2> QED
      BY <2>1, Zenon
  <1>3. SearchAvailable(text, s) = f[N]
    BY DEF SearchAvailable, SearchesBy
  <1> HIDE DEF f, N
  <1>4. \A n \in 0..N : f[n] = IF n = 0 THEN <<>>
                               ELSE IF Finds(text, s, Catalog[n]) THEN Append(f[n-1], Catalog[n])
                               ELSE f[n-1]
    BY <1>2 DEF SearchesBy
  <1>5. 0 \in P
    <2>1. 0 \in 0..N /\ f[0] = <<>>
      BY <1>1, <1>4
    <2>2. <<>> \in Seq(Catalogued)
      OBVIOUS
    <2>3. f[0] \in Seq(Catalogued)
      BY <2>1, <2>2, Zenon
    <2> QED
      BY <2>1, <2>3
  <1>6. ASSUME NEW n \in 1..N, n - 1 \in P PROVE n \in P
    <2>1. n \in 0..N /\ n # 0 /\ Catalog[n] \in Catalogued
      BY <1>1
    <2>2. f[n-1] \in Seq(Catalogued)
      BY <1>6
    <2>3. f[n] = Append(f[n-1], Catalog[n]) \/ f[n] = f[n-1]
      BY <1>4, <2>1
    <2>4. f[n] \in Seq(Catalogued)
      BY <2>1, <2>2, <2>3
    <2> QED
      BY <2>1, <2>4
  <1>7. N \in P
    <2>1. 0 \in P /\ \A n \in 1..N : n - 1 \in P => n \in P
      BY <1>5, <1>6
    <2> HIDE DEF P
    <2> QED
      BY <1>1, <2>1, Climb
  <1> QED
    BY <1>3, <1>7

(* What is proposed at a prompt p of a shell that holds h.                 *)
ProposedAt(p, h) == IF p.closed \/ p.text \in Plain THEN <<>> ELSE SearchAvailable(p.text, h)

LEMMA ProposedFacts ==
  ASSUME NEW p, NEW h, NEW sug, sug = ProposedAt(p, h)
  PROVE  /\ sug \in Seq(Catalogued) /\ Len(sug) \in Nat /\ DOMAIN sug = 1..Len(sug)
         /\ sug # <<>> => Len(sug) # 0
         /\ \A i \in DOMAIN sug : sug[i].insertion \in Texts
  <1>1. sug \in Seq(Catalogued)
    BY SearchFacts DEF ProposedAt
  <1>2. \A c \in Catalogued : c.insertion \in Texts
    BY CatalogAssumption DEF Catalogued
  <1>3. \A i \in DOMAIN sug : sug[i] \in Catalogued
    BY <1>1
  <1> QED
    BY <1>1, <1>2, <1>3

(***************************************************************************)
(* The invariant of the shell                                              *)
(***************************************************************************)
Prompts == [text: Texts, selected: Nat \ {0}, closed: BOOLEAN]

(* The highlight is on one of the suggestions.                             *)
Highlights(p, h) ==
  /\ p \in Prompts
  /\ ProposedAt(p, h) # <<>> => p.selected \in DOMAIN ProposedAt(p, h)

(* The shell has no session before there is one; at the prompt and in the  *)
(* palette it has the active one, unless another terminal was faster.      *)
OnDiskOf(a, d) == IF a = 0 THEN Nothing ELSE [id |-> a, arts |-> d[a]]

Holds(at, h, a, d, old) ==
  /\ d \in Seq(SUBSET ShellStages) /\ a \in 0..Len(d)
  /\ a = 0 => h = Nothing
  /\ at \in {"prompt", "palette"} /\ ~old => h = OnDiskOf(a, d)

(* A promise is settled once its child and the pipe are; only a command    *)
(* under way waits for one, and but for a write that failed only one that  *)
(* keeps a manifest has a run open, that of its session.                   *)
Waits(at, c, l, h) ==
  /\ c # "waiting" => l # "running" /\ h # "holding"
  /\ c = "waiting" => at \in {"call", "left"}

Runs(at, o, u, c) ==
  \/ o \subseteq u
  \/ at \in {"call", "left"} /\ KeepsManifest(c.what) /\ o \subseteq u \cup {c.session}

Commanded(c) == c = [what |-> c.what, session |-> c.session]

PromptInv ==
  /\ Highlights(prompt, held)
  /\ Holds(pc, held, active, disk, stale)
  /\ Waits(pc, call, leader, helper)
  /\ Runs(pc, open, unwritten, command)

ShellInv == PromptInv /\ Commanded(command)

LEMMA EmptyHighlights ==
  ASSUME NEW h
  PROVE  Highlights(Empty, h)
  <1> DEFINE sug == ProposedAt(Empty, h)
  <1>1. Len(sug) \in Nat /\ DOMAIN sug = 1..Len(sug) /\ (sug # <<>> => Len(sug) # 0)
    BY ProposedFacts
  <1> HIDE DEF sug
  <1>2. Empty \in Prompts /\ Empty.selected = 1
    BY TextsAssumption DEF Empty, Prompts
  <1>3. sug # <<>> => 1 \in DOMAIN sug
    BY <1>1
  <1> QED
    BY <1>2, <1>3 DEF Highlights, sug

LEMMA ClampFacts ==
  ASSUME NEW k \in Nat, NEW count \in Nat
  PROVE  /\ ClampSelection(k, count) \in Nat \ {0}
         /\ count # 0 => ClampSelection(k, count) \in 1..count
  BY DEF ClampSelection

(* Typing, completing, closing and scrolling keep the highlight.           *)
LEMMA KeyHighlights ==
  ASSUME Highlights(prompt, held), PromptKey
  PROVE  Highlights(prompt', held)
  <1>1. /\ prompt \in Prompts /\ prompt.text \in Texts /\ prompt.selected \in Nat \ {0}
        /\ prompt.closed \in BOOLEAN
        /\ Proposed # <<>> => prompt.selected \in DOMAIN Proposed
    BY DEF Highlights, Prompts, Proposed, Suggestions, ProposedAt
  <1>2. \A p : Suggestions(p) = ProposedAt(p, held)
    BY DEF Suggestions, ProposedAt
  <1>3. ASSUME NEW text \in Texts, NEW closed \in BOOLEAN
        PROVE  Highlights(Recompute(text, closed), held)
    <2> DEFINE p == [text |-> text, closed |-> closed, selected |-> prompt.selected]
               count == Len(Suggestions(p))
               k == ClampSelection(prompt.selected, count)
               r == [text |-> text, closed |-> closed, selected |-> k]
               sug == ProposedAt(p, held)
    <2>1. Recompute(text, closed) = r
      BY DEF Recompute
    <2>2. ProposedAt(r, held) = sug
      BY DEF ProposedAt
    <2>3. Len(sug) \in Nat /\ DOMAIN sug = 1..Len(sug) /\ (sug # <<>> => Len(sug) # 0)
      BY ProposedFacts
    <2>4. count = Len(sug)
      BY <1>2
    <2> HIDE DEF sug, count
    <2>5. k \in Nat \ {0} /\ (sug # <<>> => k \in DOMAIN sug)
      BY <1>1, <2>3, <2>4, ClampFacts
    <2> HIDE DEF k
    <2>6. r \in Prompts /\ r.selected = k
      BY <2>5 DEF Prompts
    <2> HIDE DEF r
    <2> QED
      BY <2>1, <2>2, <2>5, <2>6 DEF Highlights
  <1>4. CASE Type
    <2>1. PICK text \in Longer[prompt.text] : prompt' = Recompute(text, FALSE)
      BY <1>4 DEF Type, Key
    <2>2. text \in Texts
      BY <1>1, TextsAssumption
    <2> QED
      BY <1>3, <2>1, <2>2
  <1>5. CASE Backspace
    <2>1. PICK text \in Texts : prompt' = Recompute(text, FALSE)
      BY <1>5 DEF Backspace, Key
    <2> QED
      BY <1>3, <2>1
  <1>6. CASE Clear
    <2>1. prompt' = Recompute(NoText, FALSE) /\ NoText \in Texts
      BY <1>6, TextsAssumption DEF Clear, Key
    <2> QED
      BY <1>3, <2>1
  <1>7. CASE Tab
    <2>1. Proposed # <<>> /\ prompt' = Recompute(Pick.insertion, FALSE)
      BY <1>7 DEF Tab, Key
    <2>2. Proposed = ProposedAt(prompt, held)
      BY <1>2 DEF Proposed
    <2>3. Pick.insertion \in Texts
      BY <1>1, <2>1, <2>2, ProposedFacts DEF Pick
    <2> QED
      BY <1>3, <2>1, <2>3
  <1>8. CASE Escape
    <2>1. prompt' = Recompute(prompt.text, TRUE)
      BY <1>8 DEF Escape, Key
    <2> QED
      BY <1>1, <1>3, <2>1
  <1>9. CASE UpDown
    <2>1. PICK k \in {prompt.selected - 1, prompt.selected + 1} :
            prompt' = [prompt EXCEPT !.selected = ClampSelection(k, Len(Proposed))]
      BY <1>9 DEF UpDown, Key
    <2> DEFINE sug == ProposedAt(prompt, held)
               n == ClampSelection(k, Len(sug))
    <2>2. Proposed = sug
      BY <1>2 DEF Proposed
    <2>3. /\ Len(sug) \in Nat /\ DOMAIN sug = 1..Len(sug) /\ sug # <<>> /\ Len(sug) # 0
      <3>1. Proposed # <<>>
        BY <1>9 DEF UpDown
      <3> QED
        BY <2>2, <3>1, ProposedFacts
    <2>4. n \in Nat \ {0} /\ n \in DOMAIN sug
      <3>1. k \in Nat
        BY <1>1
      <3> HIDE DEF sug
      <3> QED
        BY <2>3, <3>1, ClampFacts
    <2>5. prompt' = [prompt EXCEPT !.selected = n]
      BY <2>1, <2>2
    <2> HIDE DEF n
    <2>6. prompt' \in Prompts /\ prompt'.selected = n
      BY <1>1, <2>4, <2>5 DEF Prompts
    <2>7. prompt'.text = prompt.text /\ prompt'.closed = prompt.closed
      BY <1>1, <2>5 DEF Prompts
    <2>8. ProposedAt(prompt', held) = sug
      BY <2>7 DEF ProposedAt
    <2> HIDE DEF sug
    <2> QED
      BY <2>4, <2>6, <2>8 DEF Highlights
  <1> QED
    BY <1>4, <1>5, <1>6, <1>7, <1>8, <1>9 DEF PromptKey

(* A new session is the active one.                                        *)
LEMMA CreateFacts ==
  ASSUME disk \in Seq(SUBSET ShellStages), CreateSession
  PROVE  disk' \in Seq(SUBSET ShellStages) /\ active' \in 1..Len(disk')
  <1>1. disk' = Append(disk, {}) /\ active' = Len(disk) + 1 /\ Len(disk) \in Nat
    BY DEF CreateSession
  <1>2. {} \in SUBSET ShellStages
    OBVIOUS
  <1>3. disk' \in Seq(SUBSET ShellStages) /\ Len(disk') = Len(disk) + 1
    BY <1>1, <1>2
  <1> QED
    BY <1>1, <1>3

(* An artifact more of one session.                                        *)
LEMMA SaveFacts ==
  ASSUME NEW d \in Seq(SUBSET ShellStages), NEW k, NEW S \in SUBSET ShellStages
  PROVE  /\ [d EXCEPT ![k] = @ \cup S] \in Seq(SUBSET ShellStages)
         /\ Len([d EXCEPT ![k] = @ \cup S]) = Len(d)
  <1> DEFINE n == Len(d)
             e == [d EXCEPT ![k] = @ \cup S]
  <1>1. n \in Nat /\ DOMAIN d = 1..n /\ \A i \in 1..n : d[i] \in SUBSET ShellStages
    OBVIOUS
  <1> HIDE DEF n
  <1>2. e = [i \in 1..n |-> IF i = k THEN d[i] \cup S ELSE d[i]]
    BY <1>1
  <1>3. e \in [1..n -> SUBSET ShellStages]
    BY <1>1, <1>2
  <1> HIDE DEF e
  <1>4. e \in Seq(SUBSET ShellStages) /\ Len(e) = n
    BY <1>1, <1>3
  <1> QED
    BY <1>4 DEF n, e

LEMMA MakesFacts ==
  ASSUME NEW what
  PROVE  Makes(what) \in SUBSET ShellStages
  <1>1. Kinds \in SUBSET ShellStages
    BY DEF Kinds, ShellStages
  <1>2. CASE what = "auto"
    BY <1>1, <1>2 DEF Makes
  <1>3. CASE what # "auto" /\ what \in Kinds
    BY <1>1, <1>3 DEF Makes
  <1>4. CASE what # "auto" /\ what \notin Kinds
    BY <1>4 DEF Makes
  <1> QED
    BY <1>2, <1>3, <1>4

(* Back at the prompt, the shell has looked at the session again.          *)
LEMMA BackFacts ==
  ASSUME Holds(pc, held, active, disk, stale), Back,
         disk' \in Seq(SUBSET ShellStages), active' \in 0..Len(disk'), active' = 0 => active = 0
  PROVE  /\ Highlights(prompt', held') /\ Holds(pc', held', active', disk', stale')
         /\ pc' = "prompt"
  <1>1. /\ pc' = "prompt" /\ prompt' = Empty /\ stale' = FALSE
        /\ held' = IF active' = 0 THEN held ELSE [id |-> active', arts |-> disk'[active']]
    BY DEF Back, Refresh
  <1>2. Highlights(prompt', held')
    BY <1>1, EmptyHighlights
  <1>3. active' = 0 => held' = Nothing
    BY <1>1 DEF Holds
  <1>4. held' = OnDiskOf(active', disk')
    BY <1>1, <1>3 DEF OnDiskOf
  <1> QED
    BY <1>1, <1>2, <1>3, <1>4 DEF Holds

(* Away from the prompt nothing is said of the session it holds.           *)
LEMMA AwayFacts ==
  ASSUME Holds(pc, held, active, disk, stale), pc' \in {"begin", "call", "left"},
         disk' \in Seq(SUBSET ShellStages), active' \in 0..Len(disk'), active' = 0 => active = 0,
         held' = held
  PROVE  Holds(pc', held', active', disk', stale')
  BY DEF Holds

(* A call that is not waited for has neither a child nor a pipe.           *)
LEMMA ProcessesWait ==
  ASSUME Waits(pc, call, leader, helper), Processes, pc' = pc
  PROVE  Waits(pc', call', leader', helper')
  <1>1. CASE StartHelper
    BY <1>1 DEF StartHelper, Waits
  <1>2. CASE HelperEnds
    BY <1>2 DEF HelperEnds, Waits
  <1>3. CASE LeaderEnds
    BY <1>3 DEF LeaderEnds, Waits
  <1> QED
    BY <1>1, <1>2, <1>3 DEF Processes

LEMMA CallStepsWait ==
  ASSUME Waits(pc, call, leader, helper), CallSteps, pc' = pc
  PROVE  Waits(pc', call', leader', helper')
  <1>1. CASE Timeout
    BY <1>1 DEF Timeout, Waits
  <1>2. CASE Kill
    BY <1>2 DEF Kill, Signalled, Waits
  <1>3. CASE Close
    BY <1>3 DEF Close, Settle, Waits
  <1> QED
    BY <1>1, <1>2, <1>3 DEF CallSteps

LEMMA SpawnWaits ==
  ASSUME Spawn
  PROVE  Waits("call", call', leader', helper')
  BY DEF Spawn, Waits

LEMMA TakeWaits ==
  ASSUME Waits(pc, call, leader, helper), Take, NEW at
  PROVE  Waits(at, call', leader', helper')
  BY DEF Take, Waits

LEMMA PromptInitInv == ShellInit => PromptInv
  <1> SUFFICES ASSUME ShellInit PROVE PromptInv
    OBVIOUS
  <1>1. /\ pc = "prompt" /\ prompt = Empty /\ held = OnDiskOf(active, disk)
        /\ call = "none" /\ leader = "none" /\ helper = "none" /\ open = {}
    BY DEF ShellInit, CallInit, OnDisk, OnDiskOf
  <1>2. disk \in Seq(SUBSET ShellStages) /\ active \in 0..Len(disk)
    <2>1. CASE disk = <<>> /\ active = 0
      BY <2>1
    <2>2. ASSUME NEW arts \in {{}, Kinds}, disk = <<arts>>, active = 1
          PROVE  disk \in Seq(SUBSET ShellStages) /\ active \in 0..Len(disk)
      <3>1. arts \in SUBSET ShellStages
        BY DEF ShellStages, Kinds
      <3> QED
        BY <2>2, <3>1
    <2> QED
      BY <2>1, <2>2 DEF ShellInit
  <1>3. Holds(pc, held, active, disk, stale)
    BY <1>1, <1>2 DEF Holds, OnDiskOf
  <1>4. Highlights(prompt, held)
    BY <1>1, EmptyHighlights
  <1> QED
    BY <1>1, <1>3, <1>4 DEF PromptInv, Waits, Runs

(* What is entered at the prompt.                                          *)
LEMMA EnteredInv ==
  ASSUME PromptInv,
         Message \/ Inform \/ Agents \/ NewSession \/ Exit \/ CtrlC \/ OpenPalette
  PROVE  PromptInv'
  <1> USE DEF PromptInv
  <1>1. pc = "prompt" /\ UNCHANGED callVars
    BY DEF Message, Inform, Agents, NewSession, Exit, CtrlC, OpenPalette, Enter
  <1>2. \A at : Waits(at, call', leader', helper') /\ open \subseteq unwritten
    <2>1. call # "waiting" /\ leader # "running" /\ helper # "holding" /\ open \subseteq unwritten
      BY <1>1 DEF Waits, Runs
    <2> QED
      BY <1>1, <2>1 DEF Waits, callVars
  <1>3. disk \in Seq(SUBSET ShellStages) /\ active \in 0..Len(disk)
    BY DEF Holds
  <1>4. ASSUME NEW how, Leave(how), UNCHANGED prompt PROVE PromptInv'
    <2>1. pc' = "left" /\ UNCHANGED <<held, disk, active, open, unwritten, prompt>>
      BY <1>4 DEF Leave
    <2>2. Holds(pc', held', active', disk', stale')
      BY <1>3, <2>1, AwayFacts
    <2> QED
      BY <1>2, <2>1, <2>2 DEF Runs
  <1>5. CASE Quiet /\ Back
    <2>1. UNCHANGED <<disk, active, open, unwritten>>
      BY <1>5 DEF Quiet
    <2>2. Highlights(prompt', held') /\ Holds(pc', held', active', disk', stale')
      BY <1>3, <1>5, <2>1, BackFacts
    <2> QED
      BY <1>2, <2>1, <2>2 DEF Runs
  <1>6. CASE CreateSession /\ Back /\ UNCHANGED <<agent, open, unwritten, why>>
    <2>1. disk' \in Seq(SUBSET ShellStages) /\ active' \in 1..Len(disk')
      BY <1>3, <1>6, CreateFacts
    <2>2. Len(disk') \in Nat
      BY <2>1
    <2>3. active' \in 0..Len(disk') /\ active' # 0
      <3> DEFINE n == Len(disk')
      <3>1. n \in Nat /\ active' \in 1..n
        BY <2>1, <2>2
      <3> HIDE DEF n
      <3>2. active' \in 0..n /\ active' # 0
        BY <3>1
      <3> QED
        BY <3>2 DEF n
    <2>4. Highlights(prompt', held') /\ Holds(pc', held', active', disk', stale')
      BY <1>6, <2>1, <2>3, BackFacts
    <2> QED
      BY <1>2, <1>6, <2>4 DEF Runs
  <1>7. CASE prompt' = Empty /\ Quiet /\ UNCHANGED <<held, stale>> /\ (pc' = pc \/ pc' = "palette")
    <2>1. UNCHANGED <<disk, active, open, unwritten, held, stale>>
      BY <1>7 DEF Quiet
    <2>2. Highlights(prompt', held')
      BY <1>7, EmptyHighlights
    <2>3. Holds(pc', held', active', disk', stale')
      BY <1>1, <1>7, <2>1 DEF Holds
    <2> QED
      BY <1>2, <2>1, <2>2, <2>3 DEF Runs
  <1>8. CASE Message
    <2>1. prompt' = Empty /\ Quiet /\ UNCHANGED <<held, stale>> /\ pc' = pc
      BY <1>8 DEF Message, Enter
    <2> QED
      BY <1>7, <2>1
  <1>9. CASE Inform
    <2>1. \/ Quiet /\ Back
          \/ Leave("thrown") /\ UNCHANGED prompt
      BY <1>9 DEF Inform, Enter
    <2> QED
      BY <1>4, <1>5, <2>1
  <1>10. CASE Agents
    <2>1. prompt' = Empty /\ Quiet /\ UNCHANGED <<held, stale>> /\ pc' = pc
      BY <1>10 DEF Agents, Enter
    <2> QED
      BY <1>7, <2>1
  <1>11. CASE NewSession
    <2>1. \/ CreateSession /\ Back /\ UNCHANGED <<agent, open, unwritten, why>>
          \/ Quiet /\ Back
          \/ Leave("thrown") /\ UNCHANGED prompt
      BY <1>11 DEF NewSession, Enter
    <2> QED
      BY <1>4, <1>5, <1>6, <2>1
  <1>12. CASE Exit
    <2>1. Leave("exit") /\ UNCHANGED prompt
      BY <1>12 DEF Exit, Enter
    <2> QED
      BY <1>4, <2>1
  <1>13. CASE CtrlC
    <2>1. Leave("ctrl-c") /\ UNCHANGED prompt
      BY <1>13 DEF CtrlC, Enter
    <2> QED
      BY <1>4, <2>1
  <1>14. CASE OpenPalette
    <2>1. prompt' = Empty /\ Quiet /\ UNCHANGED <<held, stale>> /\ pc' = "palette"
      BY <1>14 DEF OpenPalette, Enter
    <2> QED
      BY <1>7, <2>1
  <1> QED
    BY <1>8, <1>9, <1>10, <1>11, <1>12, <1>13, <1>14

(* What the palette inserts is a text, and its first suggestion is lit.    *)
LEMMA PaletteInv ==
  ASSUME PromptInv, Palette
  PROVE  PromptInv'
  <1> USE DEF PromptInv
  <1>1. /\ pc = "palette" /\ pc' = "prompt"
        /\ UNCHANGED <<callVars, held, disk, active, command, open, unwritten, stale>>
    BY DEF Palette
  <1>2. Highlights(prompt', held')
    <2>1. CASE UNCHANGED prompt
      BY <1>1, <2>1
    <2>2. ASSUME NEW i \in DOMAIN SearchAvailable(Slash, held),
                 prompt' = [Empty EXCEPT !.text = SearchAvailable(Slash, held)[i].insertion]
          PROVE  Highlights(prompt', held')
      <3> DEFINE found == SearchAvailable(Slash, held)
                 text == found[i].insertion
                 sug == ProposedAt(prompt', held)
      <3>1. found \in Seq(Catalogued) /\ i \in DOMAIN found
        BY SearchFacts
      <3>2. text \in Texts
        <4> HIDE DEF found
        <4>1. found[i] \in Catalogued
          BY <3>1
        <4> QED
          BY <4>1, CatalogAssumption DEF Catalogued
      <3>3. prompt' = [Empty EXCEPT !.text = text]
        BY <2>2
      <3> HIDE DEF text, found
      <3>4. Len(sug) \in Nat /\ DOMAIN sug = 1..Len(sug) /\ (sug # <<>> => Len(sug) # 0)
        BY ProposedFacts
      <3> HIDE DEF sug
      <3>5. prompt' \in Prompts /\ prompt'.selected = 1
        <4>1. prompt' = [text |-> text, selected |-> 1, closed |-> FALSE]
          BY <3>3 DEF Empty
        <4> QED
          BY <3>2, <4>1 DEF Prompts
      <3>6. sug # <<>> => 1 \in DOMAIN sug
        BY <3>4
      <3> QED
        BY <1>1, <3>5, <3>6 DEF Highlights, sug
    <2> QED
      BY <2>1, <2>2 DEF Palette
  <1>3. Holds(pc', held', active', disk', stale')
    BY <1>1 DEF Holds
  <1>4. Waits(pc', call', leader', helper') /\ Runs(pc', open', unwritten', command')
    BY <1>1 DEF Waits, Runs, callVars
  <1> QED
    BY <1>2, <1>3, <1>4

(* A command that begins has no child and no run.                          *)
LEMMA BeginInv ==
  ASSUME PromptInv, NEW what, Begin(what), pc \in {"prompt", "call"},
         disk' \in Seq(SUBSET ShellStages), active' \in 0..Len(disk'), active' = 0 => active = 0,
         Waits("begin", call', leader', helper'), open \subseteq unwritten
  PROVE  PromptInv'
  <1> USE DEF PromptInv
  <1>1. pc' = "begin" /\ prompt' = Empty /\ UNCHANGED <<held, stale, open, unwritten>>
    BY DEF Begin
  <1>2. Highlights(prompt', held')
    BY <1>1, EmptyHighlights
  <1>3. Holds(pc', held', active', disk', stale')
    BY <1>1, AwayFacts
  <1> QED
    BY <1>1, <1>2, <1>3 DEF Runs

LEMMA StageCommandInv ==
  ASSUME PromptInv, StageCommand
  PROVE  PromptInv'
  <1>1. pc = "prompt" /\ UNCHANGED callVars
    BY DEF StageCommand, Enter
  <1>2. Waits("begin", call', leader', helper') /\ open \subseteq unwritten
    BY <1>1 DEF PromptInv, Waits, Runs, callVars
  <1>3. disk \in Seq(SUBSET ShellStages) /\ active \in 0..Len(disk)
    BY DEF PromptInv, Holds
  <1>4. \E what : Begin(what)
    BY DEF StageCommand, Enter
  <1>5. UNCHANGED <<disk, active>> \/ CreateSession
    BY DEF StageCommand, Enter
  <1>6. /\ disk' \in Seq(SUBSET ShellStages) /\ active' \in 0..Len(disk')
        /\ active' = 0 => active = 0
    <2>1. CASE UNCHANGED <<disk, active>>
      BY <1>3, <2>1
    <2>2. CASE CreateSession
      <3> DEFINE n == Len(disk')
      <3>1. disk' \in Seq(SUBSET ShellStages) /\ active' \in 1..n
        BY <1>3, <2>2, CreateFacts
      <3>2. n \in Nat
        BY <3>1
      <3> HIDE DEF n
      <3>3. active' \in 0..n /\ active' # 0
        BY <3>1, <3>2
      <3> QED
        BY <3>1, <3>3 DEF n
    <2> QED
      BY <1>5, <2>1, <2>2
  <1> QED
    BY <1>1, <1>2, <1>4, <1>6, BeginInv

LEMMA AskInv ==
  ASSUME PromptInv, Ask
  PROVE  PromptInv'
  <1> USE DEF PromptInv
  <1>1. /\ pc = "prompt" /\ pc' = "call" /\ prompt' = Empty /\ Spawn
        /\ UNCHANGED <<disk, active, open, unwritten, held, stale>>
    BY DEF Ask, Quiet
  <1>2. Highlights(prompt', held')
    BY <1>1, EmptyHighlights
  <1>3. Holds(pc', held', active', disk', stale')
    BY <1>1 DEF Holds
  <1>4. Waits(pc', call', leader', helper')
    BY <1>1, SpawnWaits
  <1> QED
    BY <1>1, <1>2, <1>3, <1>4 DEF Runs

LEMMA RefusedInv ==
  ASSUME PromptInv, Refused
  PROVE  PromptInv'
  <1> USE DEF PromptInv
  <1>1. pc = "begin" /\ Back /\ UNCHANGED <<callVars, disk, active, open, unwritten>>
    BY DEF Refused
  <1>2. disk \in Seq(SUBSET ShellStages) /\ active \in 0..Len(disk)
    BY DEF Holds
  <1>3. /\ Highlights(prompt', held') /\ Holds(pc', held', active', disk', stale')
        /\ pc' = "prompt"
    BY <1>1, <1>2, BackFacts
  <1> QED
    BY <1>1, <1>3 DEF Waits, Runs, callVars

LEMMA UnstartedInv ==
  ASSUME PromptInv, Unstarted
  PROVE  PromptInv'
  <1> USE DEF PromptInv
  <1>1. /\ pc = "begin" /\ Back /\ UNCHANGED callVars
        /\ CreateSession \/ UNCHANGED <<disk, active>>
    BY DEF Unstarted
  <1>2. disk \in Seq(SUBSET ShellStages) /\ active \in 0..Len(disk)
    BY DEF Holds
  <1>3. /\ disk' \in Seq(SUBSET ShellStages) /\ active' \in 0..Len(disk')
        /\ active' = 0 => active = 0
    <2>1. CASE UNCHANGED <<disk, active>>
      BY <1>2, <2>1
    <2>2. CASE CreateSession
      <3> DEFINE n == Len(disk')
      <3>1. disk' \in Seq(SUBSET ShellStages) /\ active' \in 1..n
        BY <1>2, <2>2, CreateFacts
      <3>2. n \in Nat
        BY <3>1
      <3> HIDE DEF n
      <3>3. active' \in 0..n /\ active' # 0
        BY <3>1, <3>2
      <3> QED
        BY <3>1, <3>3 DEF n
    <2> QED
      BY <1>1, <2>1, <2>2
  <1>4. /\ Highlights(prompt', held') /\ Holds(pc', held', active', disk', stale')
        /\ pc' = "prompt"
    BY <1>1, <1>3, BackFacts
  <1>5. open' \subseteq unwritten'
    <2>1. open \subseteq unwritten
      BY <1>1 DEF Runs
    <2>2. unwritten' = (unwritten \cap open') \cup (open' \ open)
      BY DEF Unstarted
    <2> QED
      BY <2>1, <2>2
  <1> QED
    BY <1>1, <1>4, <1>5 DEF Waits, Runs, callVars

LEMMA StartInv ==
  ASSUME PromptInv, Commanded(command), Start
  PROVE  PromptInv'
  <1> USE DEF PromptInv
  <1>1. /\ pc = "begin" /\ pc' = "call" /\ Spawn /\ UNCHANGED <<prompt, held, stale>>
        /\ CreateSession \/ UNCHANGED <<disk, active>>
    BY DEF Start
  <1>2. disk \in Seq(SUBSET ShellStages) /\ active \in 0..Len(disk)
    BY DEF Holds
  <1>3. /\ disk' \in Seq(SUBSET ShellStages) /\ active' \in 0..Len(disk')
        /\ active' = 0 => active = 0
    <2>1. CASE UNCHANGED <<disk, active>>
      BY <1>2, <2>1
    <2>2. CASE CreateSession
      <3> DEFINE n == Len(disk')
      <3>1. disk' \in Seq(SUBSET ShellStages) /\ active' \in 1..n
        BY <1>2, <2>2, CreateFacts
      <3>2. n \in Nat
        BY <3>1
      <3> HIDE DEF n
      <3>3. active' \in 0..n /\ active' # 0
        BY <3>1, <3>2
      <3> QED
        BY <3>1, <3>3 DEF n
    <2> QED
      BY <1>1, <2>1, <2>2
  <1>4. Holds(pc', held', active', disk', stale')
    BY <1>1, <1>3, AwayFacts
  <1>5. Waits(pc', call', leader', helper')
    BY <1>1, SpawnWaits
  <1>6. Runs(pc', open', unwritten', command')
    <2>1. /\ open \subseteq unwritten
          /\ command = [what |-> command.what, session |-> command.session]
      BY <1>1 DEF Runs, Commanded
    <2>2. command' = [command EXCEPT !.session = active']
      BY DEF Start
    <2>3. command' = [what |-> command.what, session |-> active']
      BY <2>1, <2>2
    <2>4. command'.what = command.what /\ command'.session = active'
      BY <2>3
    <2>5. CASE KeepsManifest(command.what)
      <3>1. open' = open \cup {active'} /\ unwritten' = unwritten \ {active'}
        BY <2>5 DEF Start
      <3>2. open' \subseteq unwritten' \cup {active'}
        BY <2>1, <3>1
      <3> QED
        BY <1>1, <2>4, <2>5, <3>2 DEF Runs
    <2>6. CASE ~KeepsManifest(command.what)
      <3>1. UNCHANGED <<open, unwritten>>
        BY <2>6 DEF Start
      <3> QED
        BY <2>1, <3>1 DEF Runs
    <2> QED
      BY <2>5, <2>6
  <1> QED
    BY <1>1, <1>4, <1>5, <1>6

LEMMA SafeCallInv ==
  ASSUME PromptInv, SafeCall
  PROVE  PromptInv'
  <1> USE DEF PromptInv
  <1>1. /\ pc = "call" /\ Back /\ Take /\ UNCHANGED active
    BY DEF SafeCall, CallSettled
  <1>2. disk \in Seq(SUBSET ShellStages) /\ active \in 0..Len(disk)
    BY DEF Holds
  <1>3. disk' \in Seq(SUBSET ShellStages) /\ Len(disk') = Len(disk)
    <2>1. CASE UNCHANGED disk
      BY <1>2, <2>1
    <2>2. CASE disk' = [disk EXCEPT ![command.session] = @ \cup Makes(command.what)]
      <3>1. Makes(command.what) \in SUBSET ShellStages
        BY MakesFacts
      <3> DEFINE S == Makes(command.what)
                 k == command.session
      <3>2. disk' = [disk EXCEPT ![k] = @ \cup S]
        BY <2>2
      <3> HIDE DEF S, k
      <3>3. S \in SUBSET ShellStages
        BY <3>1 DEF S
      <3> QED
        BY <1>2, <3>2, <3>3, SaveFacts
    <2> QED
      BY <2>1, <2>2 DEF SafeCall
  <1>4. active' \in 0..Len(disk') /\ (active' = 0 => active = 0)
    BY <1>1, <1>2, <1>3
  <1>5. /\ Highlights(prompt', held') /\ Holds(pc', held', active', disk', stale')
        /\ pc' = "prompt"
    BY <1>1, <1>3, <1>4, BackFacts
  <1>6. Waits(pc', call', leader', helper')
    BY <1>1, TakeWaits
  <1>7. open' \subseteq unwritten'
    <2>1. open \subseteq unwritten \cup {command.session}
          /\ (~KeepsManifest(command.what) => open \subseteq unwritten)
      BY DEF Runs
    <2>2. \/ ~KeepsManifest(command.what) /\ UNCHANGED <<open, unwritten>>
          \/ open' = open \ {command.session} /\ UNCHANGED unwritten
          \/ unwritten' = unwritten \cup {command.session} /\ UNCHANGED open
      BY DEF SafeCall
    <2> QED
      BY <2>1, <2>2
  <1> QED
    BY <1>5, <1>6, <1>7 DEF Runs

LEMMA ClassifiedInv ==
  ASSUME PromptInv, Classified
  PROVE  PromptInv'
  <1>1. pc = "call" /\ command.what = "classify" /\ open \subseteq unwritten
    BY DEF Classified, CallSettled, PromptInv, Runs, KeepsManifest
  <1>2. disk \in Seq(SUBSET ShellStages) /\ active \in 0..Len(disk)
    BY DEF PromptInv, Holds
  <1>3. CASE Spawn /\ UNCHANGED <<pc, prompt, held, disk, active, open, unwritten, stale>>
    <2>1. Waits(pc', call', leader', helper')
      BY <1>1, <1>3, SpawnWaits
    <2> QED
      BY <1>1, <1>3, <2>1 DEF PromptInv, Holds, Runs
  <1>4. CASE Begin("auto") /\ Take /\ UNCHANGED <<disk, active>>
    <2>1. Waits("begin", call', leader', helper')
      BY <1>4, TakeWaits DEF PromptInv
    <2>2. /\ disk' \in Seq(SUBSET ShellStages) /\ active' \in 0..Len(disk')
          /\ active' = 0 => active = 0
      BY <1>2, <1>4
    <2> QED
      BY <1>1, <1>4, <2>1, <2>2, BeginInv
  <1>5. CASE Leave("thrown") /\ Take /\ UNCHANGED prompt
    <2>1. pc' = "left" /\ UNCHANGED <<held, disk, active, open, unwritten, prompt>>
      BY <1>5 DEF Leave
    <2>2. Waits(pc', call', leader', helper')
      BY <1>5, TakeWaits DEF PromptInv
    <2>3. Holds(pc', held', active', disk', stale')
      BY <1>2, <2>1, AwayFacts DEF PromptInv
    <2> QED
      BY <1>1, <2>1, <2>2, <2>3 DEF PromptInv, Runs
  <1> QED
    BY <1>3, <1>4, <1>5 DEF Classified

LEMMA SignalInv ==
  ASSUME PromptInv, Signal
  PROVE  PromptInv'
  <1> USE DEF PromptInv
  <1>1. /\ pc \in {"begin", "call"} /\ pc' = "left"
        /\ UNCHANGED <<callVars, prompt, held, disk, active, open, unwritten, command>>
    BY DEF Signal, Leave
  <1>2. disk \in Seq(SUBSET ShellStages) /\ active \in 0..Len(disk)
    BY DEF Holds
  <1>3. Holds(pc', held', active', disk', stale')
    BY <1>1, <1>2, AwayFacts
  <1> QED
    BY <1>1, <1>3 DEF Waits, Runs, callVars

LEMMA ForeignInv ==
  ASSUME PromptInv, Foreign
  PROVE  PromptInv'
  <1> USE DEF PromptInv
  <1>1. stale' /\ UNCHANGED <<callVars, pc, prompt, held, command, open, unwritten>>
    BY DEF Foreign
  <1>2. disk \in Seq(SUBSET ShellStages) /\ active \in 0..Len(disk)
    BY DEF Holds
  <1>3. /\ disk' \in Seq(SUBSET ShellStages) /\ active' \in 0..Len(disk')
        /\ active' = 0 => active = 0
    <2> DEFINE n == Len(disk')
    <2>1. CASE CreateSession
      <3>1. disk' \in Seq(SUBSET ShellStages) /\ active' \in 1..n
        BY <1>2, <2>1, CreateFacts
      <3>2. n \in Nat
        BY <3>1
      <3> HIDE DEF n
      <3>3. active' \in 0..n /\ active' # 0
        BY <3>1, <3>2
      <3> QED
        BY <3>1, <3>3 DEF n
    <2>2. ASSUME NEW kind \in Kinds, UNCHANGED active,
                 disk' = [disk EXCEPT ![active] = @ \cup {kind}]
          PROVE  /\ disk' \in Seq(SUBSET ShellStages) /\ active' \in 0..Len(disk')
                 /\ active' = 0 => active = 0
      <3>1. {kind} \in SUBSET ShellStages
        BY DEF Kinds, ShellStages
      <3>2. disk' \in Seq(SUBSET ShellStages) /\ Len(disk') = Len(disk)
        BY <1>2, <2>2, <3>1, SaveFacts
      <3> QED
        BY <1>2, <2>2, <3>2
    <2>3. CASE active' \in DOMAIN disk /\ UNCHANGED disk
      <3>1. DOMAIN disk = 1..n /\ n \in Nat /\ disk' \in Seq(SUBSET ShellStages)
        BY <1>2, <2>3
      <3> HIDE DEF n
      <3>2. active' \in 0..n /\ active' # 0
        BY <2>3, <3>1
      <3> QED
        BY <3>1, <3>2 DEF n
    <2> QED
      BY <2>1, <2>2, <2>3 DEF Foreign
  <1>4. Holds(pc', held', active', disk', stale')
    BY <1>1, <1>3 DEF Holds
  <1> QED
    BY <1>1, <1>4 DEF Waits, Runs, callVars

LEMMA PromptStepInv ==
  ASSUME ShellInv, [ShellNext]_shellVars
  PROVE  PromptInv'
  <1>0. PromptInv /\ Commanded(command)
    BY DEF ShellInv
  <1>1. CASE PromptKey
    <2>1. UNCHANGED <<callVars, pc, held, disk, active, command, open, unwritten, stale>>
      BY <1>1 DEF PromptKey
    <2>2. Highlights(prompt', held')
      BY <1>0, <1>1, <2>1, KeyHighlights DEF PromptInv
    <2> QED
      BY <1>0, <2>1, <2>2 DEF PromptInv, Holds, Waits, Runs, callVars
  <1>2. CASE Message \/ Inform \/ Agents \/ NewSession \/ Exit \/ CtrlC \/ OpenPalette
    BY <1>0, <1>2, EnteredInv
  <1>3. CASE StageCommand
    BY <1>0, <1>3, StageCommandInv
  <1>4. CASE Ask
    BY <1>0, <1>4, AskInv
  <1>5. CASE Palette
    BY <1>0, <1>5, PaletteInv
  <1>6. CASE Shell
    BY <1>0, <1>6, RefusedInv, UnstartedInv, StartInv, SafeCallInv, ClassifiedInv DEF Shell
  <1>7. CASE Signal
    BY <1>0, <1>7, SignalInv
  <1>8. CASE Foreign
    BY <1>0, <1>8, ForeignInv
  <1>9. CASE Outside(Processes) \/ Outside(CallSteps)
    <2>1. UNCHANGED chatVars /\ (Processes \/ CallSteps)
      BY <1>9 DEF Outside
    <2>2. Waits(pc', call', leader', helper')
      BY <1>0, <2>1, ProcessesWait, CallStepsWait DEF PromptInv, chatVars
    <2> QED
      BY <1>0, <2>1, <2>2 DEF PromptInv, chatVars
  <1>10. CASE UNCHANGED shellVars
    BY <1>0, <1>10 DEF PromptInv, shellVars, chatVars, callVars
  <1> QED
    BY <1>1, <1>2, <1>3, <1>4, <1>5, <1>6, <1>7, <1>8, <1>9, <1>10 DEF ShellNext

(* A command has a name and a session.                                     *)
LEMMA CommandedStep ==
  ASSUME Commanded(command), [ShellNext]_shellVars
  PROVE  Commanded(command')
  <1>1. Commanded(Idle)
    BY DEF Commanded, Idle
  <1>2. ASSUME NEW what PROVE Commanded([Idle EXCEPT !.what = what])
    BY DEF Commanded, Idle
  <1>3. command = [what |-> command.what, session |-> command.session]
    BY DEF Commanded
  <1>4. ASSUME NEW what PROVE Commanded([command EXCEPT !.what = what])
    BY <1>3 DEF Commanded
  <1>5. ASSUME NEW k PROVE Commanded([command EXCEPT !.session = k])
    BY <1>3 DEF Commanded
  <1>6. CASE UNCHANGED command
    BY <1>6
  <1>7. CASE Back
    BY <1>1, <1>7 DEF Back
  <1>8. ASSUME NEW what, Begin(what) PROVE Commanded(command')
    BY <1>2, <1>8 DEF Begin
  <1>9. CASE PromptKey \/ Palette \/ Foreign \/ Outside(Processes) \/ Outside(CallSteps)
    <2>1. UNCHANGED command
      BY <1>9 DEF PromptKey, Palette, Foreign, Outside, chatVars
    <2> QED
      BY <1>6, <2>1
  <1>10. CASE Message \/ Inform \/ Agents \/ NewSession \/ Exit \/ CtrlC \/ OpenPalette \/ Signal
    <2>1. UNCHANGED command \/ Back
      BY <1>10 DEF Message, Inform, Agents, NewSession, Exit, CtrlC, OpenPalette, Signal, Enter, Leave
    <2> QED
      BY <1>6, <1>7, <2>1
  <1>11. CASE StageCommand
    <2>1. \E what : Begin(what)
      BY <1>11 DEF StageCommand, Enter
    <2> QED
      BY <1>8, <2>1
  <1>12. CASE Ask
    <2>1. \E what : command' = [Idle EXCEPT !.what = what]
      BY <1>12 DEF Ask
    <2> QED
      BY <1>2, <2>1
  <1>13. CASE Refused \/ Unstarted \/ SafeCall
    BY <1>7, <1>13 DEF Refused, Unstarted, SafeCall
  <1>14. CASE Start
    BY <1>5, <1>14 DEF Start
  <1>15. CASE Classified
    <2>1. \/ command' = [command EXCEPT !.what = "chat"]
          \/ Begin("auto")
          \/ UNCHANGED command
      BY <1>15 DEF Classified, Leave
    <2> QED
      BY <1>4, <1>6, <1>8, <2>1
  <1>16. CASE UNCHANGED shellVars
    BY <1>6, <1>16 DEF shellVars, chatVars
  <1> QED
    BY <1>9, <1>10, <1>11, <1>12, <1>13, <1>14, <1>15, <1>16 DEF ShellNext, Shell

LEMMA ShellInitInv == ShellInit => ShellInv
  BY PromptInitInv DEF ShellInv, ShellInit, Commanded, Idle

LEMMA ShellStepInv == ShellInv /\ [ShellNext]_shellVars => ShellInv'
  BY PromptStepInv, CommandedStep DEF ShellInv

THEOREM ShellInvariant == ShellSpec => []ShellInv
  BY ShellInitInv, ShellStepInv, PTL DEF ShellSpec

(* What the shell proposes is about the session as its commands have left  *)
(* it, whichever of them ran and however it ended, unless another terminal *)
(* has worked since it last looked; and the highlight stays on one of the  *)
(* suggestions, through typing, completing, closing and scrolling.         *)
THEOREM ShellKnowsItsSession == ShellSpec => []HeldIsCurrent
  <1>1. ASSUME ShellInv PROVE HeldIsCurrent
    <2>1. prompt.text \in Texts
      BY <1>1 DEF ShellInv, PromptInv, Highlights, Prompts
    <2>2. pc = "prompt" /\ ~stale => held = OnDisk
      BY <1>1 DEF ShellInv, PromptInv, Holds, OnDisk, OnDiskOf
    <2>3. Proposed # <<>> => prompt.selected \in DOMAIN Proposed
      BY <1>1 DEF ShellInv, PromptInv, Highlights, Proposed, Suggestions, ProposedAt
    <2> QED
      BY <2>1, <2>2, <2>3 DEF HeldIsCurrent
  <1> QED
    BY <1>1, ShellInvariant, PTL

(* When the prompt is back, the child a command waited for has ended and   *)
(* nobody writes to its pipe, after an answer, a timeout, a failure to     *)
(* spawn, a throw and process.exit; and each run of the shell on record as *)
(* running is one whose manifest could not be written (chat.ts: safeCall;  *)
(* run.ts: runCommand; auto.ts: autoCommand).                              *)
THEOREM PromptsAreQuiet == ShellSpec => []PromptIsQuiet
  <1>1. ASSUME ShellInv PROVE PromptIsQuiet
    BY <1>1 DEF ShellInv, PromptInv, Waits, Runs, PromptIsQuiet
  <1> QED
    BY <1>1, ShellInvariant, PTL
=============================================================================
