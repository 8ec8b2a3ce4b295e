-------------------------- MODULE ReusableCacheProofs --------------------------
(***************************************************************************)
(* Proofs about ReusableCache, for any number of processes, contents,      *)
(* snapshots and edits.                                                    *)
(*                                                                         *)
(* The invariant ties what a process holds, and what the cache holds, to   *)
(* the file as it is now: a text recorded under the time the file still    *)
(* has is what the file says, as a written file never has an earlier time  *)
(* again; and an entry under a key is the answer to what the key stands    *)
(* for.  The file and its clock are parameters of its parts, so that a     *)
(* part can be stated before and after a step alike.                       *)
(***************************************************************************)
EXTENDS ReusableCache, Sequences, TLAPS

Pcs == {"idle", "stat", "read", "get", "exists", "restat", "reread", "produce",
        "truncate", "fill", "returned", "done"}

State == [pc : Pcs, phase : {"wiki", "explore", "plan"}, prompt : Prompts,
          mtime : 0..MaxEdits, hash : Contents \cup {Absent},
          cached : WikiEntry \cup {Absent}, again : 0..MaxEdits,
          value : Texts \cup OutEntry \cup {Absent}, how : {"hit", "miss"},
          seen : SUBSET Texts]

(* A text that was recorded under a time of the file.                      *)
Known(mtime, value, f, c) ==
  mtime <= c /\ (mtime = c /\ f.content # Gone => value = f.content)

(* A lookup of the wiki: what it holds was in the file while it ran.       *)
WikiOk(m, f, c) ==
  m.phase = "wiki" /\ m.pc \notin {"idle", "done"} =>
    /\ f.content \in m.seen
    /\ m.pc \notin {"stat", "returned"} => m.mtime <= c
    /\ m.pc \notin {"stat", "read", "returned"} => m.hash \in Contents
    /\ m.pc \in {"truncate", "fill"} =>
         m.value \in Texts /\ m.value \in m.seen /\ Known(m.mtime, m.value, f, c)
    /\ m.pc \in {"exists", "restat", "reread"} =>
         m.cached \in WikiEntry /\ Known(m.cached.meta.mtime, m.cached.value, f, c)
    /\ m.pc = "reread" /\ m.again = m.cached.meta.mtime => m.cached.value \in m.seen
    /\ m.pc = "returned" => m.value \in m.seen

(* A lookup of an output: what it holds answers the prompt.                *)
OutOk(m) ==
  m.phase # "wiki" =>
    /\ m.pc \in {"get", "produce", "truncate", "fill", "returned"}
    /\ m.phase = "explore" => m.prompt.about = Absent
    /\ m.phase = "plan" => m.prompt.about \in Snapshots
    /\ m.pc \in {"truncate", "fill"} =>
         m.value \in OutEntry /\ m.value.prompt = m.prompt /\ m.value.status = "completed"
    /\ m.pc = "returned" =>
         /\ m.phase = "explore" => m.value.prompt = m.prompt
         /\ m.phase = "plan" => m.value.prompt.about = m.prompt.about
         /\ m.how = "hit" => m.value.status = "completed"

(* An entry of the cache.                                                  *)
WikiKept(e, f, c) == e \in WikiEntry /\ Known(e.meta.mtime, e.value, f, c)
OutKept(e) == e \in OutEntry /\ e.status = "completed"

EntryOk(k, e, f, c) ==
  \/ e \in {Absent, Torn}
  \/ k = <<"wiki">> /\ WikiKept(e, f, c)
  \/ \E t \in Texts : k = <<"explore", t>> /\ OutKept(e) /\ e.prompt.text = t /\ e.prompt.about = Absent
  \/ \E s \in Snapshots : k = <<"plan", s>> /\ OutKept(e) /\ e.prompt.about = s

CacheInv ==
  /\ file \in [content : Texts, mtime : 0..MaxEdits]
  /\ clock \in 0..MaxEdits /\ file.mtime = clock
  /\ DOMAIN entries = Keys /\ entries = [k \in Keys |-> entries[k]]
  /\ \A k \in Keys : EntryOk(k, entries[k], file, clock)
  /\ me \in [Procs -> State]
  /\ \A p \in Procs : WikiOk(me[p], file, clock) /\ OutOk(me[p])

LEMMA IdleIsTyped == Idle \in State
<1>1. Gone \in Texts /\ 0 \in 0..MaxEdits /\ Nothing \in Prompts
  BY BoundsAssumption DEF Texts, Nothing, Prompts
<1> QED BY <1>1 DEF Idle, State, Pcs

(* The keys of the three kinds of lookup are apart.                        *)
LEMMA KeysApart ==
  /\ \A t : <<"wiki">> # <<"explore", t>> /\ <<"wiki">> # <<"plan", t>>
  /\ \A t, s : <<"explore", t>> # <<"plan", s>>
  /\ \A t, s : <<"explore", t>> = <<"explore", s>> => t = s
  /\ \A t, s : <<"plan", t>> = <<"plan", s>> => t = s
<1>1. \A t : Len(<<"wiki">>) # Len(<<"explore", t>>) /\ Len(<<"wiki">>) # Len(<<"plan", t>>)
  OBVIOUS
<1>2. \A t, s : <<"explore", t>>[1] # <<"plan", s>>[1]
  OBVIOUS
<1>3. \A t, s : <<"explore", t>> = <<"explore", s>> => <<"explore", t>>[2] = <<"explore", s>>[2]
  OBVIOUS
<1>4. \A t, s : <<"plan", t>> = <<"plan", s>> => <<"plan", t>>[2] = <<"plan", s>>[2]
  OBVIOUS
<1> QED BY <1>1, <1>2, <1>3, <1>4

(* What is under a key, by the kind of the lookup.                         *)
LEMMA KeptUnderKey ==
  ASSUME NEW m \in State, OutOk(m), NEW e, NEW f, NEW c,
         EntryOk(Key(m), e, f, c), e \notin {Absent, Torn}
  PROVE  /\ m.phase = "wiki" => WikiKept(e, f, c)
         /\ m.phase # "wiki" => OutKept(e)
         /\ m.phase = "explore" => e.prompt.text = m.prompt.text /\ e.prompt.about = Absent
         /\ m.phase = "plan" => e.prompt.about = m.prompt.about
<1>1. CASE m.phase = "wiki"
  BY <1>1, KeysApart DEF Key, EntryOk
<1>2. CASE m.phase = "explore"
  BY <1>2, KeysApart DEF Key, EntryOk
<1>3. CASE m.phase = "plan"
  BY <1>3, KeysApart DEF Key, EntryOk
<1> QED BY <1>1, <1>2, <1>3 DEF State

LEMMA KeyIsKey ==
  ASSUME NEW m \in State, OutOk(m) PROVE Key(m) \in Keys
<1>0. m.prompt.text \in Texts
  BY DEF State, Prompts
<1>1. CASE m.phase = "wiki"
  BY <1>1 DEF Key, Keys
<1>2. CASE m.phase = "explore"
  BY <1>0, <1>2 DEF Key, Keys
<1>3. CASE m.phase = "plan"
  BY <1>3 DEF Key, Keys, OutOk
<1> QED BY <1>1, <1>2, <1>3 DEF State

(***************************************************************************)
(* A process takes a step of its own.                                      *)
(***************************************************************************)
LEMMA Moves ==
  ASSUME CacheInv, NEW p \in Procs, NEW n \in State,
         WikiOk(n, file, clock), OutOk(n),
         me' = [me EXCEPT ![p] = n], UNCHANGED <<file, clock, entries>>
  PROVE  CacheInv'
<1>1. me' \in [Procs -> State]
  BY DEF CacheInv
<1>2. \A q \in Procs : WikiOk(me'[q], file, clock) /\ OutOk(me'[q])
  BY DEF CacheInv
<1> QED BY <1>1, <1>2 DEF CacheInv

LEMMA Keeps ==
  ASSUME CacheInv, NEW p \in Procs, NEW n \in State,
         WikiOk(n, file, clock), OutOk(n),
         me' = [me EXCEPT ![p] = n], UNCHANGED <<file, clock>>,
         NEW k \in Keys, NEW e, EntryOk(k, e, file, clock),
         entries' = [entries EXCEPT ![k] = e]
  PROVE  CacheInv'
<1>1. me' \in [Procs -> State]
  BY DEF CacheInv
<1>2. \A q \in Procs : WikiOk(me'[q], file, clock) /\ OutOk(me'[q])
  BY DEF CacheInv
<1>3. DOMAIN entries' = Keys /\ entries' = [j \in Keys |-> entries'[j]]
  BY DEF CacheInv
<1>4. \A j \in Keys : EntryOk(j, entries'[j], file, clock)
  BY DEF CacheInv
<1> QED BY <1>1, <1>2, <1>3, <1>4 DEF CacheInv

LEMMA Throws ==
  ASSUME CacheInv, NEW p \in Procs, Throw(p), UNCHANGED <<file, clock, entries>>
  PROVE  CacheInv'
<1> DEFINE n == [Idle EXCEPT !.pc = "done"]
<1>1. n \in State /\ n.phase = "wiki" /\ n.pc = "done"
  BY IdleIsTyped DEF State, Pcs, Idle
<1>2. me' = [me EXCEPT ![p] = n]
  BY DEF Throw
<1>3. WikiOk(n, file, clock) /\ OutOk(n)
  BY <1>1 DEF WikiOk, OutOk
<1> HIDE DEF n
<1> QED BY <1>1, <1>2, <1>3, Moves

(* The state a lookup is left in by Return.                                *)
Left(m, value, how) ==
  [Idle EXCEPT !.pc = "returned", !.phase = m.phase, !.prompt = m.prompt,
               !.value = value, !.how = how, !.seen = m.seen]

LEMMA LeftIsTyped ==
  ASSUME NEW m \in State, NEW value \in Texts \cup OutEntry, NEW how \in {"hit", "miss"}
  PROVE  /\ Left(m, value, how) \in State
         /\ Left(m, value, how).pc = "returned"
         /\ Left(m, value, how).phase = m.phase
         /\ Left(m, value, how).prompt = m.prompt
         /\ Left(m, value, how).value = value
         /\ Left(m, value, how).how = how
         /\ Left(m, value, how).seen = m.seen
<1>1. Idle \in State
  BY IdleIsTyped
<1> QED BY <1>1 DEF Left, State, Idle, Pcs

(* A text of the wiki is given.                                            *)
LEMMA WikiLeft ==
  ASSUME NEW m \in State, NEW value \in Texts, NEW how \in {"hit", "miss"}, NEW f, NEW c,
         m.phase = "wiki", f.content \in m.seen, value \in m.seen
  PROVE  WikiOk(Left(m, value, how), f, c) /\ OutOk(Left(m, value, how))
<1> DEFINE n == Left(m, value, how)
<1>1. /\ n.pc = "returned" /\ n.phase = "wiki" /\ n.value = value /\ n.seen = m.seen
  BY LeftIsTyped
<1> HIDE DEF n
<1>2. WikiOk(n, f, c) /\ OutOk(n)
  BY <1>1 DEF WikiOk, OutOk
<1> QED BY <1>2 DEF n

(* An output is given.                                                     *)
LEMMA OutLeft ==
  ASSUME NEW m \in State, OutOk(m), NEW value \in OutEntry, NEW how \in {"hit", "miss"},
         NEW f, NEW c, m.phase # "wiki",
         m.phase = "explore" => value.prompt = m.prompt,
         m.phase = "plan" => value.prompt.about = m.prompt.about,
         how = "hit" => value.status = "completed"
  PROVE  WikiOk(Left(m, value, how), f, c) /\ OutOk(Left(m, value, how))
<1> DEFINE n == Left(m, value, how)
<1>1. /\ n.pc = "returned" /\ n.phase = m.phase /\ n.value = value /\ n.how = how
      /\ n.prompt = m.prompt
  BY LeftIsTyped
<1> HIDE DEF n
<1>2. WikiOk(n, f, c) /\ OutOk(n)
  BY <1>1 DEF WikiOk, OutOk
<1> QED BY <1>2 DEF n

(***************************************************************************)
(* The actions of a process.                                               *)
(***************************************************************************)
(* What the invariant says of one process.                                 *)
LEMMA OfOne ==
  ASSUME CacheInv, NEW p \in Procs
  PROVE  /\ me[p] \in State /\ WikiOk(me[p], file, clock) /\ OutOk(me[p])
         /\ file.content \in Texts /\ clock \in 0..MaxEdits /\ file.mtime = clock
         /\ clock \in Nat
         /\ Key(me[p]) \in Keys /\ EntryOk(Key(me[p]), entries[Key(me[p])], file, clock)
<1>1. me[p] \in State /\ WikiOk(me[p], file, clock) /\ OutOk(me[p])
  BY DEF CacheInv
<1>2. file.content \in Texts /\ clock \in 0..MaxEdits /\ file.mtime = clock /\ clock \in Nat
  BY BoundsAssumption DEF CacheInv
<1>3. Key(me[p]) \in Keys
  BY <1>1, KeyIsKey
<1>4. EntryOk(Key(me[p]), entries[Key(me[p])], file, clock)
  BY <1>3 DEF CacheInv
<1> QED BY <1>1, <1>2, <1>3, <1>4

LEMMA ExploreStep ==
  ASSUME CacheInv, NEW p \in Procs, Explore(p) PROVE CacheInv'
<1>0. file.content \in Texts /\ me[p] \in State
  BY OfOne
<1>1. CASE Exists
  <2> DEFINE n == [Idle EXCEPT !.pc = "stat", !.seen = {file.content}]
  <2>1. n \in State /\ n.phase = "wiki" /\ n.pc = "stat" /\ n.seen = {file.content}
    BY <1>0, IdleIsTyped DEF State, Pcs, Idle
  <2>2. me' = [me EXCEPT ![p] = n] /\ UNCHANGED <<file, clock, entries>>
    BY <1>1 DEF Explore
  <2> HIDE DEF n
  <2>3. WikiOk(n, file, clock) /\ OutOk(n)
    BY <2>1 DEF WikiOk, OutOk
  <2> QED BY <2>1, <2>2, <2>3, Moves
<1>2. CASE ~Exists
  <2> DEFINE n == [Idle EXCEPT !.pc = "returned", !.value = Gone, !.seen = {Gone}]
  <2>1. n \in State /\ n.phase = "wiki" /\ n.pc = "returned" /\ n.seen = {Gone} /\ n.value = Gone
    BY IdleIsTyped DEF State, Pcs, Idle, Texts
  <2>2. me' = [me EXCEPT ![p] = n] /\ UNCHANGED <<file, clock, entries>>
    BY <1>2 DEF Explore
  <2> HIDE DEF n
  <2>3. WikiOk(n, file, clock) /\ OutOk(n)
    BY <1>2, <2>1 DEF WikiOk, OutOk, Exists
  <2> QED BY <2>1, <2>2, <2>3, Moves
<1> QED BY <1>1, <1>2

LEMMA PlanStep ==
  ASSUME CacheInv, NEW p \in Procs, Plan(p) PROVE CacheInv'
<1>0. file.content \in Texts
  BY OfOne
<1>1. PICK s \in Snapshots :
        me' = [me EXCEPT ![p] = [Idle EXCEPT !.pc = "get", !.phase = "plan",
                 !.prompt = [text |-> file.content, about |-> s]]]
  BY DEF Plan
<1> DEFINE n == [Idle EXCEPT !.pc = "get", !.phase = "plan",
                   !.prompt = [text |-> file.content, about |-> s]]
<1>2. n \in State /\ n.phase = "plan" /\ n.pc = "get" /\ n.prompt.about = s
  BY <1>0, IdleIsTyped DEF State, Pcs, Idle, Prompts
<1>3. me' = [me EXCEPT ![p] = n] /\ UNCHANGED <<file, clock, entries>>
  BY <1>1 DEF Plan
<1> HIDE DEF n
<1>4. WikiOk(n, file, clock) /\ OutOk(n)
  BY <1>2 DEF WikiOk, OutOk
<1> QED BY <1>2, <1>3, <1>4, Moves

LEMMA AskStep ==
  ASSUME CacheInv, NEW p \in Procs, Ask(p) PROVE CacheInv'
<1>0. me[p] \in State /\ WikiOk(me[p], file, clock) /\ At(p, "returned") /\ me[p].phase = "wiki"
  BY OfOne DEF Ask
<1>1. me[p].value \in Texts
  BY <1>0 DEF WikiOk, State, At
<1> DEFINE n == [Idle EXCEPT !.pc = "get", !.phase = "explore",
                   !.prompt = [text |-> me[p].value, about |-> Absent]]
<1>2. n \in State /\ n.phase = "explore" /\ n.pc = "get" /\ n.prompt.about = Absent
  BY <1>1, IdleIsTyped DEF State, Pcs, Idle, Prompts
<1>3. me' = [me EXCEPT ![p] = n] /\ UNCHANGED <<file, clock, entries>>
  BY DEF Ask
<1> HIDE DEF n
<1>4. WikiOk(n, file, clock) /\ OutOk(n)
  BY <1>2 DEF WikiOk, OutOk
<1> QED BY <1>2, <1>3, <1>4, Moves

(* An output is looked up at five places only.                             *)
LEMMA WikiOnly ==
  ASSUME CacheInv, NEW p \in Procs,
         me[p].pc \in {"stat", "read", "exists", "restat", "reread"}
  PROVE  me[p].phase = "wiki"
<1>1. OutOk(me[p])
  BY OfOne
<1> QED BY <1>1 DEF OutOk

LEMMA StatStep ==
  ASSUME CacheInv, NEW p \in Procs, Stat(p) PROVE CacheInv'
<1>0. /\ me[p] \in State /\ WikiOk(me[p], file, clock) /\ file.mtime = clock
      /\ clock \in 0..MaxEdits /\ clock \in Nat
  BY OfOne
<1>1. me[p].phase = "wiki" /\ me[p].pc = "stat"
  BY WikiOnly DEF Stat, At
<1>2. CASE Exists
  <2> DEFINE n == [me[p] EXCEPT !.pc = "read", !.mtime = file.mtime]
  <2>1. n \in State /\ n.phase = "wiki" /\ n.pc = "read" /\ n.mtime = clock /\ n.seen = me[p].seen
    BY <1>0, <1>1 DEF State, Pcs
  <2>2. me' = [me EXCEPT ![p] = n] /\ UNCHANGED <<file, clock, entries>>
    BY <1>2 DEF Stat
  <2> HIDE DEF n
  <2>3. WikiOk(n, file, clock) /\ OutOk(n)
    BY <1>0, <1>1, <2>1 DEF WikiOk, OutOk
  <2> QED BY <2>1, <2>2, <2>3, Moves
<1>3. CASE ~Exists
  BY <1>3, Throws DEF Stat
<1> QED BY <1>2, <1>3

LEMMA ReadStep ==
  ASSUME CacheInv, NEW p \in Procs, Read(p) PROVE CacheInv'
<1>0. me[p] \in State /\ WikiOk(me[p], file, clock) /\ file.content \in Texts
  BY OfOne
<1>1. me[p].phase = "wiki" /\ me[p].pc = "read"
  BY WikiOnly DEF Read, At
<1>2. CASE Exists
  <2> DEFINE n == [me[p] EXCEPT !.pc = "get", !.hash = file.content]
  <2>0. file.content \in Contents
    BY <1>0, <1>2 DEF Exists, Texts
  <2>1. /\ n \in State /\ n.phase = "wiki" /\ n.pc = "get" /\ n.mtime = me[p].mtime
        /\ n.seen = me[p].seen /\ n.hash \in Contents
    BY <1>0, <1>1, <2>0 DEF State, Pcs
  <2>2. me' = [me EXCEPT ![p] = n] /\ UNCHANGED <<file, clock, entries>>
    BY <1>2 DEF Read
  <2> HIDE DEF n
  <2>3. WikiOk(n, file, clock) /\ OutOk(n)
    BY <1>0, <1>1, <2>1 DEF WikiOk, OutOk
  <2> QED BY <2>1, <2>2, <2>3, Moves
<1>3. CASE ~Exists
  BY <1>3, Throws DEF Read
<1> QED BY <1>2, <1>3

(* Nothing usable is kept: the value has to be made.                       *)
LEMMA Misses ==
  ASSUME CacheInv, NEW p \in Procs, Miss(p), UNCHANGED <<file, clock, entries>>,
         me[p].pc \in {"get", "exists", "restat", "reread"}
  PROVE  CacheInv'
<1>0. me[p] \in State /\ WikiOk(me[p], file, clock) /\ OutOk(me[p]) /\ clock \in Nat
  BY OfOne
<1> DEFINE n == [me[p] EXCEPT !.pc = "produce", !.cached = Absent, !.again = 0]
<1>a. 0 \in 0..MaxEdits
  BY BoundsAssumption
<1>b. n \in State
  BY <1>0, <1>a DEF State, Pcs
<1>1. /\ n \in State /\ n.phase = me[p].phase /\ n.pc = "produce" /\ n.mtime = me[p].mtime
      /\ n.seen = me[p].seen /\ n.hash = me[p].hash /\ n.prompt = me[p].prompt
  BY <1>0, <1>b DEF State
<1>2. me' = [me EXCEPT ![p] = n]
  BY DEF Miss
<1> HIDE DEF n
<1>3. WikiOk(n, file, clock)
  BY <1>0, <1>1 DEF WikiOk
<1>4. OutOk(n)
  BY <1>0, <1>1 DEF OutOk
<1> QED BY <1>1, <1>2, <1>3, <1>4, Moves

LEMMA GetStep ==
  ASSUME CacheInv, NEW p \in Procs, Get(p) PROVE CacheInv'
<1> DEFINE entry == entries[Key(me[p])]
<1>0. /\ me[p] \in State /\ WikiOk(me[p], file, clock) /\ OutOk(me[p])
      /\ EntryOk(Key(me[p]), entry, file, clock)
  BY OfOne
<1>1. me[p].pc = "get" /\ UNCHANGED <<file, clock, entries>>
  BY DEF Get, At
<1>2. CASE entry = Absent
  BY <1>1, <1>2, Misses, MarksAssumption DEF Get
<1>3. CASE entry = Torn
  BY <1>1, <1>3, Throws, MarksAssumption DEF Get
<1>4. CASE entry \notin {Absent, Torn} /\ me[p].phase = "wiki"
  <2>0. WikiKept(entry, file, clock)
    BY <1>0, <1>4, KeptUnderKey
  <2> DEFINE n == [me[p] EXCEPT !.pc = "exists", !.cached = entry]
  <2>1. me' = [me EXCEPT ![p] = n]
    BY <1>4 DEF Get
  <2>2. entry \in WikiEntry
    BY <2>0 DEF WikiKept
  <2>3. /\ n \in State /\ n.phase = "wiki" /\ n.pc = "exists" /\ n.mtime = me[p].mtime
        /\ n.seen = me[p].seen /\ n.hash = me[p].hash /\ n.cached = entry
    BY <1>0, <1>4, <2>2 DEF State, Pcs
  <2> HIDE DEF n
  <2>4. WikiOk(n, file, clock) /\ OutOk(n)
    BY <1>0, <1>1, <1>4, <2>0, <2>3 DEF WikiOk, OutOk, WikiKept
  <2> QED BY <1>1, <2>1, <2>3, <2>4, Moves
<1>5. CASE entry \notin {Absent, Torn} /\ me[p].phase # "wiki"
  <2>0. /\ OutKept(entry)
        /\ me[p].phase = "explore" => entry.prompt.text = me[p].prompt.text /\ entry.prompt.about = Absent
        /\ me[p].phase = "plan" => entry.prompt.about = me[p].prompt.about
    BY <1>0, <1>5, KeptUnderKey
  <2>1. entry \in OutEntry /\ entry.status = "completed"
    BY <2>0 DEF OutKept
  <2>2. me[p].phase = "explore" => entry.prompt = me[p].prompt
    BY <1>0, <2>0, <2>1 DEF OutEntry, Prompts, State, OutOk
  <2> DEFINE n == Left(me[p], entry, "hit")
  <2>3. me' = [me EXCEPT ![p] = n]
    BY <1>5 DEF Get, Return, Left
  <2>4. n \in State
    BY <1>0, <2>1, LeftIsTyped
  <2>5. WikiOk(n, file, clock) /\ OutOk(n)
    BY <1>0, <1>5, <2>0, <2>1, <2>2, OutLeft
  <2> HIDE DEF n
  <2> QED BY <1>1, <2>3, <2>4, <2>5, Moves
<1> QED BY <1>2, <1>3, <1>4, <1>5

LEMMA CheckStep ==
  ASSUME CacheInv, NEW p \in Procs, Check(p) PROVE CacheInv'
<1>0. me[p] \in State /\ WikiOk(me[p], file, clock)
  BY OfOne
<1>1. me[p].phase = "wiki" /\ me[p].pc = "exists" /\ UNCHANGED <<file, clock, entries>>
  BY WikiOnly DEF Check, At
<1>2. CASE Exists
  <2> DEFINE n == [me[p] EXCEPT !.pc = "restat"]
  <2>1. /\ n \in State /\ n.phase = "wiki" /\ n.pc = "restat" /\ n.mtime = me[p].mtime
        /\ n.seen = me[p].seen /\ n.hash = me[p].hash /\ n.cached = me[p].cached
    BY <1>0, <1>1 DEF State, Pcs
  <2>2. me' = [me EXCEPT ![p] = n]
    BY <1>2 DEF Check, Goto
  <2> HIDE DEF n
  <2>3. WikiOk(n, file, clock) /\ OutOk(n)
    BY <1>0, <1>1, <2>1 DEF WikiOk, OutOk
  <2> QED BY <1>1, <2>1, <2>2, <2>3, Moves
<1>3. CASE ~Exists
  BY <1>1, <1>3, Misses DEF Check
<1> QED BY <1>2, <1>3

(* The time the file has now is the entry's only when the entry's text is  *)
(* what the file says.                                                     *)
LEMMA RestatStep ==
  ASSUME CacheInv, NEW p \in Procs, Restat(p) PROVE CacheInv'
<1>0. /\ me[p] \in State /\ WikiOk(me[p], file, clock)
      /\ file.mtime = clock /\ clock \in 0..MaxEdits
  BY OfOne
<1>1. me[p].phase = "wiki" /\ me[p].pc = "restat" /\ UNCHANGED <<file, clock, entries>>
  BY WikiOnly DEF Restat, At
<1>2. CASE Exists
  <2> DEFINE n == [me[p] EXCEPT !.pc = "reread", !.again = file.mtime]
  <2>1. /\ n \in State /\ n.phase = "wiki" /\ n.pc = "reread" /\ n.mtime = me[p].mtime
        /\ n.seen = me[p].seen /\ n.hash = me[p].hash /\ n.cached = me[p].cached
        /\ n.again = clock
    BY <1>0, <1>1 DEF State, Pcs
  <2>2. me' = [me EXCEPT ![p] = n]
    BY <1>2 DEF Restat
  <2> HIDE DEF n
  <2>3. clock = n.cached.meta.mtime => n.cached.value \in n.seen
    BY <1>0, <1>1, <1>2, <2>1 DEF WikiOk, Known, Exists
  <2>4. WikiOk(n, file, clock) /\ OutOk(n)
    BY <1>0, <1>1, <2>1, <2>3 DEF WikiOk, OutOk
  <2> QED BY <1>1, <2>1, <2>2, <2>4, Moves
<1>3. CASE ~Exists
  BY <1>1, <1>3, Misses DEF Restat
<1> QED BY <1>2, <1>3

LEMMA RereadStep ==
  ASSUME CacheInv, NEW p \in Procs, Reread(p) PROVE CacheInv'
<1>0. me[p] \in State /\ WikiOk(me[p], file, clock)
  BY OfOne
<1>1. me[p].phase = "wiki" /\ me[p].pc = "reread" /\ UNCHANGED <<file, clock, entries>>
  BY WikiOnly DEF Reread, At
<1> DEFINE Hit == Exists /\ Reusable(me[p].cached, me[p].again, file.content)
<1>2. CASE Hit
  <2>1. /\ me[p].cached.value \in me[p].seen /\ file.content \in me[p].seen
        /\ me[p].cached.value \in Texts
    BY <1>0, <1>1, <1>2 DEF WikiOk, Reusable, WikiEntry
  <2> DEFINE n == Left(me[p], me[p].cached.value, "hit")
  <2>2. me' = [me EXCEPT ![p] = n]
    BY <1>2 DEF Reread, Return, Left
  <2>3. n \in State /\ WikiOk(n, file, clock) /\ OutOk(n)
    BY <1>0, <1>1, <2>1, LeftIsTyped, WikiLeft
  <2> HIDE DEF n
  <2> QED BY <1>1, <2>2, <2>3, Moves
<1>3. CASE ~Hit
  BY <1>1, <1>3, Misses DEF Reread
<1> QED BY <1>2, <1>3

LEMMA ProduceTextStep ==
  ASSUME CacheInv, NEW p \in Procs, ProduceText(p) PROVE CacheInv'
<1>0. me[p] \in State /\ WikiOk(me[p], file, clock) /\ file.content \in Texts /\ clock \in Nat
  BY OfOne
<1>1. me[p].phase = "wiki" /\ me[p].pc = "produce" /\ UNCHANGED <<file, clock, entries>>
  BY DEF ProduceText, At
<1> DEFINE n == [me[p] EXCEPT !.pc = "truncate", !.value = file.content]
<1>2. /\ n \in State /\ n.phase = "wiki" /\ n.pc = "truncate" /\ n.mtime = me[p].mtime
      /\ n.seen = me[p].seen /\ n.hash = me[p].hash /\ n.value = file.content
  BY <1>0, <1>1 DEF State, Pcs
<1>3. me' = [me EXCEPT ![p] = n]
  BY DEF ProduceText
<1> HIDE DEF n
<1>4. WikiOk(n, file, clock) /\ OutOk(n)
  BY <1>0, <1>1, <1>2 DEF WikiOk, OutOk, Known
<1> QED BY <1>1, <1>2, <1>3, <1>4, Moves

LEMMA ProduceOutputStep ==
  ASSUME CacheInv, NEW p \in Procs, ProduceOutput(p) PROVE CacheInv'
<1>0. me[p] \in State /\ OutOk(me[p])
  BY OfOne
<1>1. me[p].phase # "wiki" /\ me[p].pc = "produce" /\ UNCHANGED <<file, clock, entries>>
  BY DEF ProduceOutput, At
<1>2. CASE Throw(p)
  BY <1>1, <1>2, Throws
<1>3. ASSUME NEW status \in {"completed", "awaiting_human"},
             LET output == [prompt |-> me[p].prompt, status |-> status] IN
               IF Cacheable(output)
               THEN me' = [me EXCEPT ![p].pc = "truncate", ![p].value = output]
               ELSE Return(p, output, "miss")
      PROVE  CacheInv'
  <2> DEFINE output == [prompt |-> me[p].prompt, status |-> status]
  <2>1. output \in OutEntry /\ output.prompt = me[p].prompt /\ output.status = status
    BY <1>0 DEF State, OutEntry
  <2>2. CASE status = "completed"
    <3> DEFINE n == [me[p] EXCEPT !.pc = "truncate", !.value = output]
    <3>1. me' = [me EXCEPT ![p] = n]
      BY <1>3, <2>2 DEF Cacheable
    <3> HIDE DEF output
    <3>2. /\ n \in State /\ n.phase = me[p].phase /\ n.pc = "truncate" /\ n.value = output
          /\ n.prompt = me[p].prompt
      BY <1>0, <2>1 DEF State, Pcs
    <3> HIDE DEF n
    <3>3. WikiOk(n, file, clock)
      BY <1>1, <3>2 DEF WikiOk
    <3>4. OutOk(n)
      BY <1>0, <1>1, <2>1, <2>2, <3>2 DEF OutOk
    <3> QED BY <1>1, <3>1, <3>2, <3>3, <3>4, Moves
  <2>3. CASE status # "completed"
    <3> DEFINE n == Left(me[p], output, "miss")
    <3>1. me' = [me EXCEPT ![p] = n]
      BY <1>3, <2>3 DEF Cacheable, Return, Left
    <3> HIDE DEF output
    <3>2. n \in State /\ WikiOk(n, file, clock) /\ OutOk(n)
      BY <1>0, <1>1, <2>1, LeftIsTyped, OutLeft
    <3> HIDE DEF n
    <3> QED BY <1>1, <3>1, <3>2, Moves
  <2> QED BY <2>2, <2>3
<1> QED BY <1>2, <1>3 DEF ProduceOutput

LEMMA TruncateStep ==
  ASSUME CacheInv, NEW p \in Procs, Truncate(p) PROVE CacheInv'
<1>0. me[p] \in State /\ WikiOk(me[p], file, clock) /\ OutOk(me[p]) /\ Key(me[p]) \in Keys
  BY OfOne
<1>1. me[p].pc = "truncate" /\ UNCHANGED <<file, clock>>
  BY DEF Truncate, At
<1>2. entries' = [entries EXCEPT ![Key(me[p])] = Torn]
  BY DEF Truncate
<1> DEFINE n == [me[p] EXCEPT !.pc = "fill"]
<1>3. /\ n \in State /\ n.phase = me[p].phase /\ n.pc = "fill" /\ n.mtime = me[p].mtime
      /\ n.seen = me[p].seen /\ n.hash = me[p].hash /\ n.value = me[p].value
      /\ n.prompt = me[p].prompt
  BY <1>0 DEF State, Pcs
<1>4. me' = [me EXCEPT ![p] = n]
  BY DEF Truncate, Goto
<1> HIDE DEF n
<1>5. WikiOk(n, file, clock)
  BY <1>0, <1>1, <1>3 DEF WikiOk
<1>6. OutOk(n)
  BY <1>0, <1>1, <1>3 DEF OutOk
<1>7. EntryOk(Key(me[p]), Torn, file, clock)
  BY DEF EntryOk
<1> QED BY <1>0, <1>1, <1>2, <1>3, <1>4, <1>5, <1>6, <1>7, Keeps

(* What is written is an entry of its key.                                 *)
LEMMA MineIsKept ==
  ASSUME CacheInv, NEW p \in Procs, At(p, "fill")
  PROVE  EntryOk(Key(me[p]), Mine(p), file, clock)
<1>0. me[p] \in State /\ WikiOk(me[p], file, clock) /\ OutOk(me[p])
  BY OfOne
<1>1. CASE me[p].phase = "wiki"
  <2>1. /\ me[p].value \in Texts /\ me[p].hash \in Contents /\ me[p].mtime \in 0..MaxEdits
        /\ Known(me[p].mtime, me[p].value, file, clock)
    BY <1>0, <1>1 DEF WikiOk, At, State
  <2> DEFINE e == [meta |-> [mtime |-> me[p].mtime, hash |-> me[p].hash], value |-> me[p].value]
  <2>2. Mine(p) = e /\ Key(me[p]) = <<"wiki">>
    BY <1>1 DEF Mine, Key
  <2>3. e \in WikiEntry /\ e.meta.mtime = me[p].mtime /\ e.value = me[p].value
    BY <2>1 DEF WikiEntry, Meta
  <2> HIDE DEF e
  <2> QED BY <2>1, <2>2, <2>3 DEF EntryOk, WikiKept
<1>2. CASE me[p].phase # "wiki"
  <2>1. /\ me[p].value \in OutEntry /\ me[p].value.prompt = me[p].prompt
        /\ me[p].value.status = "completed" /\ me[p].prompt.text \in Texts
    BY <1>0, <1>2 DEF OutOk, At, State, Prompts
  <2>2. Mine(p) = me[p].value
    BY <1>2 DEF Mine
  <2>3. CASE me[p].phase = "explore"
    <3>1. Key(me[p]) = <<"explore", me[p].prompt.text>>
      BY <2>3 DEF Key
    <3>2. me[p].prompt.about = Absent
      BY <1>0, <2>3 DEF OutOk
    <3> QED BY <2>1, <2>2, <3>1, <3>2 DEF EntryOk, OutKept
  <2>4. CASE me[p].phase = "plan"
    <3>1. Key(me[p]) = <<"plan", me[p].prompt.about>>
      BY <2>4 DEF Key
    <3>2. me[p].prompt.about \in Snapshots
      BY <1>0, <2>4 DEF OutOk
    <3> QED BY <2>1, <2>2, <3>1, <3>2 DEF EntryOk, OutKept
  <2> QED BY <1>0, <1>2, <2>3, <2>4 DEF State
<1> QED BY <1>1, <1>2

LEMMA FillStep ==
  ASSUME CacheInv, NEW p \in Procs, Fill(p) PROVE CacheInv'
<1>0. me[p] \in State /\ WikiOk(me[p], file, clock) /\ OutOk(me[p]) /\ Key(me[p]) \in Keys
  BY OfOne
<1>1. me[p].pc = "fill" /\ UNCHANGED <<file, clock>>
  BY DEF Fill, At
<1>2. PICK left \in {Mine(p), Torn} : entries' = [entries EXCEPT ![Key(me[p])] = left]
  BY DEF Fill
<1>3. EntryOk(Key(me[p]), left, file, clock)
  BY <1>1, MineIsKept DEF EntryOk, At
<1> DEFINE n == Left(me[p], me[p].value, "miss")
<1>4. me' = [me EXCEPT ![p] = n]
  BY DEF Fill, Return, Left
<1>5. n \in State /\ WikiOk(n, file, clock) /\ OutOk(n)
  <2>1. CASE me[p].phase = "wiki"
    <3>1. me[p].value \in Texts /\ me[p].value \in me[p].seen /\ file.content \in me[p].seen
      BY <1>0, <1>1, <2>1 DEF WikiOk
    <3> QED BY <1>0, <2>1, <3>1, LeftIsTyped, WikiLeft
  <2>2. CASE me[p].phase # "wiki"
    <3>1. me[p].value \in OutEntry /\ me[p].value.prompt = me[p].prompt
      BY <1>0, <1>1, <2>2 DEF OutOk
    <3> QED BY <1>0, <2>2, <3>1, LeftIsTyped, OutLeft
  <2> QED BY <2>1, <2>2
<1> HIDE DEF n
<1> QED BY <1>0, <1>1, <1>2, <1>3, <1>4, <1>5, Keeps

(***************************************************************************)
(* The user: a text recorded under an earlier time binds nothing any more, *)
(* and every lookup of the wiki has seen what the file says now.           *)
(***************************************************************************)
LEMMA UserStep ==
  ASSUME CacheInv, NEW content \in Texts, Shown(content),
         file' \in [content : Texts, mtime : 0..MaxEdits], clock' \in 0..MaxEdits,
         file'.mtime = clock', clock' >= clock, clock' = clock => content = Gone
  PROVE  CacheInv'
<1>0. clock \in 0..MaxEdits /\ file'.content = content /\ entries' = entries /\ me \in [Procs -> State]
  BY DEF CacheInv, Shown
<1>1. \A v : \A m \in 0..MaxEdits : Known(m, v, file, clock) => Known(m, v, file', clock')
  BY <1>0, BoundsAssumption DEF Known
<1>2. DOMAIN entries' = Keys /\ entries' = [j \in Keys |-> entries'[j]]
  BY <1>0 DEF CacheInv
<1>3. \A e : WikiKept(e, file, clock) => WikiKept(e, file', clock')
  BY <1>1 DEF WikiKept, WikiEntry, Meta
<1>4. \A k \in Keys : EntryOk(k, entries'[k], file', clock')
  BY <1>0, <1>3 DEF CacheInv, EntryOk
<1>5. me' \in [Procs -> State]
  <2>1. \A p \in Procs : [me[p] EXCEPT !.seen = @ \cup {content}] \in State
    BY <1>0 DEF State
  <2> QED BY <1>0, <2>1 DEF Shown
<1>6. ASSUME NEW p \in Procs PROVE WikiOk(me'[p], file', clock') /\ OutOk(me'[p])
  <2>1. WikiOk(me[p], file, clock) /\ OutOk(me[p]) /\ me[p] \in State
    BY DEF CacheInv
  <2>2. CASE me[p].phase = "wiki" /\ Active(p)
    <3> DEFINE n == [me[p] EXCEPT !.seen = @ \cup {content}]
    <3>1. /\ n.pc = me[p].pc /\ n.phase = "wiki" /\ n.mtime = me[p].mtime /\ n.hash = me[p].hash
          /\ n.value = me[p].value /\ n.cached = me[p].cached /\ n.again = me[p].again
          /\ n.seen = me[p].seen \cup {content}
      BY <2>1, <2>2 DEF State
    <3>2. me'[p] = n
      BY <2>2 DEF Shown
    <3> HIDE DEF n
    <3>3. n.pc \notin {"stat", "returned"} => n.mtime <= clock'
      BY <1>0, <2>1, <2>2, <3>1, BoundsAssumption DEF WikiOk, Active, At, State
    <3>4. n.pc \in {"truncate", "fill"} =>
            n.value \in Texts /\ n.value \in n.seen /\ Known(n.mtime, n.value, file', clock')
      BY <1>1, <2>1, <2>2, <3>1 DEF WikiOk, Active, State
    <3>5. n.pc \in {"exists", "restat", "reread"} =>
            n.cached \in WikiEntry /\ Known(n.cached.meta.mtime, n.cached.value, file', clock')
      BY <1>1, <2>1, <2>2, <3>1 DEF WikiOk, Active, WikiEntry, Meta
    <3>6. /\ n.pc \notin {"stat", "read", "returned"} => n.hash \in Contents
          /\ n.pc = "reread" /\ n.again = n.cached.meta.mtime => n.cached.value \in n.seen
          /\ n.pc = "returned" => n.value \in n.seen
      BY <2>1, <2>2, <3>1 DEF WikiOk, Active
    <3>7. WikiOk(n, file', clock') /\ OutOk(n)
      BY <1>0, <3>1, <3>3, <3>4, <3>5, <3>6 DEF WikiOk, OutOk
    <3> QED BY <3>2, <3>7
  <2>3. CASE ~(me[p].phase = "wiki" /\ Active(p))
    <3>1. me'[p] = me[p]
      BY <2>3 DEF Shown
    <3> QED BY <2>1, <2>3, <3>1 DEF WikiOk, Active
  <2> QED BY <2>2, <2>3
<1> QED BY <1>2, <1>4, <1>5, <1>6 DEF CacheInv

LEMMA EditStep ==
  ASSUME CacheInv, Edit PROVE CacheInv'
<1>0. clock \in 0..MaxEdits
  BY DEF CacheInv
<1>1. PICK c \in Contents : file' = [content |-> c, mtime |-> clock + 1] /\ Shown(c)
  BY DEF Edit
<1>2. clock' = clock + 1 /\ clock' \in 0..MaxEdits /\ c \in Texts
  BY <1>0, BoundsAssumption DEF Edit, Texts
<1> QED BY <1>0, <1>1, <1>2, UserStep, BoundsAssumption

LEMMA RemoveStep ==
  ASSUME CacheInv, Remove PROVE CacheInv'
<1>0. clock \in 0..MaxEdits /\ file \in [content : Texts, mtime : 0..MaxEdits] /\ file.mtime = clock
  BY DEF CacheInv
<1>1. Gone \in Texts /\ Shown(Gone) /\ clock' = clock
  BY DEF Remove, Texts
<1>2. file' \in [content : Texts, mtime : 0..MaxEdits] /\ file'.mtime = clock'
  BY <1>0, <1>1 DEF Remove
<1> QED BY <1>0, <1>1, <1>2, UserStep, BoundsAssumption

LEMMA InvNext ==
  ASSUME CacheInv, [Next]_vars PROVE CacheInv'
<1>1. CASE UNCHANGED vars
  BY <1>1 DEF vars, CacheInv
<1>2. CASE Edit
  BY <1>2, EditStep
<1>3. CASE Remove
  BY <1>3, RemoveStep
<1>4. ASSUME NEW p \in Procs, Step(p) PROVE CacheInv'
  <2>1. CASE Crash(p) \/ Finish(p)
    BY <2>1, Throws DEF Crash, Finish
  <2> QED BY <1>4, <2>1, ExploreStep, PlanStep, AskStep, StatStep, ReadStep, GetStep, CheckStep,
            RestatStep, RereadStep, ProduceTextStep, ProduceOutputStep, TruncateStep, FillStep
            DEF Step
<1> QED BY <1>1, <1>2, <1>3, <1>4 DEF Next

LEMMA InvInit ==
  ASSUME Init PROVE CacheInv
<1>1. file \in [content : Texts, mtime : 0..MaxEdits] /\ clock \in 0..MaxEdits /\ file.mtime = clock
  BY BoundsAssumption DEF Init
<1>2. DOMAIN entries = Keys /\ entries = [k \in Keys |-> entries[k]]
  BY DEF Init
<1>3. \A k \in Keys : EntryOk(k, entries[k], file, clock)
  BY DEF Init, EntryOk
<1>4. me \in [Procs -> State]
  BY IdleIsTyped DEF Init
<1>5. WikiOk(Idle, file, clock) /\ OutOk(Idle)
  BY DEF WikiOk, OutOk, Idle
<1> QED BY <1>1, <1>2, <1>3, <1>4, <1>5 DEF Init, CacheInv

(* What a process and the cache hold is tied to the file and to the keys   *)
(* (reusable.ts, invalidation.ts).                                         *)
THEOREM CacheInvariant == Spec => []CacheInv
BY InvInit, InvNext, PTL DEF Spec

(* A text of the wiki is one the file had while the lookup ran: whatever   *)
(* edits and other processes fall between the steps of the check, an entry *)
(* that is out of date is never served (invalidation.ts).                  *)
THEOREM NoStaleWiki == Spec => []WikiIsFresh
<1>1. CacheInv => TypeOK
  <2> SUFFICES ASSUME CacheInv PROVE TypeOK
    OBVIOUS
  <2>1. \A k \in Keys : entries[k] \in {Absent, Torn} \cup
                          (IF k = <<"wiki">> THEN WikiEntry ELSE OutEntry)
    BY KeysApart DEF CacheInv, EntryOk, WikiKept, OutKept
  <2>2. \A p \in Procs : me[p].prompt \in Prompts /\ me[p].seen \subseteq Texts
    BY DEF CacheInv, State
  <2> QED BY <2>1, <2>2 DEF TypeOK, CacheInv
<1>2. CacheInv => WikiIsFresh
  BY <1>1 DEF CacheInv, WikiIsFresh, WikiOk, At
<1> QED BY <1>2, CacheInvariant, PTL

(* explore's output is the answer to the command's own prompt, plan's to   *)
(* one of the same snapshot and session context, whatever the project's    *)
(* context said; one that waits for a human is not served again            *)
(* (reusable.ts, explore.ts, plan.ts).                                     *)
THEOREM AnswersAreForThePrompt == Spec => []OutputIsForPrompt
<1>1. CacheInv => OutputIsForPrompt
  BY DEF CacheInv, OutputIsForPrompt, OutOk, At
<1> QED BY <1>1, CacheInvariant, PTL
=============================================================================
