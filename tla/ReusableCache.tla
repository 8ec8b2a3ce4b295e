--------------------------- MODULE ReusableCache ---------------------------
(***************************************************************************)
(* Values kept between invocations of slad: packages/cache (reusable.ts,   *)
(* invalidation.ts, keys.ts, the store on disk) as explore and plan use it.*)
(* explore looks up what the wiki says, by the file it is read from, and   *)
(* then its own output, by the prompt that it has made of it; plan looks   *)
(* up its output by the snapshot and the session's context, not by the     *)
(* project context that goes into the prompt with them.                    *)
(*                                                                         *)
(* The processes share the files and take no lock; every system call of a  *)
(* lookup is a step.                                                       *)
(***************************************************************************)
EXTENDS Naturals, FiniteSets

CONSTANTS
  Procs,        \* invocations of slad, each gives one command
  Contents,     \* what the file may say: the wiki's index, or the context
  Snapshots,    \* what a plan may be asked for: a snapshot and the session's context
  MaxAtOnce,    \* bound: the invocations under way at a time
  MaxEdits,     \* bound: the times the file is written or removed
  Gone, Absent, Torn

ASSUME MarksAssumption == {Gone, Absent, Torn} \cap Contents = {} /\ Gone # Absent /\ Torn # Absent
ASSUME BoundsAssumption == MaxEdits \in Nat /\ MaxAtOnce \in Nat

VARIABLES
  file,         \* the file: what it says, and the time it was written
  clock,        \* the time of the last write of it
  entries,      \* the files of the cache, by key
  me            \* every invocation: where it is and what it holds

vars == <<file, clock, entries, me>>

Texts == Contents \cup {Gone}
Keys == {<<"wiki">>} \cup ({"explore"} \X Texts) \cup ({"plan"} \X Snapshots)

(* The relevant file of an entry is recorded by its time and its hash; an  *)
(* output has none.  An output is known by the prompt it is the answer to. *)
Meta == [mtime : 0..MaxEdits, hash : Contents]
WikiEntry == [meta : Meta, value : Texts]
Prompts == [text : Texts, about : Snapshots \cup {Absent}]
OutEntry == [prompt : Prompts, status : {"completed", "awaiting_human"}]

(* A mutant: the answer is known by what was asked, whatever the context.  *)
KeyByIntent(m) == IF m.phase = "wiki" THEN <<"wiki">>
                  ELSE IF m.phase = "plan" THEN <<"plan", m.prompt.about>>
                  ELSE <<"explore", Gone>>

(* snapshotHash and inputSignature: all that tells two lookups apart.      *)
Key(m) == CASE m.phase = "wiki" -> <<"wiki">>
            [] m.phase = "explore" -> <<"explore", m.prompt.text>>
            [] m.phase = "plan" -> <<"plan", m.prompt.about>>

Nothing == [text |-> Gone, about |-> Absent]

(* seen is for the properties: what the file has said during the lookup.   *)
Idle == [pc |-> "idle", phase |-> "wiki", prompt |-> Nothing, mtime |-> 0,
         hash |-> Absent, cached |-> Absent, again |-> 0, value |-> Absent, how |-> "miss",
         seen |-> {}]

Init ==
  /\ file \in [content : Texts, mtime : {0}]
  /\ clock = 0
  /\ entries = [k \in Keys |-> Absent]
  /\ me = [p \in Procs |-> Idle]

At(p, pc) == me[p].pc = pc
Goto(p, pc) == me' = [me EXCEPT ![p].pc = pc]
Throw(p) == me' = [me EXCEPT ![p] = [Idle EXCEPT !.pc = "done"]]
Active(p) == me[p].pc \notin {"idle", "done"}
Exists == file.content # Gone

(* The lookup has its value; explore goes on to its output from there.     *)
Return(p, value, how) ==
  me' = [me EXCEPT ![p] =
    [Idle EXCEPT !.pc = "returned", !.phase = me[p].phase, !.prompt = me[p].prompt,
                 !.value = value, !.how = how, !.seen = me[p].seen]]

(***************************************************************************)
(* A command asks.                                                         *)
(***************************************************************************)
Begins(p) == At(p, "idle") /\ Cardinality({q \in Procs : Active(q)}) < MaxAtOnce

Explore(p) ==
  /\ Begins(p)
  /\ me' = [me EXCEPT ![p] =
       IF Exists THEN [Idle EXCEPT !.pc = "stat", !.seen = {file.content}]
       ELSE [Idle EXCEPT !.pc = "returned", !.value = Gone, !.seen = {Gone}]]
  /\ UNCHANGED <<file, clock, entries>>

Plan(p) ==
  /\ Begins(p)
  /\ \E s \in Snapshots :
       me' = [me EXCEPT ![p] = [Idle EXCEPT !.pc = "get", !.phase = "plan",
                !.prompt = [text |-> file.content, about |-> s]]]
  /\ UNCHANGED <<file, clock, entries>>

(* The wiki's text is part of the prompt of explore.                       *)
Ask(p) ==
  /\ At(p, "returned") /\ me[p].phase = "wiki"
  /\ me' = [me EXCEPT ![p] = [Idle EXCEPT !.pc = "get", !.phase = "explore",
              !.prompt = [text |-> me[p].value, about |-> Absent]]]
  /\ UNCHANGED <<file, clock, entries>>

Finish(p) ==
  /\ At(p, "returned") /\ me[p].phase # "wiki" /\ Throw(p)
  /\ UNCHANGED <<file, clock, entries>>

(***************************************************************************)
(* createReusableCacheMetadata: the file as it is before the value is made.*)
(* It throws when the file has vanished since it was found.                *)
(***************************************************************************)
Stat(p) ==
  /\ At(p, "stat")
  /\ IF Exists THEN me' = [me EXCEPT ![p].pc = "read", ![p].mtime = file.mtime]
     ELSE Throw(p)
  /\ UNCHANGED <<file, clock, entries>>

Read(p) ==
  /\ At(p, "read")
  /\ IF Exists THEN me' = [me EXCEPT ![p].pc = "get", ![p].hash = file.content]
     ELSE Throw(p)
  /\ UNCHANGED <<file, clock, entries>>

Miss(p) == me' = [me EXCEPT ![p].pc = "produce", ![p].cached = Absent, ![p].again = 0]

(* An entry that was cut short does not parse, and nothing catches that.   *)
Get(p) ==
  LET entry == entries[Key(me[p])] IN
  /\ At(p, "get")
  /\ CASE entry = Absent -> Miss(p)
       [] entry = Torn -> Throw(p)
       [] entry \notin {Absent, Torn} ->
            IF me[p].phase = "wiki"
            THEN me' = [me EXCEPT ![p].pc = "exists", ![p].cached = entry]
            ELSE Return(p, entry, "hit")
  /\ UNCHANGED <<file, clock, entries>>

(***************************************************************************)
(* evaluateReusableCacheEntry: the file has to be what the entry recorded. *)
(***************************************************************************)
Check(p) ==
  /\ At(p, "exists") /\ IF Exists THEN Goto(p, "restat") ELSE Miss(p)
  /\ UNCHANGED <<file, clock, entries>>

Restat(p) ==
  /\ At(p, "restat")
  /\ IF Exists THEN me' = [me EXCEPT ![p].pc = "reread", ![p].again = file.mtime]
     ELSE Miss(p)
  /\ UNCHANGED <<file, clock, entries>>

(* A mutant: the hash alone decides.                                       *)
ReusableByHash(cached, mtime, content) == cached.meta.hash = content

Reusable(cached, mtime, content) ==
  cached.meta.mtime = mtime /\ cached.meta.hash = content

Reread(p) ==
  /\ At(p, "reread")
  /\ IF Exists /\ Reusable(me[p].cached, me[p].again, file.content)
     THEN Return(p, me[p].cached.value, "hit") ELSE Miss(p)
  /\ UNCHANGED <<file, clock, entries>>

(***************************************************************************)
(* The value is made, and kept when it may be.                             *)
(***************************************************************************)
(* A mutant: whatever the model said is kept.                              *)
CacheableAlways(output) == TRUE

Cacheable(output) == output.status = "completed"

(* The reader of the wiki gives null for a file that has vanished; null is *)
(* kept as well.                                                           *)
ProduceText(p) ==
  /\ At(p, "produce") /\ me[p].phase = "wiki"
  /\ me' = [me EXCEPT ![p].pc = "truncate", ![p].value = file.content]
  /\ UNCHANGED <<file, clock, entries>>

ProduceOutput(p) ==
  /\ At(p, "produce") /\ me[p].phase # "wiki"
  /\ \/ Throw(p)
     \/ \E status \in {"completed", "awaiting_human"} :
          LET output == [prompt |-> me[p].prompt, status |-> status] IN
            IF Cacheable(output)
            THEN me' = [me EXCEPT ![p].pc = "truncate", ![p].value = output]
            ELSE Return(p, output, "miss")
  /\ UNCHANGED <<file, clock, entries>>

(* writeFileSync opens the entry with O_TRUNC, then writes it.  When       *)
(* another has written in between, what is left of a longer one follows.   *)
Truncate(p) ==
  /\ At(p, "truncate")
  /\ entries' = [entries EXCEPT ![Key(me[p])] = Torn]
  /\ Goto(p, "fill")
  /\ UNCHANGED <<file, clock>>

Mine(p) == IF me[p].phase = "wiki"
           THEN [meta |-> [mtime |-> me[p].mtime, hash |-> me[p].hash], value |-> me[p].value]
           ELSE me[p].value

Fill(p) ==
  LET key == Key(me[p]) IN
  /\ At(p, "fill")
  /\ \E left \in IF entries[key] \in {Torn, Mine(p)} THEN {Mine(p)} ELSE {Mine(p), Torn} :
       entries' = [entries EXCEPT ![key] = left]
  /\ Return(p, me[p].value, "miss")
  /\ UNCHANGED <<file, clock>>

Crash(p) ==
  /\ Active(p) /\ Throw(p)
  /\ UNCHANGED <<file, clock, entries>>

(***************************************************************************)
(* The user: a file that is written has a time of its own.                 *)
(***************************************************************************)
Shown(content) ==
  /\ file'.content = content
  /\ me' = [p \in Procs |->
       IF me[p].phase = "wiki" /\ Active(p)
       THEN [me[p] EXCEPT !.seen = @ \cup {content}] ELSE me[p]]
  /\ UNCHANGED entries

Edit ==
  /\ clock < MaxEdits /\ clock' = clock + 1
  /\ \E c \in Contents :
       file' = [content |-> c, mtime |-> clock + 1] /\ Shown(c)

Remove ==
  /\ Exists /\ file' = [file EXCEPT !.content = Gone] /\ Shown(Gone)
  /\ UNCHANGED clock

Step(p) ==
  \/ Explore(p) \/ Plan(p) \/ Ask(p) \/ Finish(p)
  \/ Stat(p) \/ Read(p) \/ Get(p) \/ Check(p) \/ Restat(p) \/ Reread(p)
  \/ ProduceText(p) \/ ProduceOutput(p) \/ Truncate(p) \/ Fill(p)
  \/ Crash(p)

Next == Edit \/ Remove \/ \E p \in Procs : Step(p)

Spec == Init /\ [][Next]_vars

(***************************************************************************)
(* What has to be true.                                                    *)
(***************************************************************************)
(* The variables keep to their sets.                                       *)
TypeOK ==
  /\ file \in [content : Texts, mtime : 0..MaxEdits]
  /\ clock \in 0..MaxEdits
  /\ \A k \in Keys : entries[k] \in {Absent, Torn} \cup
                       (IF k = <<"wiki">> THEN WikiEntry ELSE OutEntry)
  /\ \A p \in Procs : me[p].prompt \in Prompts /\ me[p].seen \subseteq Texts

(* A text of the wiki, taken from the cache or not, is one the file had    *)
(* while the lookup was under way, and null only when it was gone: never   *)
(* an older one, however edits fall between the steps (invalidation.ts:85).*)
WikiIsFresh ==
  TypeOK /\ \A p \in Procs : At(p, "returned") /\ me[p].phase = "wiki" => me[p].value \in me[p].seen

(* An output of explore is the answer to the very prompt the command has   *)
(* made.  Of a plan less is claimed: it answers for the same snapshot and  *)
(* session context, and may have been made when the project's context said *)
(* something else (plan.ts:185-190).  An output that waits for a human is  *)
(* never served again: its questions are asked once (explore.ts:119).      *)
OutputIsForPrompt ==
  \A p \in Procs : At(p, "returned") =>
    /\ me[p].phase = "explore" => me[p].value.prompt = me[p].prompt
    /\ me[p].phase = "plan" => me[p].value.prompt.about = me[p].prompt.about
    /\ me[p].phase # "wiki" /\ me[p].how = "hit" => me[p].value.status = "completed"

(* --- Not so ------------------------------------------------------------ *)

(* The plan a command is given is the answer to the prompt it has made: the*)
(* project's context is a part of that prompt (plan.ts:180-184), and not of*)
(* the key, so a plan made before the context was edited is served.        *)
PlanIsForPrompt ==
  \A p \in Procs :
    At(p, "returned") /\ me[p].phase = "plan" => me[p].value.prompt = me[p].prompt
=============================================================================
