--------------------------------- MODULE Chat ---------------------------------
(***************************************************************************)
(* slad's shell: a prompt that completes commands, agent mode, and the     *)
(* stage commands it runs inside of itself.  packages/cli: commands/chat.ts *)
(* and slash.ts.  Each model call of a command is a child process, as in   *)
(* CliProcess, that the command waits for.                                 *)
(*                                                                         *)
(* The shell holds a copy of the active session, from which it proposes    *)
(* commands; the commands read the session themselves.  Another terminal   *)
(* may create a session, or work on the one there is.                      *)
(***************************************************************************)
EXTENDS CliProcess, Naturals, Sequences

CONSTANTS
  Catalog,      \* the commands, in order: id, the texts that name it, the
                \* texts whose search finds it, and what it requires
  Texts,        \* what may stand at the prompt
  Longer,       \* by text: the texts that one more key makes of it
  Plain,        \* the texts that are a message
  Intents,      \* the texts that ask for an explore of what they say
  MaxSessions,  \* bound: the sessions
  MaxForeign,   \* bound: what the other terminal does
  Nothing

(* The two texts that the shell knows by themselves.                       *)
NoText == ""
Slash  == "/"

Commands == {Catalog[i].id : i \in DOMAIN Catalog}

ShellStages == {"explore", "auto", "plan", "run"}

Kinds == {"explore", "plan"}

ASSUME CatalogAssumption ==
  /\ Catalog \in Seq({Catalog[i] : i \in DOMAIN Catalog}) /\ ShellStages \subseteq Commands
  /\ Plain \subseteq Texts
  /\ \A i \in DOMAIN Catalog : Catalog[i].insertion \in Texts
ASSUME TextsAssumption == NoText \in Texts /\ \A text \in Texts : Longer[text] \subseteq Texts
ASSUME ShellAssumption == MaxSessions \in Nat \ {0} /\ MaxForeign \in Nat

VARIABLES
  pc,           \* prompt, palette, ask, begin, call, or left
  prompt,       \* what is typed, the highlighted suggestion, Escape pressed
  agent,        \* whether an agent is active
  held,         \* the session as the shell has it, or Nothing
  disk,         \* the sessions: by number, the kinds of their artifacts that
                \* a command asks for
  active,       \* the number of the active one, 0 for none
  command,      \* the command under way: what it is, and of which session
  open,         \* the sessions with a run of the shell on record as running
  unwritten,    \* history: those of which that is for a write that failed
  why,          \* what ended the shell
  foreign,      \* what the other terminal has done
  stale         \* whether it has, since the shell last looked

chatVars ==
  <<pc, prompt, agent, held, disk, active, command, open, unwritten, why, foreign, stale>>
shellVars == <<chatVars, callVars>>

OnDisk == IF active = 0 THEN Nothing ELSE [id |-> active, arts |-> disk[active]]

Empty == [text |-> NoText, selected |-> 1, closed |-> FALSE]
Idle  == [what |-> Nothing, session |-> 0]

ShellInit ==
  /\ CallInit
  /\ pc = "prompt" /\ prompt = Empty /\ agent = FALSE
  /\ \/ disk = <<>> /\ active = 0
     \/ \E arts \in {{}, Kinds} : disk = <<arts>> /\ active = 1
  /\ held = OnDisk
  /\ command = Idle /\ open = {} /\ unwritten = {} /\ why = Nothing /\ foreign = 0 /\ stale = FALSE

(***************************************************************************)
(* slash.ts: which commands there are for a session, which of them a text  *)
(* finds, and which one it names.  What is named may not be available.     *)
(***************************************************************************)
IsAvailable(c, s) ==
  /\ c.needsSession => s # Nothing
  /\ c.needsPlan => s # Nothing /\ "plan" \in s.arts

Finds(text, s, c) == IsAvailable(c, s) /\ text \in c.found

(* searchCliSlashCommands, among the available ones, in their order.       *)
SearchAvailable(text, s) ==
  LET found[n \in 0..Len(Catalog)] ==
        IF n = 0 THEN <<>>
        ELSE IF Finds(text, s, Catalog[n]) THEN Append(found[n-1], Catalog[n])
        ELSE found[n-1]
  IN  found[Len(Catalog)]

FindCommand(text) == {Catalog[i] : i \in {j \in DOMAIN Catalog : text \in Catalog[j].names}}

(* The handlers that answer with a message and do nothing.                 *)
HasLocalAction(id, s) ==
  /\ id \notin {"ask", "chat"}
  /\ id \in {"auto", "explore"} => s # Nothing

(***************************************************************************)
(* The prompt.                                                             *)
(***************************************************************************)
Suggestions(p) == IF p.closed \/ p.text \in Plain THEN <<>> ELSE SearchAvailable(p.text, held)

ClampSelection(k, count) == IF k > count \/ count = 0 THEN 1 ELSE IF k < 1 THEN count ELSE k

(* A mutant: the highlight stays where it was.                             *)
RecomputeSuggestionsOnly(text, closed) ==
  [text |-> text, closed |-> closed, selected |-> prompt.selected]

(* recompute                                                               *)
Recompute(text, closed) ==
  LET p == [text |-> text, closed |-> closed, selected |-> prompt.selected]
  IN [p EXCEPT !.selected = ClampSelection(@, Len(Suggestions(p)))]

Proposed == Suggestions(prompt)
Pick  == Proposed[prompt.selected]

Key(p) == pc = "prompt" /\ prompt' = p

Type      == \E text \in Longer[prompt.text] : Key(Recompute(text, FALSE))
Backspace == \E text \in Texts : prompt.text \in Longer[text] /\ Key(Recompute(text, FALSE))
Clear     == Key(Recompute(NoText, FALSE))
Tab       == Proposed # <<>> /\ Key(Recompute(Pick.insertion, FALSE))
Escape    == Proposed # <<>> /\ Key(Recompute(prompt.text, TRUE))
UpDown ==
  /\ Proposed # <<>>
  /\ \E k \in {prompt.selected - 1, prompt.selected + 1} :
       Key([prompt EXCEPT !.selected = ClampSelection(k, Len(Proposed))])

PromptKey ==
  /\ Type \/ Backspace \/ Clear \/ Tab \/ Escape \/ UpDown
  /\ UNCHANGED <<callVars, pc, agent, held, disk, active, command, open, unwritten, why,
                 foreign, stale>>

(* Enter applies what is highlighted, whatever was typed.                  *)
Submitted == IF Proposed # <<>> THEN Pick.insertion ELSE prompt.text

(***************************************************************************)
(* What a command leaves the shell with.                                   *)
(***************************************************************************)
(* A mutant: the shell trusts its copy once it has one.                    *)
RefreshOnce ==
  /\ held' = IF held # Nothing \/ active' = 0 THEN held ELSE [id |-> active', arts |-> disk'[active']]
  /\ stale' = FALSE

(* getActiveSessionId() ? getActiveSession() : session                     *)
Refresh ==
  /\ held' = IF active' = 0 THEN held ELSE [id |-> active', arts |-> disk'[active']]
  /\ stale' = FALSE

Back == pc' = "prompt" /\ prompt' = Empty /\ command' = Idle /\ Refresh

Leave(how) ==
  /\ pc' = "left" /\ why' = how
  /\ UNCHANGED <<held, stale, command, agent, disk, active, open, unwritten, foreign>>

CreateSession ==
  /\ Len(disk) < MaxSessions
  /\ disk' = Append(disk, {}) /\ active' = Len(disk) + 1

(***************************************************************************)
(* Enter.                                                                  *)
(***************************************************************************)
Enter(A) == pc = "prompt" /\ A /\ UNCHANGED <<foreign, callVars>>

Quiet == UNCHANGED <<disk, active, open, unwritten, why>>
Begin(what) ==
  /\ pc' = "begin" /\ prompt' = Empty /\ command' = [Idle EXCEPT !.what = what]
  /\ UNCHANGED <<held, stale, agent, open, unwritten, why>>

(* Nothing happens but a message; what goes through executeAction looks at *)
(* the session again.                                                      *)
Message ==
  Enter(\E c \in FindCommand(Submitted) :
    /\ ~HasLocalAction(c.id, held)
    /\ prompt' = Empty /\ agent' = (agent /\ c.id # "chat")
    /\ Quiet /\ UNCHANGED <<pc, held, command, stale>>)

(* What is asked of the shell itself.  The handlers of status, stats,      *)
(* version and model run outside of safeCall: what they throw, a cancelled *)
(* question too, ends the shell.                                           *)
Inform ==
  Enter(
    \/ /\ \/ Submitted = NoText
          \/ Submitted \notin Plain \cup Intents \cup {Slash} /\ FindCommand(Submitted) = {}
       /\ Quiet /\ UNCHANGED agent /\ Back
    \/ \E c \in FindCommand(Submitted) :
         /\ HasLocalAction(c.id, held) /\ c.id \notin ShellStages \cup {"agents", "new", "exit"}
         /\ \/ Quiet /\ UNCHANGED agent /\ Back
            \/ c.id # "help" /\ Leave("thrown") /\ UNCHANGED prompt)

Named(id) == \E c \in FindCommand(Submitted) : c.id = id /\ HasLocalAction(id, held)

Agents ==
  Enter(/\ Named("agents") /\ agent' \in {agent, TRUE} /\ prompt' = Empty
        /\ Quiet /\ UNCHANGED <<pc, held, command, stale>>)

(* Outside of safeCall: a question that is cancelled ends the shell.       *)
NewSession ==
  Enter(/\ Named("new")
        /\ \/ CreateSession /\ Back /\ UNCHANGED <<agent, open, unwritten, why>>
           \/ Quiet /\ UNCHANGED agent /\ Back
           \/ Leave("thrown") /\ UNCHANGED prompt)

Exit == Enter(Named("exit") /\ Leave("exit") /\ UNCHANGED prompt)

CtrlC == Enter(Leave("ctrl-c") /\ UNCHANGED prompt)

(* explore with an intent makes a session when the shell has none.         *)
StageCommand ==
  Enter(
    \/ \E what \in ShellStages : Named(what) /\ Begin(what) /\ UNCHANGED <<disk, active>>
    \/ /\ Submitted \in Intents /\ Begin("explore")
       /\ IF held = Nothing THEN CreateSession ELSE UNCHANGED <<disk, active>>
    \/ Submitted \in Plain /\ agent /\ Begin("auto") /\ UNCHANGED <<disk, active>>)

(* A message goes to the model: a long one to be classified first.         *)
Ask ==
  /\ pc = "prompt" /\ Submitted \in Plain /\ ~agent
  /\ \E what \in {"chat", "classify"} : command' = [Idle EXCEPT !.what = what]
  /\ pc' = "call" /\ prompt' = Empty /\ Spawn
  /\ Quiet /\ UNCHANGED <<agent, held, foreign, stale>>

OpenPalette ==
  Enter(/\ Submitted = Slash /\ pc' = "palette" /\ prompt' = Empty
        /\ Quiet /\ UNCHANGED <<agent, held, command, stale>>)

Palette ==
  /\ pc = "palette" /\ pc' = "prompt"
  /\ \/ UNCHANGED prompt
     \/ \E i \in DOMAIN SearchAvailable(Slash, held) :
          prompt' = [Empty EXCEPT !.text = SearchAvailable(Slash, held)[i].insertion]
  /\ UNCHANGED <<callVars, agent, held, disk, active, command, open, unwritten, why, foreign,
                 stale>>

(***************************************************************************)
(* A stage command.  One call stands for all of its calls.                 *)
(***************************************************************************)
Arts == IF active = 0 THEN {} ELSE disk[active]

(* What it needs of the session that it reads.                             *)
Admitted(what) ==
  CASE what = "plan" -> "explore" \in Arts
    [] what = "run"  -> "plan" \in Arts
    [] what = "auto" -> "plan" \notin Arts
    [] OTHER         -> active # 0

Refused ==
  /\ pc = "begin" /\ ~Admitted(command.what)
  /\ UNCHANGED <<callVars, agent, disk, active, open, unwritten, why, foreign>> /\ Back

(* run and auto keep a manifest.                                           *)
KeepsManifest(what) == what \in {"run", "auto"}

(* A run that is still open on the session's record is marked interrupted, *)
(* and a new one opened; any of these writes may fail.                     *)
Unstarted ==
  /\ pc = "begin" /\ Admitted(command.what) /\ KeepsManifest(command.what)
  /\ IF active = 0 THEN CreateSession ELSE UNCHANGED <<disk, active>>
  /\ open' \in {open, open \ {active'}, open \cup {active'}}
  /\ unwritten' = (unwritten \cap open') \cup (open' \ open)
  /\ UNCHANGED <<callVars, agent, why, foreign>> /\ Back

Start ==
  /\ pc = "begin" /\ Admitted(command.what)
  /\ IF active = 0 THEN CreateSession ELSE UNCHANGED <<disk, active>>
  /\ command' = [command EXCEPT !.session = active']
  /\ IF KeepsManifest(command.what)
     THEN open' = open \cup {active'} /\ unwritten' = unwritten \ {active'}
     ELSE UNCHANGED <<open, unwritten>>
  /\ pc' = "call" /\ Spawn
  /\ UNCHANGED <<prompt, agent, held, why, foreign, stale>>

Makes(what) ==
  CASE what = "auto" -> Kinds
    [] what \in Kinds -> {what}
    [] OTHER -> {}

CallSettled == pc = "call" /\ call \in {"resolved", "rejected", "timedOut"}

(* The artifacts are saved, or the command throws or calls process.exit:   *)
(* safeCall has put a throw in its place.  The manifest is closed, unless  *)
(* a write of it fails: of a running one, which auto lets through, or the  *)
(* last, which nobody makes up for.                                        *)
SafeCall ==
  /\ CallSettled /\ command.what # "classify"
  /\ \/ call = "resolved" /\ command.session # 0
        /\ disk' = [disk EXCEPT ![command.session] = @ \cup Makes(command.what)]
     \/ UNCHANGED disk
  /\ \/ ~KeepsManifest(command.what) /\ UNCHANGED <<open, unwritten>>
     \/ KeepsManifest(command.what) /\ open' = open \ {command.session} /\ UNCHANGED unwritten
     \/ KeepsManifest(command.what) /\ unwritten' = unwritten \cup {command.session} /\ UNCHANGED open
  /\ UNCHANGED <<active, agent, why, foreign>> /\ Back /\ Take

(* Of a message that asks for work, the user is asked whether to go on.    *)
Classified ==
  /\ CallSettled /\ command.what = "classify"
  /\ \/ /\ command' = [command EXCEPT !.what = "chat"] /\ Spawn
        /\ UNCHANGED <<pc, prompt, agent, held, disk, active, open, unwritten, why, foreign, stale>>
     \/ /\ call = "resolved" /\ Begin("auto") /\ Take
        /\ UNCHANGED <<disk, active, foreign>>
     \/ /\ call = "resolved" /\ Leave("thrown") /\ Take
        /\ UNCHANGED prompt

(* The shell's own handler of SIGINT, which comes before that of a run.    *)
Signal ==
  /\ pc \in {"begin", "call"} /\ Leave("signal")
  /\ UNCHANGED <<callVars, prompt>>

(***************************************************************************)
(* The rest of the world.                                                  *)
(***************************************************************************)
Foreign ==
  /\ foreign < MaxForeign /\ foreign' = foreign + 1 /\ stale' = TRUE
  /\ \/ CreateSession
     \/ /\ active # 0 /\ UNCHANGED active
        /\ \E kind \in Kinds : disk' = [disk EXCEPT ![active] = @ \cup {kind}]
     \/ active' \in DOMAIN disk /\ UNCHANGED disk
  /\ UNCHANGED <<callVars, pc, prompt, agent, held, command, open, unwritten, why>>

Outside(A) == A /\ UNCHANGED chatVars

Shell == Refused \/ Unstarted \/ Start \/ SafeCall \/ Classified

ShellNext ==
  \/ PromptKey
  \/ Message \/ Inform \/ Agents \/ NewSession \/ Exit \/ CtrlC
  \/ StageCommand \/ Ask \/ OpenPalette \/ Palette
  \/ Shell \/ Signal \/ Foreign
  \/ Outside(Processes) \/ Outside(CallSteps)

ShellSpec == ShellInit /\ [][ShellNext]_shellVars

(* What was started goes on, timers fire, and the user who is asked        *)
(* answers; no process has to end by itself.                               *)
FairSpec ==
  /\ ShellSpec /\ WF_shellVars(Shell)
  /\ WF_shellVars(Outside(Timeout)) /\ WF_shellVars(Outside(Kill)) /\ WF_shellVars(Outside(Close))

(***************************************************************************)
(* What has to be true.                                                    *)
(***************************************************************************)
(* What the shell proposes next is about the session as its commands have  *)
(* left it, whichever of them ran and however it ended; and the highlight  *)
(* is on a suggestion whenever there are some, through typing, completing, *)
(* closing and scrolling: Enter picks what it is on.                       *)
HeldIsCurrent ==
  /\ prompt.text \in Texts
  /\ pc = "prompt" => /\ ~stale => held = OnDisk
                      /\ Proposed # <<>> => prompt.selected \in DOMAIN Proposed

(* When the prompt is back, the child that a command waited for has ended  *)
(* and nobody writes to its pipe, also after a timeout, a failure or       *)
(* process.exit; and a run of the shell that is on record as running, of   *)
(* whatever session and however many commands ago, is one whose manifest   *)
(* could not be written.                                                   *)
PromptIsQuiet ==
  pc = "prompt" => leader # "running" /\ helper # "holding" /\ open \subseteq unwritten

(* Not so: that no run is left running when the prompt is back.  A write   *)
(* of its manifest that fails leaves it so (run.ts:1279 and 1294,          *)
(* auto.ts:406-562), until the session is run again.                       *)
NoRunIsOpen == pc = "prompt" => open = {}

(* A command that was begun comes back to the prompt, whatever its child   *)
(* does and whether it returns, exits or throws, but for a signal, and for *)
(* a helper that holds the pipe of a leader that has exited.               *)
CommandReturns ==
  pc \in {"begin", "call"} ~> pc = "prompt" \/ why \in {"signal", "thrown"} \/ Stuck

(* The code does not do this.  Enter on the whole name of a command that   *)
(* is available runs that command: "/chat para volver al chat"             *)
(* (chat.ts:766).  It runs the first one whose category, title or keywords *)
(* contain the text (chat.ts:312).                                         *)
WholeNameRunsIt ==
  pc = "prompt" /\ prompt.selected = 1 =>
    \A c \in FindCommand(prompt.text) :
      IsAvailable(c, held) => FindCommand(Submitted) = {c}

(* The code does not do this.  "the first signal aborts the scope and      *)
(* notifies listeners; it never calls process.exit" (interrupt.ts:6): a    *)
(* run in the shell is closed when it is interrupted.                      *)
FirstSignalUnwinds == why = "signal" => open \subseteq unwritten
=============================================================================
