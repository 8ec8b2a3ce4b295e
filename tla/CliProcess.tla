------------------------------ MODULE CliProcess ------------------------------
(***************************************************************************)
(* One call of a coding agent: the child process of the CLI provider, with *)
(* its timeout.  packages/model-providers/cli.ts.                          *)
(*                                                                         *)
(* The child is the leader of a process group of its own.  The commands it *)
(* starts are in the group too; one of them stands for all, the helper.    *)
(* It may hold the pipe the answer is read from, and outlive the leader.   *)
(* No caller passes the abort signal that runCli accepts.                  *)
(***************************************************************************)

VARIABLES
  call,         \* none, waiting, resolved, rejected or timedOut
  leader,       \* none, running, exited (with a code) or killed (by a signal)
  code,         \* whether the code of a leader that exited was 0
  helper,       \* none, holding (the pipe) or quiet
  reason,       \* none, or timeout: what terminate was called for
  force         \* the timer of SIGKILL: unset, set or fired

callVars == <<call, leader, code, helper, reason, force>>

CallInit ==
  /\ call = "none" /\ leader = "none" /\ code = FALSE /\ helper = "none"
  /\ reason = "none" /\ force = "unset"

(* complete(): the child is spawned, or cannot be.                         *)
Spawn ==
  /\ call # "waiting"
  /\ \/ call' = "waiting" /\ leader' = "running"
     \/ call' = "rejected" /\ leader' = "none"
  /\ helper' = "none" /\ code' = FALSE /\ reason' = "none" /\ force' = "unset"

(***************************************************************************)
(* The processes.                                                          *)
(***************************************************************************)
StartHelper ==
  /\ leader = "running" /\ helper = "none" /\ helper' \in {"holding", "quiet"}
  /\ UNCHANGED <<call, leader, code, reason, force>>

HelperEnds ==
  /\ helper # "none" /\ helper' = "none"
  /\ UNCHANGED <<call, leader, code, reason, force>>

(* It exits by itself, be it because it was asked to; or SIGTERM ends it.  *)
LeaderEnds ==
  /\ leader = "running"
  /\ \/ leader' = "exited" /\ code' \in BOOLEAN
     \/ reason = "timeout" /\ leader' = "killed" /\ UNCHANGED code
  /\ UNCHANGED <<call, helper, reason, force>>

(***************************************************************************)
(* The timeout.  A process that has exited with a code is not signalled,   *)
(* and neither is what is left of its group; Node knows no code of one     *)
(* that a signal has ended.                                                *)
(***************************************************************************)
(* A mutant: nor is the group of a leader that a signal has ended.         *)
SignalledWhileRunning == leader = "running"

Signalled == leader # "exited"

(* terminate: SIGTERM to the group, and later SIGKILL.                     *)
Timeout ==
  /\ call = "waiting" /\ reason = "none" /\ leader # "exited"
  /\ reason' = "timeout" /\ force' = "set"
  /\ UNCHANGED <<call, leader, code, helper>>

Kill ==
  /\ call = "waiting" /\ force = "set" /\ force' = "fired"
  /\ IF Signalled
     THEN /\ leader' = IF leader = "running" THEN "killed" ELSE leader
          /\ helper' = "none"
     ELSE UNCHANGED <<leader, helper>>
  /\ UNCHANGED <<call, code, reason>>

Settle ==
  /\ call' = IF reason = "timeout" THEN "timedOut"
             ELSE IF leader = "exited" /\ code THEN "resolved" ELSE "rejected"
  /\ leader' = IF leader = "running" THEN leader ELSE "none"
  /\ code' = FALSE /\ reason' = "none" /\ force' = "unset"
  /\ UNCHANGED helper

(* A mutant: the promise is settled at once when the time is over.         *)
CloseAtTimeout ==
  /\ call = "waiting"
  /\ reason = "timeout" \/ (leader # "running" /\ helper # "holding")
  /\ Settle

(* The leader has ended and nobody holds the pipe: the timers are cleared. *)
Close ==
  /\ call = "waiting" /\ leader # "running" /\ helper # "holding"
  /\ Settle

(* The caller goes on with what the promise was settled with.              *)
Take ==
  /\ call \notin {"none", "waiting"} /\ call' = "none"
  /\ UNCHANGED <<leader, code, helper, reason, force>>

Processes == StartHelper \/ HelperEnds \/ LeaderEnds
CallSteps == Timeout \/ Kill \/ Close

(* The leader has exited, a helper that does not end holds the pipe, and   *)
(* the timeout reaches neither (cli.ts:58, 68).                            *)
Stuck == call = "waiting" /\ leader = "exited" /\ helper = "holding"

(* The code does not do this.  "enforcing abort/timeout on its complete    *)
(* process group" (cli.ts:30): when a call has timed out, nothing is left. *)
GroupIsEnded == call = "timedOut" => helper = "none"
=============================================================================
