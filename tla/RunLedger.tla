----------------------------- MODULE RunLedger -----------------------------
(***************************************************************************)
(* What a run promises to the commands that come after it, without its     *)
(* waves, workers and failures: a durable record that follows the          *)
(* integration branch merge by merge, and a durable count of dispatches    *)
(* that is never below the workers started.                                *)
(*                                                                         *)
(* ParallelRun implements it; SessionRuns runs on top of it.               *)
(***************************************************************************)
EXTENDS Naturals, Sequences

CONSTANTS Tasks, MaxTasks

VARIABLES
  integrated,   \* the integration branch: the tasks merged, in order
  recorded,     \* the tip on record
  reserved,     \* dispatches on record
  started,      \* workers started
  closed        \* the run is "open", or closed with an "exact" or "inexact" record

vars == <<integrated, recorded, reserved, started, closed>>

Init ==
  /\ integrated \in Seq(Tasks) /\ recorded = integrated
  /\ reserved \in 0..MaxTasks /\ started = reserved
  /\ closed = "open"

Reserve ==
  /\ closed = "open"
  /\ reserved = started
  /\ reserved < MaxTasks
  /\ reserved' = reserved + 1
  /\ UNCHANGED <<integrated, recorded, started, closed>>

Start ==
  /\ closed = "open"
  /\ started < reserved
  /\ started' = started + 1
  /\ UNCHANGED <<integrated, recorded, reserved, closed>>

(* Nothing is merged on top of a merge that is not on record.              *)
Merge(t) ==
  /\ closed = "open"
  /\ recorded = integrated
  /\ integrated' = Append(integrated, t)
  /\ UNCHANGED <<recorded, reserved, started, closed>>

Record ==
  /\ closed = "open"
  /\ recorded' = integrated
  /\ UNCHANGED <<integrated, reserved, started, closed>>

CloseExact ==
  /\ closed = "open"
  /\ recorded = integrated
  /\ closed' = "exact"
  /\ UNCHANGED <<integrated, recorded, reserved, started>>

(* A close that may take back the last write, or the close before it, when *)
(* that write took effect and was reported as failed.                      *)
CloseInexact ==
  /\ closed \in {"open", "exact"}
  /\ closed' = "inexact"
  /\ \/ recorded' = recorded
     \/ integrated # <<>> /\ recorded' = SubSeq(integrated, 1, Len(integrated) - 1)
  /\ reserved' \in {started, reserved}
  /\ UNCHANGED <<integrated, started>>

Next ==
  \/ Reserve \/ Start \/ Record \/ CloseExact \/ CloseInexact
  \/ \E t \in Tasks : Merge(t)

Spec == Init /\ [][Next]_vars
=============================================================================
