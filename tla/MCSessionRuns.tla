--------------------------- MODULE MCSessionRuns ---------------------------
(* Small instances of SessionRuns. *)
EXTENDS SessionRuns

CONSTANTS t1, t2

(* One plan of two tasks. *)
TwoTasks == <<{t1, t2}>>

(* One plan of one task. *)
OneTask == <<{t1}>>

(* A plan, and the follow-up that replaces it. *)
FollowUp == <<{t1}, {t2}>>

(* A plan, and its revision with one task in common. *)
Revised == <<{t1, t2}, {t1}>>
=============================================================================
