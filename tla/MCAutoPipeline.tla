--------------------------- MODULE MCAutoPipeline ---------------------------
(* AutoPipeline for TLC: a chain of tasks, a fork, and a plan without one  *)
(* of their tasks.                                                         *)
EXTENDS AutoPipeline

Chain == [t \in {"a", "b", "c"} |-> CASE t = "a" -> {} [] t = "b" -> {"a"} [] t = "c" -> {"b"}]
Fork  == [t \in {"a", "b", "c"} |-> IF t = "a" THEN {} ELSE {"a"}]
Short == [t \in {"a", "b"} |-> IF t = "a" THEN {} ELSE {"a"}]

MCGraphs == {Chain, Fork, Short}
=============================================================================
