--------------------------- MODULE MCPlanApproval ---------------------------
(* PlanApproval for TLC: the invocations are alike, and so are the plans   *)
(* that the preflight admits.                                              *)
EXTENDS PlanApproval, TLC

CONSTANTS p1, p2, p3, sound1, sound2, unsound

MCProcs  == {p1, p2, p3}
MCSound  == {sound1, sound2}
MCBodies == MCSound \cup {unsound}

AllKinds == StageKinds \cup PlanKinds \cup
            {"approve", "reject", "run", "bypass", "resume"}

Symmetry == Permutations(MCProcs) \cup Permutations(MCSound)
=============================================================================
