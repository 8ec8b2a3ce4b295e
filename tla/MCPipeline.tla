----------------------------- MODULE MCPipeline -----------------------------
(* Pipeline for TLC: three stages, of which the first is cached; two       *)
(* inputs that share a key; three tasks, any of which may be reported as   *)
(* the first one; runs that enforce their schemas and runs that warn.      *)
EXTENDS Pipeline, TLC

CONSTANTS T1, T2, T3, Ghost, i1, i2

MCStages    == <<"plan", "run", "learn">>
MCCacheable == {"plan"}
MCInputs    == {i1, i2}
MCKeyOf     == [s \in {"plan"} |-> (i1 :> 1 @@ i2 :> 1 @@ Old :> 1)]
MCTasks     == {T1, T2, T3}
MCMisnomers == {T1}
MCModes     == {"enforce", "warn"}
MCOrder     == <<T1, T2, T3>>
MCGraphs    ==
  { (T1 :> {} @@ T2 :> {T1} @@ T3 :> {T2}),          \* a chain
    (T1 :> {T3} @@ T2 :> {} @@ T3 :> {T2}),          \* listed backwards
    (T1 :> {} @@ T2 :> {} @@ T3 :> {T1, T2}),        \* a join
    (T1 :> {} @@ T2 :> {T3} @@ T3 :> {T2}),          \* a cycle
    (T1 :> {} @@ T2 :> {Ghost} @@ T3 :> {}) }        \* an unknown dependency
=============================================================================
