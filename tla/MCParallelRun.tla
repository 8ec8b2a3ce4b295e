--------------------------- MODULE MCParallelRun ---------------------------
(* Small instances of ParallelRun. *)
EXTENDS ParallelRun, TLC

CONSTANTS t1, t2, t3, t4, t5

Ids == {t1, t2, t3}
Five == {t1, t2, t3, t4, t5}

(* t1 and t2 run together; t3 needs nothing but shares a file with t1; t4  *)
(* needs t1 and declares no files; t5 needs t2 and t4. *)
MeshPlan ==
  [order     |-> <<t1, t2, t3, t4, t5>>,
   dependsOn |-> (t1 :> {}) @@ (t2 :> {}) @@ (t3 :> {}) @@ (t4 :> {t1}) @@ (t5 :> {t2, t4}),
   files     |-> (t1 :> {"a"}) @@ (t2 :> {"b"}) @@ (t3 :> {"a"}) @@ (t4 :> {})
                   @@ (t5 :> {"a", "b"}),
   priority  |-> [t \in Five |-> 1]]

(* t1 and t2 may run together, t3 needs t1. *)
ForkPlan ==
  [order     |-> <<t1, t2, t3>>,
   dependsOn |-> (t1 :> {}) @@ (t2 :> {}) @@ (t3 :> {t1}),
   files     |-> (t1 :> {"a"}) @@ (t2 :> {"b"}) @@ (t3 :> {"b"}),
   priority  |-> [t \in Ids |-> 1]]

Left(s, ch, cl) == [status |-> s, changed |-> ch, claimed |-> cl]

(* Did its work; claims work git does not show; touched another file; gave up. *)
MCOutputs ==
  {Left("completed", {"own"}, {"own"}), Left("completed", {}, {"own"}),
   Left("completed", {"own", "stray"}, {"own"}), Left("blocked", {"own"}, {})}

Fresh == [done |-> {}, tip |-> <<>>, dispatches |-> 0]

(* A fresh run, and the resumption of one that had merged t1 and lost a dispatch. *)
MCStarts == {Fresh, [done |-> {t1}, tip |-> <<t1>>, dispatches |-> 2]}
=============================================================================
