------------------------------ MODULE MCTaskDag ------------------------------
(***************************************************************************)
(* The documents of small instances, in four families: every graph and     *)
(* ownership of three tasks over two files (SchedulerDocs), every graph a  *)
(* provider can write with unknown, own, repeated and cyclic dependencies  *)
(* (GraphDocs), every spelling of a path (SpellingDocs), and documents     *)
(* whose ids are taken twice or that have no task (OddDocs).               *)
(***************************************************************************)
EXTENDS Scheduling

CONSTANTS T1, T2, T3, Unknown

Ids == {T1, T2, T3}
AllNames == Ids \union {Unknown}
SomeSegments == {"", ".", "..", "a", "b"}

A == Spelling(<<"a">>)
AB == Spelling(<<"a", "b">>)

Spellings ==
  [padded: BOOLEAN, mark: {"none", "backslash", "glob", "home"},
   segs: UNION {[1..n -> SomeSegments] : n \in 1..3}]

Task(id, dependsOn, files, priority, type) ==
  [id |-> id, dependsOn |-> dependsOn, files |-> files, priority |-> priority, type |-> type]

(* A set as the sequence a document would list it in.                      *)
Listed(S) == SetToSeq(S)

(* The documents with one of these tasks at each place, in this order.     *)
DocsOf(t1, t2, t3, first) == [status: {"completed"}, first: first, tasks: t1 \X t2 \X t3]

SchedulerGraphs ==
  {deps \in [Ids -> SUBSET Ids] :
     WellFormedPlan([order |-> <<T1, T2, T3>>, dependsOn |-> deps])}

SchedulerDocs ==
  LET Of(id, deps) == {Task(id, Listed(deps[id]), Listed(files), priority, "implementation") :
                         files \in SUBSET {A, AB}, priority \in {0, 2}}
  IN  UNION {DocsOf(Of(T1, deps), Of(T2, deps), Of(T3, deps), {T1}) : deps \in SchedulerGraphs}

GraphDocs ==
  LET Of(id, files, type) == {Task(id, deps, files, 1, type) :
                                deps \in UNION {[1..n -> AllNames] : n \in 0..2}}
  IN  DocsOf(Of(T1, <<A>>, "implementation"), Of(T2, <<A>>, "test"), Of(T3, <<>>, "docs"),
             {T2, None, Unknown})

SpellingDocs ==
  LET Of(id, deps, files, type) == {Task(id, d, f, 1, type) : d \in deps, f \in files}
      Spelled == {<<raw>> : raw \in Spellings}
  IN  UNION {DocsOf(Of(T1, {<<>>}, Spelled \union {<<raw[1], A>> : raw \in Spelled}, type),
                    Of(T2, {<<>>, <<T1>>}, {<<A>>, <<AB>>}, type),
                    Of(T3, {<<>>}, {<<>>}, type), {T1}) : type \in {"test", "research"}}

OddDocs ==
  LET Statuses == {"completed", "awaiting_human"}
      Of(files, type) == {Task(id, deps, files, 1, type) :
                            id \in Ids, deps \in {<<>>, <<T1>>, <<T2>>}}
  IN  [status: Statuses, first: {None}, tasks: {<<>>}]
      \union [status: Statuses, first: {T1},
              tasks: Of(<<A>>, "test") \X Of(<<A>>, "review") \X Of(<<>>, "test")]

AllDocs == (SchedulerDocs \union GraphDocs) \union (SpellingDocs \union OddDocs)
=============================================================================
