------------------------------ MODULE Preflight ------------------------------
(***************************************************************************)
(* What preflight says of a plan's tasks before it is approved or run      *)
(* (packages/cli/src/core/plan-preflight.ts): checkTaskGraph with the      *)
(* depth-first search of findCycle, checkTaskFiles and                     *)
(* checkOwnershipOverlap.  Envelope and approval are in PlanApproval.      *)
(*                                                                         *)
(* A document is what the provider wrote: status, first (the recommended   *)
(* first task, None if absent) and tasks, a sequence of records [id,       *)
(* dependsOn, files, priority, type] whose dependsOn and files are         *)
(* sequences.  A file is a spelling of a path: padded (blanks around it),  *)
(* mark (a character that makes it no literal relative posix path) and     *)
(* segs, what its slashes separate.                                        *)
(***************************************************************************)
EXTENDS TaskDag

CONSTANT None

(* One way to spell a path; distinct records are distinct strings.         *)
Spelling(segs) == [padded |-> FALSE, mark |-> "none", segs |-> segs]

(* Mutant: a variant of a normalized path passes for the path. *)
NeverCosmetic(normalized, raw) == FALSE

(* Owners are compared literally: any other spelling is one too many.      *)
Cosmetic(normalized, raw) == normalized # raw

(* The segments that have a meaning of their own.                          *)
Blank == ""
Here == "."
Up == ".."

(* What is left of a path without its empty and its "." segments.          *)
Meaningful(segs) ==
  FoldLeft(LAMBDA kept, s : IF s \in {Blank, Here} THEN kept ELSE Append(kept, s), <<>>, segs)

(* A leading slash is an empty first segment with others after it.         *)
CheckFileEntry(raw) ==
  LET normalized == Spelling(Meaningful(raw.segs))
  IN  IF raw.mark = "none" /\ raw.segs = <<Blank>> THEN [kind |-> "empty"]
      ELSE IF raw.mark = "backslash" THEN [kind |-> "backslash"]
      ELSE IF raw.mark = "glob" THEN [kind |-> "glob"]
      ELSE IF raw.mark = "home" \/ raw.segs[1] = Blank THEN [kind |-> "absolute"]
      ELSE IF Up \in Range(raw.segs) THEN [kind |-> "traversal"]
      ELSE IF Meaningful(raw.segs) = <<>> THEN [kind |-> "root"]
      ELSE [kind |-> "ok", normalized |-> normalized, cosmetic |-> Cosmetic(normalized, raw)]

-----------------------------------------------------------------------------
IdsOf(tasks) == {tasks[i].id : i \in DOMAIN tasks}

(* byId: a later task with the same id replaces an earlier one.            *)
DependsOn(tasks, id) ==
  LET last == CHOOSE i \in DOMAIN tasks :
                /\ tasks[i].id = id
                /\ \A j \in DOMAIN tasks : tasks[j].id = id => j <= i
  IN  tasks[last].dependsOn

(* What findCycle and collect follow: neither a task's own name nor an     *)
(* unknown one.                                                            *)
Others(tasks, id) == (Range(DependsOn(tasks, id)) \intersect IdsOf(tasks)) \ {id}

(* The state of a search: the marks, the stack, and the cycle, <<>> until  *)
(* one is found.                                                           *)
Searches(tasks) ==
  [marks: [IdsOf(tasks) -> {"new", "visiting", "done"}],
   stack: Seq(IdsOf(tasks)), cycle: Seq(IdsOf(tasks))]

NewSearch(tasks) == [marks |-> [id \in IdsOf(tasks) |-> "new"], stack |-> <<>>, cycle |-> <<>>]

(* From the place of dep on the stack to its end, and back to dep.         *)
Closing(stack, dep) ==
  LET at == CHOOSE i \in DOMAIN stack : stack[i] = dep
  IN  Append(SubSeq(stack, at, Len(stack)), dep)

(* The loop of visit: one dependency of id, when deeper is visit itself.   *)
Follow(tasks, deeper, id, s, dep) ==
  IF s.cycle # <<>> \/ dep \notin Others(tasks, id) THEN s
  ELSE IF s.marks[dep] = "done" THEN s
  ELSE IF s.marks[dep] = "visiting" THEN [s EXCEPT !.cycle = Closing(s.stack, dep)]
  ELSE deeper[s][dep]

(* The body of visit.                                                      *)
VisitWith(tasks, deeper, id, s) ==
  LET after == FoldLeft(LAMBDA acc, dep : Follow(tasks, deeper, id, acc, dep),
                        [s EXCEPT !.marks[id] = "visiting", !.stack = Append(@, id)],
                        DependsOn(tasks, id))
  IN  IF after.cycle # <<>> THEN after
      ELSE [after EXCEPT !.stack = Front(@), !.marks[id] = "done"]

(* visit: what a search becomes.  Each call marks one task more, so that   *)
(* they are not nested deeper than there are tasks.                        *)
Visit(tasks) ==
  LET visit[n \in 0..Len(tasks)] ==
        [s \in Searches(tasks) |-> [id \in IdsOf(tasks) |->
           IF n = 0 THEN s ELSE VisitWith(tasks, visit[n-1], id, s)]]
  IN  visit[Len(tasks)]

(* The loop of findCycle.                                                  *)
VisitNew(tasks, s, id) ==
  IF s.cycle # <<>> \/ s.marks[id] # "new" THEN s ELSE Visit(tasks)[s][id]

(* Mutant: only what the first task depends on is searched. *)
FindCycleFromFirst(tasks) ==
  IF tasks = <<>> THEN <<>> ELSE VisitNew(tasks, NewSearch(tasks), tasks[1].id).cycle

(* The first cycle the search meets, <<>> if there is none.                *)
FindCycle(tasks) ==
  FoldLeft(LAMBDA s, task : VisitNew(tasks, s, task.id), NewSearch(tasks), tasks).cycle

(* An issue, about a task or about none, when the condition holds.         *)
When(condition, code, about) ==
  IF condition THEN {[code |-> code, task |-> about]} ELSE {}

Twice(s, e) == \E i, j \in DOMAIN s : i < j /\ s[i] = e /\ s[j] = e

(* The blockers of checkTaskGraph; with no task it asks nothing else.      *)
GraphBlockers(doc) ==
  LET tasks == doc.tasks
      ids == IdsOf(tasks)
      OfId(i) ==
        When(Twice([j \in DOMAIN tasks |-> tasks[j].id], tasks[i].id),
             "task.id.duplicate", tasks[i].id)
      OfDep(i, dep) ==
        When(dep = tasks[i].id, "task.deps.self", tasks[i].id)
        \union When(dep \notin ids, "task.deps.unknown", tasks[i].id)
  IN  When(doc.status # "completed", "plan.status.not-completed", None)
      \union
      IF tasks = <<>> THEN When(TRUE, "plan.tasks.empty", None)
      ELSE (UNION {OfId(i) \union UNION {OfDep(i, dep) : dep \in Range(tasks[i].dependsOn)}
                     : i \in DOMAIN tasks})
           \union When(FindCycle(tasks) # <<>>, "plan.deps.cycle", None)
           \union When(doc.first \notin ids \union {None},
                       "plan.recommended-first-task.unknown", None)

(* Its warnings. The recommended task is the first of that id.             *)
GraphWarnings(doc) ==
  LET tasks == doc.tasks
      IsFirst(i) == tasks[i].id = doc.first /\ \A j \in 1..(i-1) : tasks[j].id # doc.first
  IN  IF tasks = <<>> THEN {}
      ELSE (UNION {When(\E dep \in Range(tasks[i].dependsOn) :
                           Twice(tasks[i].dependsOn, dep),
                        "task.deps.duplicate", tasks[i].id) : i \in DOMAIN tasks})
           \union When(doc.first = None, "plan.recommended-first-task.missing", None)
           \union When(\E i \in DOMAIN tasks : IsFirst(i) /\ tasks[i].dependsOn # <<>>,
                       "plan.recommended-first-task.has-deps", None)

-----------------------------------------------------------------------------
(* checkTaskFiles: each entry is checked; what is not ok, or not in its    *)
(* normalized form, blocks.                                                *)
FileBlockers(tasks) ==
  LET OfFile(task, raw) ==
        LET result == CheckFileEntry(raw)
        IN  IF result.kind # "ok" THEN When(TRUE, "task.files." \o result.kind, task.id)
            ELSE When(result.cosmetic, "task.files.unnormalized", task.id)
  IN  UNION {UNION {OfFile(tasks[i], raw) : raw \in Range(tasks[i].files)}
               : i \in DOMAIN tasks}

FileWarnings(tasks) ==
  LET Normalized(task) ==
        LET ok == SelectSeq(task.files, LAMBDA raw : CheckFileEntry(raw).kind = "ok")
        IN  [n \in DOMAIN ok |-> CheckFileEntry(ok[n]).normalized]
      OfTask(task) ==
        When(~IsInjective(Normalized(task)), "task.files.duplicate", task.id)
        \union When(/\ task.files = <<>> /\ Len(tasks) > 1
                    /\ task.type \in {"implementation", "test", "docs"},
                    "task.files.none", task.id)
  IN  UNION {OfTask(tasks[i]) : i \in DOMAIN tasks}

-----------------------------------------------------------------------------
(* The ancestors map: for the tasks asked for so far, all they need.       *)
Known(tasks) == UNION {[asked -> SUBSET IdsOf(tasks)] : asked \in SUBSET IdsOf(tasks)}

Learned(known, id, result) ==
  [x \in DOMAIN known \union {id} |-> IF x = id THEN result ELSE known[x]]

(* The loop of collect: one dependency of id, when deeper is collect.      *)
Add(tasks, deeper, id, visiting, acc, dep) ==
  IF dep \notin IdsOf(tasks) \/ dep \in visiting \union {id} THEN acc
  ELSE LET known == deeper[acc.known][dep][visiting \union {id}]
       IN  [known |-> known, result |-> acc.result \union {dep} \union known[dep]]

(* Mutant: a task is behind those it names, and not behind theirs. *)
CollectDirect(tasks, deeper, known, id, visiting) ==
  [x \in IdsOf(tasks) |-> Range(DependsOn(tasks, x)) \intersect IdsOf(tasks)]

(* The body of collect.                                                    *)
CollectWith(tasks, deeper, known, id, visiting) ==
  LET all == FoldLeft(LAMBDA acc, dep : Add(tasks, deeper, id, visiting, acc, dep),
                      [known |-> known, result |-> {}], DependsOn(tasks, id))
  IN  IF id \in DOMAIN known THEN known ELSE Learned(all.known, id, all.result)

(* collect: adds the ancestors of id to those already known. What is being *)
(* visited is left out, so in a cycle the sets may be incomplete, and the  *)
(* calls are not nested deeper than there are tasks.                       *)
Collect(tasks) ==
  LET collect[n \in 0..Len(tasks)] ==
        [known \in Known(tasks) |-> [id \in IdsOf(tasks) |-> [visiting \in SUBSET IdsOf(tasks) |->
           IF n = 0 THEN known ELSE CollectWith(tasks, collect[n-1], known, id, visiting)]]]
  IN  collect[Len(tasks)]

(* All of them, as the pairs of checkOwnershipOverlap come to ask.         *)
Ancestors(tasks) ==
  FoldLeft(LAMBDA known, task : Collect(tasks)[known][task.id][{}], [id \in {} |-> {}], tasks)

OwnedFiles(task) ==
  {CheckFileEntry(raw).normalized :
     raw \in {f \in Range(task.files) : CheckFileEntry(f).kind = "ok"}}

(* checkOwnershipOverlap: the pairs it warns of, parallel and sharing.     *)
Overlaps(tasks) ==
  LET ancestors == Ancestors(tasks)
      Warned(a, b) == /\ a.id # b.id
                      /\ b.id \notin ancestors[a.id] /\ a.id \notin ancestors[b.id]
                      /\ OwnedFiles(a) \intersect OwnedFiles(b) # {}
  IN  {{tasks[p[1]].id, tasks[p[2]].id} :
         p \in {q \in (DOMAIN tasks) \X (DOMAIN tasks) :
                  q[1] < q[2] /\ Warned(tasks[q[1]], tasks[q[2]])}}

-----------------------------------------------------------------------------
Blockers(doc) == GraphBlockers(doc) \union FileBlockers(doc.tasks)

(* The plan the scheduler is given: the files as they are spelled, since   *)
(* dag.ts compares the strings.                                            *)
PlanOf(doc) ==
  LET tasks == doc.tasks
      TaskOf(id) == tasks[CHOOSE i \in DOMAIN tasks : tasks[i].id = id]
  IN  [order     |-> [i \in DOMAIN tasks |-> tasks[i].id],
       dependsOn |-> [id \in IdsOf(tasks) |-> Range(TaskOf(id).dependsOn)],
       files     |-> [id \in IdsOf(tasks) |-> Range(TaskOf(id).files)],
       priority  |-> [id \in IdsOf(tasks) |-> TaskOf(id).priority]]
=============================================================================
