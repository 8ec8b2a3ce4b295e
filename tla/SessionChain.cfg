\* One command at a time: chains of up to three runs over a plan and its revision, with kills and a user who edits.
CONSTANTS
  t1 = t1
  t2 = t2
  NoManifest = NoManifest
  NoIntegration = NoIntegration
  NoBranch = NoBranch
  Nobody = Nobody
  Processes = {"p"}
  MaxRuns = 3
  MaxHead = 0
  TasksOf <- Revised
  Limits = {2}
  Keeps = {FALSE}
  Kinds = {"fresh", "resume", "review"}
  Faults = {"crash", "edit"}
SPECIFICATION Spec
CHECK_DEADLOCK FALSE
INVARIANTS
  MergedOnce
  SkipsAreEarned
  LineageBudget
