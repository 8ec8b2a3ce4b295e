\* Two commands at once, every command, kills and refusals of git.
CONSTANTS
  t1 = t1
  t2 = t2
  NoManifest = NoManifest
  NoIntegration = NoIntegration
  NoBranch = NoBranch
  Nobody = Nobody
  Processes = {"p", "q"}
  MaxRuns = 2
  MaxHead = 1
  TasksOf <- OneTask
  Limits = {2}
  Keeps = {FALSE}
  Kinds = {"fresh", "resume", "review", "plain", "apply", "abort"}
  Faults = {"crash", "throw", "git", "write", "record"}
SPECIFICATION Spec
CHECK_DEADLOCK FALSE
INVARIANTS
  AppliedOnce
  LastRecordExact
  BranchIsClaimed
PROPERTIES
  WorkLeavesDecided
  WorkersNotUndercut
