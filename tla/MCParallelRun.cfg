\* Five tasks, waves of up to three, budget of six dispatches, strict ownership,
\* fair scheduling.
CONSTANTS
  t1 = t1
  t2 = t2
  t3 = t3
  t4 = t4
  t5 = t5
  Tasks <- Five
  Plan <- MeshPlan
  MaxParallel = 3
  MaxTasks = 6
  Strict = TRUE
  Keep = FALSE
  Outputs <- MCOutputs
  Starts <- MCStarts
  NoOutput = NoOutput
SPECIFICATION FairSpec
INVARIANTS
  RunInv
  ExactWhenSafe
  EveryTaskDecided
PROPERTIES
  ImplementsLedger
  Terminates
CHECK_DEADLOCK FALSE
