CONSTANTS
  T1 = T1
  T2 = T2
  T3 = T3
  Ghost = Ghost
  i1 = i1
  i2 = i2
  Stages <- MCStages
  Cacheable <- MCCacheable
  Inputs <- MCInputs
  KeyOf <- MCKeyOf
  Tasks <- MCTasks
  Misnomers <- MCMisnomers
  Modes <- MCModes
  Order <- MCOrder
  Graphs <- MCGraphs
  MaxTasks = 2
  MaxCalls = 5
  MaxCost = 4
  Prices = {0, 3}
  Retries = 1
  MaxRuns = 2
  Old = Old
  None = None
SPECIFICATION FairSpec
INVARIANTS TasksInOrder WithinBudget ResultsInOrder InvalidStaysOut
PROPERTIES Ends
CHECK_DEADLOCK FALSE
