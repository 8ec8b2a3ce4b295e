CONSTANTS
  Graphs <- MCGraphs
  MaxTasks = 2
  MaxPlans = 2
  MaxTrouble = 2
  NoPlan = NoPlan
SPECIFICATION FairSpec
INVARIANTS RunsWhatIsLeft CompletedMeansAll NeitherIsAhead
PROPERTIES PlanGetsDone
