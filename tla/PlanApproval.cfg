CONSTANTS
  p1 = p1
  p2 = p2
  p3 = p3
  sound1 = sound1
  sound2 = sound2
  unsound = unsound
  Procs <- MCProcs
  Bodies <- MCBodies
  Sound <- MCSound
  Kinds <- AllKinds
  MaxEdits = 1
  MaxAtOnce = 2
  NoPlan = NoPlan
  Torn = Torn
  Nobody = Nobody
SPECIFICATION Spec
SYMMETRY Symmetry
INVARIANTS RunIsApproved PlanOnRecordExists AloneLosesNothing
CHECK_DEADLOCK FALSE
