CONSTANTS
  p1 = p1
  p2 = p2
  p3 = p3
  c1 = c1
  c2 = c2
  s1 = s1
  s2 = s2
  Procs <- MCProcs
  Contents <- MCContents
  Snapshots <- MCSnapshots
  MaxAtOnce = 2
  MaxEdits = 2
  Gone = Gone
  Absent = Absent
  Torn = Torn
SPECIFICATION Spec
SYMMETRY Symmetry
INVARIANTS WikiIsFresh OutputIsForPrompt
CHECK_DEADLOCK FALSE
