\* Three invocations of one host that nothing kills: normal exits only.
CONSTANTS
  a = a
  b = b
  c = c
  d = d
  NoFile = NoFile
  Procs <- OneHostProcs
  RunOf <- OneHostRunOf
  HostOf <- OneHostHostOf
  ForceOf <- NobodyForces
  Mortal <- None
SPECIFICATION Spec
INVARIANT
  OneHolder
CHECK_DEADLOCK FALSE
