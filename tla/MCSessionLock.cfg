\* Four invocations on two hosts, three of which may be killed; d is told to force run r2; fair scheduling.
CONSTANTS
  a = a
  b = b
  c = c
  d = d
  Procs <- MCProcs
  RunOf <- MCRunOf
  HostOf <- MCHostOf
  ForceOf <- MCForceOf
  Mortal <- MCMortal
  NoFile = NoFile
SPECIFICATION FairSpec
INVARIANTS
  MutualExclusion
  LockHasKeeper
PROPERTY
  EveryInvocationAnswered
CHECK_DEADLOCK FALSE
