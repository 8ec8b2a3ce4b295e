\* Documents of three tasks: graphs, ownership of two files, spellings of paths.
CONSTANTS
  T1 = T1
  T2 = T2
  T3 = T3
  Unknown = Unknown
  None = None
  Names <- AllNames
  Segments <- SomeSegments
  Docs <- AllDocs
  MaxAtOnce = 2
SPECIFICATION ScheduleSpec
INVARIANTS
  WaveIsRight
  EmptyWaveMeansDecided
  PreflightIsExact
  OwnersAreKnown
CHECK_DEADLOCK FALSE
