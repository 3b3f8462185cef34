SPECIFICATION FairSpec
CONSTANTS
  MaxQueue = 3
  MaxBatch = 2
  MaxSpans = 6
INVARIANTS TypeOK ExitMeansFlushed
PROPERTIES DropsOnlyWhenFull ShutdownEnds
CHECK_DEADLOCK FALSE
