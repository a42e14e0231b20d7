\* Parses of a file of three lines, with faults, restarts and a second attempt.
SPECIFICATION FairSpec
CONSTANTS
  LineCount = 3
  Files <- ThreeLines
  BatchSize = 1
  QueueDepth = 1
  PartRows = 2
  HeavyLines <- HeavyFirst
  MaxPending = 2
  AiBudget = 1
  MaxAttempts = 2
  MaxFaults = 1
INVARIANTS
  PartsDisjoint
  PublishedPartsExact
  NothingLeftOpen
  BackgroundBounded
CHECK_DEADLOCK FALSE
PROPERTIES
  ParseEnds
