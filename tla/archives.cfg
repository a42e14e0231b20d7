\* Four archives, two consumers, one fault of any kind.
SPECIFICATION FairSpec
CONSTANTS
  c1 = c1
  c2 = c2
  Entries <- AllEntries
  Large <- LargeEntries
  Inside <- Contents
  Sources <- SomeSources
  Consumers = {c1, c2}
  Ingest = Ingest
  MaxFaults = 1
INVARIANTS
  CompletedEntriesDiscovered
  NoEntryLost
  OneJobPerEntry
  ProcessingIsOwned
CHECK_DEADLOCK FALSE
PROPERTIES
  ComesToRest
