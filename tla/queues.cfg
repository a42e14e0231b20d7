CONSTANTS
  Messages = {m, bad}
  Poison = {bad}
  Pools = {pool}
  Servers = {server}
  Concurrency = 2
  Tries <- MCTries
  MaxRunning = 3
  Receipts <- MCReceipts
  MaxStops = 1
SPECIFICATION FairSpec
INVARIANTS TypeOK PoolAccountsForItsJobs
PROPERTIES DeliverySpec EveryMessageIsStarted
CHECK_DEADLOCK FALSE
