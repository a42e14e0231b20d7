SPECIFICATION FairSpec
CONSTANTS
  j1 = j1
  j2 = j2
  w1 = w1
  w2 = w2
  Jobs = {j1}
  Workers = {w1, w2}
  FileKinds <- AllFileKinds
  RetryTargets = {}
  Redeliverable <- EventKinds
  MaxRedeliveries = 2
  MaxCrashes = 0
  MaxSendFailures = 0
  MaxRetries = 0
  MaxForceFails = 0
  MaxPasswords = 1
  MaxTogether = 3
  MaxPasswordAttempts = 1
INVARIANTS OneFinalizer LoadedOnce HeldRowsStayOut
PROPERTIES JobsSettle
CHECK_DEADLOCK FALSE
