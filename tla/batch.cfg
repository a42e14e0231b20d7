SPECIFICATION Spec
CONSTANTS
  j1 = j1
  j2 = j2
  w1 = w1
  w2 = w2
  Jobs = {j1, j2}
  Workers = {w1, w2}
  FileKinds = {"rows", "empty", "archive"}
  RetryTargets = {}
  Redeliverable = {}
  MaxRedeliveries = 0
  MaxCrashes = 0
  MaxSendFailures = 0
  MaxRetries = 0
  MaxForceFails = 0
  MaxPasswords = 0
  MaxTogether = 3
  MaxPasswordAttempts = 1
SYMMETRY Symmetry
INVARIANTS TypeOK DeliveredBeforeDone
CHECK_DEADLOCK FALSE
