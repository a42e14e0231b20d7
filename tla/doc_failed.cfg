SPECIFICATION Spec
CONSTANTS
  j1 = j1
  j2 = j2
  w1 = w1
  w2 = w2
  Jobs = {j1}
  Workers = {w1, w2}
  FileKinds = {"rows"}
  RetryTargets = {}
  Redeliverable <- EventKinds
  MaxRedeliveries = 1
  MaxCrashes = 0
  MaxSendFailures = 0
  MaxRetries = 0
  MaxForceFails = 0
  MaxPasswords = 0
  MaxTogether = 3
  MaxPasswordAttempts = 1
PROPERTY FailedHasNoNext
CHECK_DEADLOCK FALSE
