SPECIFICATION Spec
CONSTANTS
  j1 = j1
  j2 = j2
  w1 = w1
  w2 = w2
  Jobs = {j1}
  Workers = {w1, w2}
  FileKinds = {"rows"}
  RetryTargets <- SomeRetryTargets
  Redeliverable <- MessageKinds
  MaxRedeliveries = 1
  MaxCrashes = 1
  MaxSendFailures = 1
  MaxRetries = 1
  MaxForceFails = 1
  MaxPasswords = 0
  MaxTogether = 2
  MaxPasswordAttempts = 1
SYMMETRY WorkerSymmetry
INVARIANTS CasTargetsValid DeliveredBeforeDone
PROPERTIES StatusObeysTable ForceFailSticks
CHECK_DEADLOCK FALSE
