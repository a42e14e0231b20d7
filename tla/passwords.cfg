CONSTANTS
  Handlers = {h1, h2}
  Processes = {a, b}
  Passwords <- OnlyRight
  Right = right
  None = none
  MaxAttempts = 2
  MaxSubmissions = 2
  MaxFaults = 1
SPECIFICATION FairSpec
INVARIANTS TypeOK NotFailedEarly OneExtraction EachTryIsAsked
PROPERTIES AnswerComes
CHECK_DEADLOCK FALSE
