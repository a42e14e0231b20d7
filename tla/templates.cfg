CONSTANTS
  Parsers = {p1}
  Probers = {d1}
  Lines = {"row", "gap", "json"}
  Parsed = {"row", "gap", "json"}
  Probed = {"row"}
  Shape <- MCShape
  Length <- MCLength
  Csv = {"row"}
  Json = {"json"}
  Weak = {}
  Reads <- MCReads
  Budget = 2
  MaxAttempts = 2
  MaxLines = 2
  MaxJobs = 2
  MaxTemplates = 2
  MaxProbes = 1
  MaxOpen = 2
SPECIFICATION Spec
INVARIANTS SavedBeforeUsed OneAnswerPerPattern
PROPERTY WaitingEnds
CHECK_DEADLOCK FALSE
