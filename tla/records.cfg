CONSTANTS
  Atoms <- MCAtoms
  Word <- MCWord
  Digits <- MCDigits
  Labels <- MCLabels
  Emails <- MCEmails
  Phones <- MCPhones
  Blobs <- MCBlobs
  Lists <- MCLists
  Aliases <- MCAliases
  AiAliases <- MCAiAliases
  Parts <- MCParts
  AiParts <- MCAiParts
  TextBlobs = {"{in}"}
  Indexes <- MCIndexes
  MaxDepth = 2
  OneLetter <- MCOneLetter
  SkillLike <- MCSkillLike
  Alike <- MCAlike
  Schemes <- MCScheme
  Slashed <- MCSlashed
  IdLike = {"id7"}
  Salutations = {"mr"}
  ZipLike = {"z9"}
  Binary = {"#ff"}
  Dotted <- MCDotted
  NullMarks = {"null"}
  Denied = {"rome"}
  Unnamed <- MCUnnamed
  Jobs <- MCJobs
  DumpStarts = {"--dump"}
  Comments = {"--"}
  CopyOf <- MCCopyOf
  CopyEnd <- MCCopyEnd
  LongLines <- MCLongLines
  MaxLines = 3
  MaxAttempts = 2
SPECIFICATION Spec
INVARIANTS CellsEndOnce  KeysEndOnce CopyFollowsItsBlock
CHECK_DEADLOCK FALSE
