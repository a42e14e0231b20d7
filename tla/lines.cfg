CONSTANTS
  ChunkSize = 4
  SmallFile = 6
  MaxQuotedNewlines = 0
  MaxLineBytes = 26
  TextLength = 8
  EmailLength = 5
SPECIFICATION Spec
INVARIANTS
  ChunksDoNotMatter
  RowsSurvive
