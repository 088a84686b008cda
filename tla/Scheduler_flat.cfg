\* No k under another k; births and deaths, and an interpreter that goes on.
SPECIFICATION FairSpec
CONSTANTS
  Instr = {"plain", "free", "t", "@", "k"}
  AllocChunk = 2
  MaxID = 4
  MaxCount = 2
  MaxNesting = 0
  MaxFree = 1
  NULL = NULL
  JUNK = JUNK
PROPERTIES OthersUnaffected EveryIPRuns
