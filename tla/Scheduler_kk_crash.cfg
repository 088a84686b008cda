\* k under k over @.
SPECIFICATION Spec
CONSTANTS
  Instr = {"plain", "free", "t", "@", "k"}
  AllocChunk = 2
  MaxID = 3
  MaxCount = 2
  MaxNesting = 1
  MaxFree = 1
  NULL = NULL
  JUNK = JUNK
INVARIANT NoCrash
