\* Every kind of instruction, one k under another, one list growth.
SPECIFICATION Spec
CONSTANTS
  Instr = {"plain", "free", "t", "@", "k"}
  AllocChunk = 2
  MaxID = 3
  MaxCount = 2
  MaxNesting = 1
  MaxFree = 1
  NULL = NULL
  JUNK = JUNK
INVARIANTS TypeOK SlotsDistinct TurnOrder TurnsLost
PROPERTY OrderKept
