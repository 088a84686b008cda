\* Every file of up to four characters, loaded twice and saved, and every
\* standard input of up to four characters.
\* MaxCalls ends the programs that use files, the rest their stream.
SPECIFICATION MCSpec
CONSTANTS
  SP = SP  LF = LF  CR = CR  FF = FF  NUL = NUL  NULL = NULL
  Char <- MCChar
  Digit <- MCDigit
  Upper = {"F"}
  Streams <- MCStreams
  Bases = {10, 16}
  FUNGECELL_MAX = 40
  FirstSize = 2
  Graphic = {"a"}  Wide = {"w"}
  LowByte <- MCLowByte
  FirstFiles <- MCFirstFiles
  Pos <- MCPos
  Offsets <- MCOffsets
  Sizes <- MCSizes
  Edited <- MCEdited
  StorageOffset <- MCStorage
  MaxCalls = 2
INVARIANTS LoadedAsWritten SavedComesBack BufferSound
PROPERTIES ImplementsStream AnswerComes
CHECK_DEADLOCK FALSE
