SPECIFICATION MCSpec
CONSTANTS
  IP = {i1, i2}
  Requests <- MCAll
  Specs = {0, 23, 26}
  Sandbox = FALSE
  FingerprintsDisabled = FALSE
  Unwritten = Unwritten
  MaxTop = 3
  CR = CR
  LF = LF
  letter = letter
  wide = wide
  Byte <- MCByte
  Contents <- MCContents
  Buffer = {0}
  Cells <- MCCells
  Wide = {wide}
  LowByte <- MCLowByte
  Handle <- MCHandle
  NoEntry = NoEntry
  MaxText = 4
  MaxOpen = 3
  MaxCount = 2
  SocketHandle <- MCSockets
  MaxBytes = 1
  MaxDescriptor = 3
  Vector = {v1, v2}
  NoVector = NoVector
  MaxReferences = 6
  MaxCalls = 5
INVARIANTS StreamsHeld SocketsHeld ReferencesKept
PROPERTIES ImplementsSemantics UnloadUndoesLoad LinesWhole
CHECK_DEADLOCK FALSE
