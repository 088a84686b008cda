\* SIMPLEBOUNDS_MAX below the widest distance: both scans occur.
SPECIFICATION MCSpec
CONSTANTS
  Components = {"space", "y"}
  Xs <- MCXs
  Ys <- MCYs
  Char = {a, b}
  Space = Space
  NoRect = NoRect
  OffsetX = 1
  StaticX = 2
  OffsetY = 0
  StaticY = 3
  SimpleBoundsMax = 1
  Modulus = 16
  Variables <- MCVariables
  SafeNames = {"HOME"}
  Arguments <- MCArguments
  Handprint <- MCHandprint
  Scalars <- MCScalars
  IPs <- MCIPs
  Requests <- MCRequests
  Cells = {30, 31}
  MaxStacks = 2
  MaxCells = 2
  MaxAsks = 1
  Junk = Junk
  Aborts = Aborts
INVARIANTS TypeOK CountsMatch BoundsCover ExactBoundsTightOrAtOrigin OneOfAll
PROPERTY ImplementsCellMap
CHECK_DEADLOCK FALSE
