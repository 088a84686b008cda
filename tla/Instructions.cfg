SPECIFICATION MCSpec
CONSTANTS
  Components = {"programs", "dates", "strings", "areas", "turtle"}
  Programs <- MCPrograms
  Stacks <- MCStacks
  Standards = {93, 98, 109}
  Random <- MCRandom
  MaxSteps = 6
  MaxCount = 3
  CellMin <- MCCellMin
  MaxPath = 16
  Days <- MCDays
  Years <- MCYears
  YDays <- MCYDays
  Dates <- MCDates
  Spans <- MCSpans
  Fields <- MCFields
  Corners <- MCCorners
  Sizes <- MCSizes
  Counts <- MCCounts
  MaxToys = 1
  Distances = {1, 2}
  Places <- MCPlaces
  Colours = {0, 1}
  TurtMin <- MCTurtMin
  TurtMax = 2
  MaxCalls = 7
INVARIANTS StringsRead CalendarSound StringsComeBack AreasArrive DrawingShowsStrokes
PROPERTIES SkipsAgree ReturnUndoesCall
CHECK_DEADLOCK FALSE
