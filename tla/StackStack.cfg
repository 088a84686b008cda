\* One IP with stacks of up to three cells, or two IPs with up to two.
\* The program stops once the last IP executed @.
SPECIFICATION MCSpec
CONSTANTS
  IP = {p, q}
  Cell <- MCCell
  String <- MCStrings
  Corner <- MCCorners
  Chunk = 2
  StackChunk = 1
  MaxTop = 3
  MaxStacks = 2
  Addresses = 3
  JUNK = JUNK
INVARIANTS NoJunk Ownership
PROPERTY ImplementsStacks
SYMMETRY MCSymmetry
CHECK_DEADLOCK FALSE
