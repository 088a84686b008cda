\* Four keys in a table that starts with one bucket, pools of two blocks.
SPECIFICATION Spec
CONSTANTS
  a = a  b = b  c = c  d = d
  Key <- MCKey
  Data <- MCData
  Hash <- MCHash
  InitialSize = 1
  MaxInserts = 5
  POOL_ARRAY_COUNT = 3
  NULL = NULL
SYMMETRY MCSymmetry
VIEW MCView
INVARIANTS WellLinked OneOwner
PROPERTY ImplementsDictionary
