\* Every delta up to two columns and rows.
SPECIFICATION FairSpec
CONSTANTS
  TopLefts <- MCTopLefts
  BottomRights <- MCBottomRights
  Starts <- MCStarts
  Deltas <- MCFlying
  Jumps <- MCJumps
PROPERTIES LineInOrder ComesBack LookComesBack
