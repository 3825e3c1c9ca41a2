CONSTANTS
  HeaderSize = 1
  Sizes = {4, 5}
  AppendsPastTear = TRUE
  MaxFrames = 2
SPECIFICATION FileSpec
INVARIANTS StopsCleanly
