\* WHERE v < 2 and WHERE v <= 1.
CONSTANTS
  NULL = NULL
  Raise = Raise
  Columns <- MCColumns
  TableRows <- MCTableRows
  MaxRows <- MCMaxRows
  IndexSets <- MCIndexSets
  Leftovers = {{}}
  Asks <- RangeQueries
  Ranges <- UpperRanges
SPECIFICATION QuerySpec
INVARIANT IndexAnswersEveryRange
