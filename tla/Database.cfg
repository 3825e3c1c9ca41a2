\* Log: transactions and autocommit in two processes, one after the other; the
\* power fails only while no page record is unsynced; logs that replay cannot
\* handle are not explored further.
CONSTANTS
  Pages = {1, 2}
  WithTx = TRUE
  WithAutocommit = TRUE
  Rewrites = TRUE
  PowerFails = "settled"
  WritingSessions = 2
  MaxTx = 2
  MaxWrites = 3
  MaxRecords = 6
  NULL = NULL
  Raise = Raise
  Rows <- MCRows
  NotNull = {1}
  Misfits <- MCMisfits
  odd = odd
  Indexes <- MCIndexes
  Primary = "pk"
  Conditions <- MCConditions
  Settings <- MCSettings
  RootCap = 2
  MaxSlots = 3
  MaxStatements = 3
  Columns <- MCColumns
  TableRows <- MCTableRows
  MaxRows <- MCMaxRows
  IndexSets <- MCIndexSets
  Leftovers <- MCLeftovers
  Asks <- MCAsks
  Ranges <- MCRanges
  text = text
  iso = iso
  Texts = {text, iso}
  Readable <- MCReadable
  Written <- MCWritten
  SlipTokens <- MCSlipTokens
  Templates <- MCTemplates
  Bindable <- MCBindable
  IntBits = 5
  Mantissa = 3
  ExpFrom = 16
SPECIFICATION DatabaseSpec
INVARIANTS CleanLogRecoverable LiveStateAcknowledged IndexesAgree StatementsWhole AnswersAsSqlSays
           ParsesWhatIsWritten NothingSwallowed ParamsAreLiterals ComesBackEqual
PROPERTIES LogLeads
CONSTRAINT LogIsClean
CHECK_DEADLOCK FALSE
