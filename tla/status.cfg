SPECIFICATION FairSpec
CONSTANTS
  Names <- TwoNames
  Rank <- TwoRanks
  Digits <- TwoDigits
  Configured = "b"
  Options <- SomeOptions
  MaxEvents = 2
INVARIANTS
  ReportAccounts ConsentCovers
PROPERTY
  RunEnds
\* A run that is over stops.
CHECK_DEADLOCK FALSE
