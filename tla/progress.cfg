SPECIFICATION FairSpec
CONSTANTS
  Labels <- SomeLabels
  MaxSteps = 3
  HeadLen = 2
  MaxTail = 2
  LineWidth = 9
INVARIANTS
  TypeOK NoFrameOutlivesStop WritesOnBlankRow
PROPERTY
  RunEnds
