SPECIFICATION FairSpec
CONSTANTS
  Requests <- SomeRequests
  MaxLine = 2
  MaxHeaders = 4
  MaxBody = 3
  BufSize = 4
  None = none
INVARIANTS SameHoweverCut NothingUnlessWhole
PROPERTY Served
\* the connection ends
CHECK_DEADLOCK FALSE
