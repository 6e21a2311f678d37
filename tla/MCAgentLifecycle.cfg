SPECIFICATION FairSpec
CONSTANTS
  h1 = h1 h2 = h2 None = None
  Hashes = {h1, h2}
  MaxProcs = 3
  MaxFaults = 2
INVARIANTS OneAgent StopTruth Reachable AlreadyTruth ReadyUnlessFault
PROPERTIES CommandsEnd
\* all commands are given
CHECK_DEADLOCK FALSE
