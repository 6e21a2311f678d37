SPECIFICATION Spec
CONSTANTS
  h1 = h1 h2 = h2 None = None
  Hashes = {h1, h2}
  MaxProcs = 4
  MaxFaults = 0
SYMMETRY ConfigSymmetry
INVARIANTS KeptIfSame
\* all commands are given
CHECK_DEADLOCK FALSE
