SPECIFICATION Spec
CONSTANTS
  s1 = s1 s2 = s2
  Streams <- S2
  MaxNotices = 4
SYMMETRY StreamSymmetry
INVARIANTS LastWord MailTold
\* streams end and the notifications are bounded
CHECK_DEADLOCK FALSE
