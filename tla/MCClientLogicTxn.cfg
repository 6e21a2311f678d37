SPECIFICATION LogicFairSpec
CONSTANTS
  r1 = r1 r2 = r2 r3 = r3 m1 = m1
  NoReq = NoReq
  MailIds = {m1}
  Requests <- R3
  Kind <- TxnKind
  MailOf <- OneMail
  TxnMod = 2
  MaxPushes = 0
  MaxHeartbeats = 0
  MaxBatch = 1
INVARIANTS TypeOK Ownership PendingWasWritten WrittenInOrder
PROPERTIES RequestSettled LostSocketEndsSession
\* a dropped session is the end of this model
CHECK_DEADLOCK FALSE
