SPECIFICATION LogicSpec
CONSTANTS
  r1 = r1 r2 = r2 r3 = r3 m1 = m1
  NoReq = NoReq
  MailIds = {m1}
  Requests <- R2
  Kind <- MailKind
  MailOf <- OneMail
  TxnMod = 2
  MaxPushes = 1
  MaxHeartbeats = 1
  MaxBatch = 2
INVARIANTS AtMostOneReply WrittenAfterConnected OnlyLateAnswersStray
PROPERTY ImplementsRequestReply
\* a dropped session is the end of this model
CHECK_DEADLOCK FALSE
