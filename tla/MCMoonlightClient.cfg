SPECIFICATION Spec
CONSTANTS
  r1 = r1 r2 = r2 m1 = m1
  NoReq = NoReq
  MailIds = {m1}
  Requests <- R2
  Kind <- TxnKind
  MailOf <- OneMail
  TxnMod = 2
  MaxPushes = 0
  MaxHeartbeats = 0
  MaxBatch = 1
  MaxSessions = 2
INVARIANTS CutOffOnlyBySessionEnd AnswerMatches
PROPERTIES ImplementsConnection
\* a stopped client does nothing any more
CHECK_DEADLOCK FALSE
