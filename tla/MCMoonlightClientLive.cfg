SPECIFICATION FairSpec
CONSTANTS
  r1 = r1 r2 = r2 m1 = m1
  NoReq = NoReq
  MailIds = {m1}
  Requests <- R1
  Kind <- PulseKind
  MailOf <- OneMail
  TxnMod = 2
  MaxPushes = 0
  MaxHeartbeats = 1
  MaxBatch = 1
  MaxSessions = 2
PROPERTIES CallersReleased StopObeyed Reconnects
\* a stopped client does nothing any more
CHECK_DEADLOCK FALSE
