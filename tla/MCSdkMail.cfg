SPECIFICATION FairSpec
CONSTANTS
  Sdks = {"elixir", "js", "python"}
  MaxMails = 2
  Decisions = {"ack", "requeue"}
  None = none
  MaxChains = 2
  MaxDepth = 2
  MaxFaults = 1
INVARIANT OutcomeIsHandlers
PROPERTIES NothingForgotten
\* the mailbox is empty
CHECK_DEADLOCK FALSE
