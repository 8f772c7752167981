CONSTANTS
  QueueSize = 2
  Mailboxes = 2
  MaxFrames = 6
SPECIFICATION FairSpec
PROPERTIES ImplementsTxFifo Drains
CHECK_DEADLOCK FALSE
