CONSTANTS
  f1 = f1
  f2 = f2
  Files = {f1}
  Size <- FourBlocks
  MaxBlock = 5
  MaxTxId = 2
  Limit = 1
  NoTx = NoTx
  NoFile = NoFile
  Ordered = TRUE
  Window = 3
  MaxLost = 1
  MaxDup = 0
  SenderRestarts = 0
  ReceiverRestarts = 0
  Disturbed = {}
  FailingCalls = {}
  MaxFailures = 0
SPECIFICATION Spec
INVARIANTS
  DeliveredIntact
