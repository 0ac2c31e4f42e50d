CONSTANTS
  f1 = f1
  f2 = f2
  Files = {f1}
  Size <- TwoBlocks
  MaxBlock = 3
  MaxTxId = 2
  Limit = 1
  NoTx = NoTx
  NoFile = NoFile
  Ordered = TRUE
  Window = 2
  MaxLost = 0
  MaxDup = 0
  SenderRestarts = 0
  ReceiverRestarts = 1
  Disturbed = {}
  FailingCalls = {}
  MaxFailures = 0
SPECIFICATION Spec
INVARIANTS
  DeliveredIntact
