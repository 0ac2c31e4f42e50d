CONSTANTS
  f1 = f1
  f2 = f2
  Files = {f1}
  Size <- OneBlock
  MaxBlock = 3
  MaxTxId = 2
  Limit = 1
  NoTx = NoTx
  NoFile = NoFile
  Ordered = FALSE
  Window = 1
  MaxLost = 1
  MaxDup = 1
  SenderRestarts = 1
  ReceiverRestarts = 1
  Disturbed = {}
  FailingCalls = {"removeMeta"}
  MaxFailures = 1
SPECIFICATION FairSpec
PROPERTIES
  EventuallyIdle
