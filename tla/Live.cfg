CONSTANTS
  f1 = f1
  f2 = f2
  Files = {f1, f2}
  Size <- OneAndTwo
  MaxBlock = 3
  MaxTxId = 3
  Limit = 2
  NoTx = NoTx
  NoFile = NoFile
  Ordered = TRUE
  Window = 1
  MaxLost = 1
  MaxDup = 0
  SenderRestarts = 0
  ReceiverRestarts = 0
  Disturbed = {}
  FailingCalls = {"remove", "rename"}
  MaxFailures = 1
SPECIFICATION FairSpec
PROPERTIES
  MovesEverything
