CONSTANTS
  f1 = f1
  f2 = f2
  Files = {f1, f2}
  Size <- OneBlock
  MaxBlock = 3
  MaxTxId = 3
  Limit = 2
  NoTx = NoTx
  NoFile = NoFile
  Ordered = TRUE
  Window = 1
  MaxLost = 0
  MaxDup = 0
  SenderRestarts = 1
  ReceiverRestarts = 1
  Disturbed = {f2}
  FailingCalls = {"removeMeta"}
  MaxFailures = 1
SPECIFICATION Spec
VIEW WithoutIncoming
INVARIANTS
  TypeOK
  SlotsFit
  OneSlotPerFile
