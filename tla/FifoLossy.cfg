CONSTANTS
  f1 = f1
  f2 = f2
  Files = {f1, f2}
  Size <- OneAndTwo
  MaxBlock = 3
  MaxTxId = 4
  Limit = 2
  NoTx = NoTx
  NoFile = NoFile
  Ordered = TRUE
  Window = 2
  MaxLost = 1
  MaxDup = 1
  SenderRestarts = 0
  ReceiverRestarts = 0
  Disturbed = {}
  FailingCalls = {"read", "remove", "removeMeta", "create", "write", "rename", "removeTemp"}
  MaxFailures = 1
SPECIFICATION Spec
VIEW WithoutMetaFiles
INVARIANTS
  NeverLost
  DeliveredIntact
  CompleteIsTrue
  ProgressOnDisk
PROPERTIES
  MovesSafely
