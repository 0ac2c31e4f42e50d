CONSTANTS
  data = data
  complete = complete
  metadata = metadata
  QueuePacket = queue
  Garbage = garbage
  DataPackets = {data}
  LockedAnswers = {metadata}
  Answers = {complete}
  MaxQueue = 1
  MaxRequests = 2
SPECIFICATION FairSpec
INVARIANTS
  TransmitTypeOK
  NothingVanishes
  KeepsAnswering
PROPERTIES
  ShutdownStays
  EventuallySent
  EndsAfterShutdown
CHECK_DEADLOCK FALSE
