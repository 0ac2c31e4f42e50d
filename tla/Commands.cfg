CONSTANTS
  c1 = c1
  c2 = c2
  Commands = {c1, c2}
  Due <- Later
  Repeated = {c2}
  MaxTime = 2
  MaxCrashes = 1
  MaxFailures = 1
SPECIFICATION FairQueueSpec
INVARIANTS
  QueueTypeOK
  RunsBounded
  SavedIsQueue
  SavedNeverLost
PROPERTIES
  RunsInOrder
  EventuallyRun
