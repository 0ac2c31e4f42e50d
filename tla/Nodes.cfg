CONSTANTS
  x = x
  y = y
  Names = {x, y}
  Ends = {1, 2}
  Peer <- EachOther
  Listings <- BothOrders
  MaxRestarts = 1
  MaxFaults = 1
  Window = 1
SPECIFICATION FairNodesSpec
INVARIANTS
  RightNode
PROPERTIES
  NodesServed
