CONSTANTS
  p = p
  q = q
  Peers = {p, q}
  CommandLines <- Lines
  N = 3
  MaxMessages = 4
  MaxChannels = 2
  MaxDatagrams = 1
SPECIFICATION MCSpec
INVARIANTS
  RingTypeOK
  TornOnlyLapped
PROPERTIES
  ReadsInOrder
  EveryChannel
CHECK_DEADLOCK FALSE
