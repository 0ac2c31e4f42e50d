CONSTANTS
  ip = ip
  other = other
  Payload = {ip, other}
  Version = {ip}
  Packets <- TwoPackets
  BufSize = 3
  MaxFaults = 2
SPECIFICATION FairSpec
INVARIANTS
  InPhase
  FrameByFrame
PROPERTIES
  WireSpec
  EventuallyDelivered
CHECK_DEADLOCK FALSE
