SPECIFICATION PortSpec
CONSTANTS
  EventCapacity = 1
  CommandCapacity = 1
  MaxHealth = 2
  LowHealthThreshold = 1
  Kinds = {"chat", "world"}
  MaxPackets = 2
  MaxSends = 0
  None = None
INVARIANTS DrowningWarned
CHECK_DEADLOCK FALSE
