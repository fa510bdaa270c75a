SPECIFICATION PortFairSpec
CONSTANTS
  EventCapacity = 1
  CommandCapacity = 1
  MaxHealth = 2
  LowHealthThreshold = 1
  Kinds = {"chat", "world"}
  MaxPackets = 2
  MaxSends = 1
  None = None
INVARIANTS PortSound
PROPERTIES EndIsShown CloseEndsTask
CHECK_DEADLOCK FALSE
