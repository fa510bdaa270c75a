SPECIFICATION Spec
CONSTANTS
  Keys = {forward}
  JournalCapacity = 1
  CommandCapacity = 1
  Turn = 2
  Track = 2
  MaxStep = 2
  Epsilon = 1
  ForcedInterval = 3
  MaxActions = 2
  MaxResets = 1
  None = None
INVARIANTS AcceptedAreServed
