SPECIFICATION TickSpec
CONSTANTS
  Keys = {forward}
  JournalCapacity = 1
  CommandCapacity = 1
  Turn = 2
  Track = 2
  MaxStep = 1
  Epsilon = 1
  ForcedInterval = 3
  MaxActions = 2
  MaxResets = 1
  None = None
  Cell = 2
  Extent <- MCExtent
  Worlds <- MCWorlds
  Width = 1
  StandingHeight = 4
  CrouchingHeight = 3
  StepHeight = 1
  Start <- MCStart
  Requests <- MCRequests
INVARIANTS TickTypeOK LookExact ServerInformed
PROPERTIES HeldStateArrives MovementSound
