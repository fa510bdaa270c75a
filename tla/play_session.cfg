SPECIFICATION Spec
CONSTANTS
  Items <- MCItems
  MaxStack <- MCMaxStack
  Trait <- MCTrait
  GridSize = 1
  MainSize = 1
  HotbarSize = 2
  ChestSize = 1
  None = None
  Opaque <- MCOpaque
  Habits <- MCHabits
  Beginnings <- MCBeginnings
  MaxCommands = 2
  First = 1
  Ids = {1, 2, 3, 4}
  Coordinates = {c1, c2, c3}
  Fields = {blocks, light}
  MaxEntities = 2
  MaxChunks = 2
  Line = 1
  MaxInputs <- MCMaxInputs
  MaxEvents <- MCMaxEvents
INVARIANTS TypeOK Converged SessionSurvives WorldSound ViewAgrees Answered
PROPERTIES Conserved NoStaleMoves
CHECK_DEADLOCK FALSE
