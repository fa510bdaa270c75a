SPECIFICATION Spec
CONSTANTS
  Positions = {p1, p2}
  States = {air, stone, dirt}
  Air = air
  Breakable = {stone, dirt}
  Placements = {}
  MaxPredictions = 2
  DestroyDelay = 1
  MaxPresses = 0
  Habits = {{"others"}}
  Budget = 3
  None = None
  Unloaded = Unloaded
SYMMETRY Symmetry
INVARIANTS ServerWins
CHECK_DEADLOCK FALSE
