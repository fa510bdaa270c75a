SPECIFICATION FairSpec
CONSTANTS
  Positions = {p1, p2}
  States = {air, stone}
  Air = air
  Breakable = {stone}
  Placements = {stone}
  MaxPredictions = 2
  DestroyDelay = 1
  MaxPresses = 2
  Habits = {{}, {"corrects", "others"}, {"reloads", "respawns", "modes"}}
  Budget = 3
  None = None
  Unloaded = Unloaded
INVARIANTS TypeOK PredictionShown SteadyServerWins
PROPERTIES PredictionsResolve
CHECK_DEADLOCK FALSE
