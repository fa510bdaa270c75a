SPECIFICATION MailboxFairSpec
CONSTANTS
  Chunks = {c1}
  Ids = {}
  Versions = {v1}
  Targets = {t1}
  GameModes = {survival, creative}
  MaxRemoteEntities = 1
  MaxResets = 2
  MaxSnaps = 2
  Gone = Gone
  NoDelta = NoDelta
  Nothing = Nothing
INVARIANTS PresentationSound
PROPERTIES CatchesUp
CHECK_DEADLOCK FALSE
