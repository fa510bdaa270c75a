SPECIFICATION MailboxSpec
CONSTANTS
  Chunks = {c1, c2}
  Ids = {e1, e2}
  Versions = {v1}
  Targets = {}
  GameModes = {survival}
  MaxRemoteEntities = 1
  MaxResets = 2
  MaxSnaps = 0
  Gone = Gone
  NoDelta = NoDelta
  Nothing = Nothing
INVARIANTS PendingCompletesView CleanMeansCurrent PendingBounded
PROPERTIES Feeds
CHECK_DEADLOCK FALSE
