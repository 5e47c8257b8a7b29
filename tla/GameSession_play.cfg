SPECIFICATION SessionFairSpec
CONSTANTS
  Packages = {quest, home}
  Games = {quest}
  Named = {quest}
  Front = home
  Workers = {w}
  MaxSwitches = 2
  MaxFaults = 1
  QueueLen = 1
  MaxKills = 1
INVARIANTS
  CompilesBesideGame
  WaitsForNobody
PROPERTY
  GamesOverQueueDone
CHECK_DEADLOCK FALSE
