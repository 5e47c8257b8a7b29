SPECIFICATION Spec
CONSTANTS
  quest = quest
  arcade = arcade
  home = home
  w1 = w1
  w2 = w2
  Packages = {quest, arcade, home}
  Games = {quest, arcade}
  Named = {arcade}
  Front = home
  Workers = {w1, w2}
  MaxSwitches = 4
  MaxFaults = 0
SYMMETRY WorkerSymmetry
INVARIANT
  SuspendedWhileGame
CHECK_DEADLOCK FALSE
