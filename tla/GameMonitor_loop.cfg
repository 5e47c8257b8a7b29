SPECIFICATION FairSpec
CONSTANTS
  quest = quest
  arcade = arcade
  home = home
  w1 = w1
  w2 = w2
  Packages = {quest, arcade, home}
  Games = {quest, arcade}
  Named = {arcade}
  Front = arcade
  Workers = {w1, w2}
  MaxSwitches = 2
  MaxFaults = 1
INVARIANTS
  TypeOK
  QuietWhenNoGame
  CancelledDoNothing
PROPERTY
  ResumedWhenNoGame
CHECK_DEADLOCK FALSE
