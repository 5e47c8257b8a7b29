SPECIFICATION Spec
CONSTANTS
  animation = animation
  refresh = refresh
  chat = chat
  quest = quest
  arcade = arcade
  nogame = nogame
  r1 = r1
  r2 = r2
  Modes = {"Adaptive"}
  Key = {animation}
  BlindKey = {animation}
  App = {}
  Game = {quest}
  NoGame = nogame
  UserValues = {"user"}
  UserTweaks = {}
  Restorer = {r1, r2}
  MaxScripts = 2
  MaxRaces = 1
  MaxFaults = 1
  MaxLives = 2
  MaxBenches = 0
  MaxEdits = 0
INVARIANT
  NoBlindGameExit
PROPERTY
  SnapshotKept
CHECK_DEADLOCK FALSE
