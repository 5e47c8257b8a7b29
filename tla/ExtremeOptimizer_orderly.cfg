SPECIFICATION Spec
CONSTANTS
  animation = animation
  refresh = refresh
  chat = chat
  quest = quest
  arcade = arcade
  nogame = nogame
  r1 = r1
  Modes = {"Adaptive", "Performance"}
  Key = {animation}
  BlindKey = {animation}
  App = {chat}
  Game = {quest}
  NoGame = nogame
  UserValues = {"user"}
  UserTweaks = {"saver"}
  Restorer = {r1}
  MaxScripts = 2
  MaxRaces = 0
  MaxFaults = 0
  MaxLives = 1
  MaxBenches = 1
  MaxEdits = 1
INVARIANTS
  TypeOK
  FlagTellsDevice
  PerformanceRetained
  SnapshotIsPreTweak
CHECK_DEADLOCK FALSE
