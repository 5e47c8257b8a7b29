SPECIFICATION Spec
CONSTANTS
  animation = animation
  refresh = refresh
  chat = chat
  quest = quest
  arcade = arcade
  nogame = nogame
  r1 = r1
  Modes = {"Adaptive"}
  Key = {animation, refresh}
  BlindKey = {animation}
  App = {chat}
  Game = {quest}
  NoGame = nogame
  UserValues = {"user", "unset"}
  UserTweaks = {chat, "saver", "appops"}
  Restorer = {r1}
  MaxScripts = 2
  MaxRaces = 0
  MaxFaults = 0
  MaxLives = 1
  MaxBenches = 0
  MaxEdits = 0
INVARIANT
  ShutdownReverts
CHECK_DEADLOCK FALSE
