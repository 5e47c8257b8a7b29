SPECIFICATION Spec
CONSTANTS
  quest = quest
  chat = chat
  settings = settings
  launcher = launcher
  word = word
  none = none
  Name = {quest, chat, settings}
  Word = {word}
  NoName = none
  Named = {quest}
  Excluded = {settings}
  Safe = {settings}
  Tenths <- MCTenths
  Width = 6
  UserApp = {chat}
  GameApp = {quest}
  NoTarget = none
  Rate = "120.0"
  MaxText = 5
  MaxLines = 4
  MaxModes = 3
INVARIANTS
  PackageExtracted
  GamesFirst
  PrioritizedIsSuspended
  SecondaryAreUserApps
  RatesAreModes
  LockedRateIsMode
  ClockExact
  GameUndone
  PerformanceUndone
CHECK_DEADLOCK FALSE
