SPECIFICATION FairSpec
CONSTANTS
  QueueLen = 3
  Resumers = {w1, w2}
  MaxKills = 2
INVARIANTS
  TypeOK
  QueueProgress
  AtMostOneLateStart
PROPERTIES
  ImplementsQueue
  ResumeReachesParked
  QueueDrains
