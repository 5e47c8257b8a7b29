SPECIFICATION FairSpec
CONSTANTS
  QueueLen = 2
  Resumers = {w1}
  MaxKills = 1
PROPERTY ResumedMeansDone
