SPECIFICATION Spec
CONSTANTS
  f1 = f1
  f2 = f2
  f3 = f3
  nofile = nofile
  File = {f1, f2, f3}
  NoFile = nofile
  Cap = 2
  Burst = 2
  MaxSize = 7
INVARIANT
  OutputFindable
CHECK_DEADLOCK FALSE
