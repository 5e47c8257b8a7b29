SPECIFICATION Spec
CONSTANTS
  p1 = p1
  p2 = p2
  p3 = p3
  nopid = nopid
  c1 = c1
  Pid = {p1, p2, p3}
  NoPid = nopid
  Command = {c1}
  Mode = "Adaptive"
  Foreground = FALSE
  MaxFaults = 0
INVARIANT
  RunningIsTracked
CHECK_DEADLOCK FALSE
