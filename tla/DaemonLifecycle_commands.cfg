SPECIFICATION Spec
CONSTANTS
  p1 = p1
  p2 = p2
  nopid = nopid
  c1 = c1
  c2 = c2
  Pid = {p1, p2}
  NoPid = nopid
  Command = {c1, c2}
  Mode = "Performance"
  Foreground = TRUE
  MaxFaults = 2
INVARIANTS
  TypeOK
  OneIfOrderly
  TrackedIfOrderly
  
PROPERTY
  SlotImplemented
CHECK_DEADLOCK FALSE
