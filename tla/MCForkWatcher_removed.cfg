SPECIFICATION FairSpec
CONSTANTS
  n1 = n1
  n2 = n2
  f = f
  g = g
  Namespaces = {n1}
  Names = {f}
  ForkKeys <- OneFork
  Never = Never
  Gone = Gone
  MaxTime = 2
  Cap = 1
  MaxEdits = 1
  MaxFaults = 1
PROPERTY EventuallyRemoved
CHECK_DEADLOCK FALSE
