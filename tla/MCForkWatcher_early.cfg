SPECIFICATION Spec
CONSTANTS
  n1 = n1
  n2 = n2
  f = f
  g = g
  Namespaces = {n1, n2}
  Names = {f, g}
  ForkKeys <- TwoForks
  Never = Never
  Gone = Gone
  MaxTime = 1
  Cap = 1
  MaxEdits = 1
  MaxFaults = 1
PROPERTY RemovedOnlyAtDeadline
CHECK_DEADLOCK FALSE
