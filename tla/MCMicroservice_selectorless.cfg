SPECIFICATION Spec
CONSTANTS
  f1 = f1
  f2 = f2
  s1 = s1
  s2 = s2
  d1 = d1
  i1 = i1
  i2 = i2
  Forks = {f1}
  Services = {s1}
  Deployments = {d1}
  Identifiers = {i1, i2}
  Labels = {"app", "web"}
  Selector <- NoSelector
  PodLabels <- OwnPods
  Relabelled = {}
  ForkSpecs <- Selectorless
  Gone = Gone
  MaxUid = 1
  MaxEdits = 0
  MaxFaults = 0
INVARIANT OnlyRoutableCopied
CHECK_DEADLOCK FALSE
