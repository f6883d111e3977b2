SPECIFICATION FairSystemSpec
CONSTANTS
  f1 = f1
  f2 = f2
  s1 = s1
  d1 = d1
  d2 = d2
  i1 = i1
  i2 = i2
  Forks = {f1}
  Services = {s1}
  Deployments = {d1, d2}
  Identifiers = {i1}
  Labels = {"app", "web"}
  Selector <- OwnSelectors
  PodLabels <- OwnPods
  Relabelled = {"app"}
  ForkSpecs <- Swapped
  ByName <- OneName
  Cut = {}
  Gone = Gone
  MaxUid = 2
  MaxEdits = 2
  MaxFaults = 1
  MaxDisturbances = 2
PROPERTIES AskedStaysServed
CHECK_DEADLOCK FALSE
