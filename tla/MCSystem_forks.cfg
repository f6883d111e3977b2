SPECIFICATION FairSystemSpec
CONSTANTS
  f1 = f1
  f2 = f2
  s1 = s1
  d1 = d1
  d2 = d2
  i1 = i1
  i2 = i2
  Forks = {f1, f2}
  Services = {s1}
  Deployments = {d1}
  Identifiers = {i1, i2}
  Labels = {"app", "web"}
  Selector <- OwnSelectors
  PodLabels <- OwnPods
  Relabelled = {"app"}
  ForkSpecs <- TwoForks
  ByName <- TwoForkNames
  Cut = {}
  Gone = Gone
  MaxUid = 2
  MaxEdits = 1
  MaxFaults = 0
  MaxDisturbances = 1
PROPERTIES ImplementsTraffic EventuallyServed
CHECK_DEADLOCK FALSE
