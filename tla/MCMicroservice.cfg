SPECIFICATION FairSpec
CONSTANTS
  f1 = f1
  f2 = f2
  s1 = s1
  s2 = s2
  d1 = d1
  i1 = i1
  i2 = i2
  Forks = {f1}
  Services = {s1, s2}
  Deployments = {d1}
  Identifiers = {i1, i2}
  Labels = {"app", "web"}
  Selector <- OwnSelectors
  PodLabels <- OwnPods
  Relabelled = {}
  ForkSpecs <- Changing
  Gone = Gone
  MaxUid = 2
  MaxEdits = 1
  MaxFaults = 1
INVARIANTS TypeOK InPlaceWhenDone
PROPERTIES BackedBeforeTrapped EventuallyInPlace
CHECK_DEADLOCK FALSE
