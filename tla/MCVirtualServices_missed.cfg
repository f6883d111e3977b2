SPECIFICATION FairSpec
CONSTANTS
  s1 = s1
  s2 = s2
  p1 = p1
  p2 = p2
  Configs = {1, 2}
  Services = {s1, s2}
  Values = {"x", "y"}
  Copies = {p1, p2}
  ConfigSpecs <- OwnHost
  Gone = Gone
  MaxUid = 1
  MaxEdits = 1
  MaxFaults = 1
PROPERTY AlwaysFollows
CHECK_DEADLOCK FALSE
