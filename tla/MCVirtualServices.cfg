SPECIFICATION FairSpec
CONSTANTS
  s1 = s1
  s2 = s2
  p1 = p1
  p2 = p2
  Configs = {1, 2}
  Services = {s1, s2}
  Values = {"x", "y"}
  Copies = {p1, p2}
  ConfigSpecs <- Meeting
  Gone = Gone
  MaxUid = 2
  MaxEdits = 2
  MaxFaults = 1
INVARIANTS TypeOK RoutedWhenDone
PROPERTIES EventuallyRouted EventuallyUnrouted
CHECK_DEADLOCK FALSE
