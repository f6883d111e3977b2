SPECIFICATION FairSpec
CONSTANTS
  f1 = f1
  f2 = f2
  m1 = m1
  m2 = m2
  h1 = h1
  h2 = h2
  i1 = i1
  i2 = i2
  k1 = k1
  k2 = k2
  k3 = k3
  k4 = k4
  Forks = {f1, f2}
  Managers = {m1, m2}
  Hosts = {h1, h2}
  Identifiers = {i1, i2}
  HeaderNames = {"id", "x", "y"}
  HeaderValues = {"1", "2"}
  HeaderKey <- IdHeader
  Upgrades = {"spdy"}
  Gone = Gone
  NoOwner = NoOwner
  NoLabel = NoLabel
  Keys = {k1, k2, k3, k4}
  MapKey <- OwnKeys
  Label <- OwnLabel
  ForkSpecs <- TwoValues
  HostSets <- OwnHosts
  ManualKeys = {}
  MaxEdits = 1
  MaxFaults = 0
  MaxDisturbances = 2
PROPERTY EventuallyQuiet
CHECK_DEADLOCK FALSE
