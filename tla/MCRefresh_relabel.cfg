SPECIFICATION FairSpec
CONSTANTS
  p = p
  q = q
  a = a
  b = b
  n1 = n1
  n2 = n2
  n3 = n3
  Parents = {p}
  Names = {n1, n2}
  Ids = {a, b}
  NoId = NoId
  NoName = NoName
  NoOwner = NoOwner
  Absent = Absent
  Wants <- OneWants
  ObjName <- OneObjName
  StoredId <- IdByField
  UserOps = {"relabel"}
  MaxUid = 1
  MaxEdits = 1
  MaxFaults = 0
PROPERTY EventuallyConverged
CHECK_DEADLOCK FALSE
