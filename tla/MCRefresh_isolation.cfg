SPECIFICATION Spec
CONSTANTS
  p = p
  q = q
  a = a
  b = b
  n1 = n1
  n2 = n2
  n3 = n3
  Parents = {p, q}
  Names = {n1, n2, n3}
  Ids = {a, b}
  NoId = NoId
  NoName = NoName
  NoOwner = NoOwner
  Absent = Absent
  Wants <- MCWants
  ObjName <- MCObjName
  StoredId <- IdByField
  UserOps = {"delete", "drift", "relabel", "disown"}
  MaxUid = 2
  MaxEdits = 2
  MaxFaults = 0
PROPERTIES DeletesOnlyUnwanted OthersUntouched
CHECK_DEADLOCK FALSE
