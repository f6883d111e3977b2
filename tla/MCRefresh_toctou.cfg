SPECIFICATION Spec
CONSTANTS
  p = p
  q = q
  a = a
  b = b
  n1 = n1
  n2 = n2
  n3 = n3
  Parents = {p}
  Names = {n1, n2}
  Ids = {a, b}
  NoId = NoId
  NoName = NoName
  NoOwner = NoOwner
  Absent = Absent
  Wants <- OneWants
  ObjName <- OneObjName
  StoredId <- IdByField
  UserOps = {"disown"}
  MaxUid = 2
  MaxEdits = 3
  MaxFaults = 1
PROPERTIES DeletesOnlyOwned
CHECK_DEADLOCK FALSE
