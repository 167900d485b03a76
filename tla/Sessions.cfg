\* Every request with up to two headers, and every value of an int of 6 bits.
SPECIFICATION Spec
CONSTANTS
  NoId = NoId
  Id <- FewIds
  MaxHeaders = 2
  SrunSize = 3
  IntMax = 31
  Time = {0, 5}
  Rand = {0, 3}
  Ip <- FewIps
INVARIANTS
  TypeOK
  HostInRange
  SessionStays
