\* CauchoConfigFile first, as in the examples of doc/ref, or not at all.
SPECIFICATION Spec
CONSTANTS
  h1 = h1
  h2 = h2
  unknown = unknown
  NoHost = NoHost
  Host = {h1, h2}
  Unknown = {unknown}
  Capacity = 2
  MaxDirectives = 4
  MaxFile = 3
  FileFirst = TRUE
CHECK_DEADLOCK FALSE
INVARIANTS
  TypeOK
  SrunToTry
  SessionIsIndex
  SrunsAsAsked
