\* The directives in any order.
SPECIFICATION Spec
CONSTANTS
  h1 = h1
  h2 = h2
  unknown = unknown
  NoHost = NoHost
  Host = {h1, h2}
  Unknown = {unknown}
  Capacity = 2
  MaxDirectives = 2
  MaxFile = 1
  FileFirst = FALSE
CHECK_DEADLOCK FALSE
INVARIANT SrunsAsAsked
