SPECIFICATION Spec
CONSTANTS
  Families <- MCIncludes
  MaxFiles = 2
  Capacity = 6
  ResinHome <- MCHome
  Requests <- MCRequests
INVARIANT
  IncludedInPlace
