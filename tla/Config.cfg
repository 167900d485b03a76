SPECIFICATION Spec
CONSTANTS
  Families <- MCFamilies
  MaxFiles = 3
  Capacity = 6
  ResinHome <- MCHome
  Requests <- MCRequests
INVARIANTS
  TypeOK
  TreeAsWritten
  
  
  
  
  
