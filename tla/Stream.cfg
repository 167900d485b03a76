SPECIFICATION Spec
CONSTANTS
  Base = 8
  BufLength = 8
  ValueSize = 2
  Payload <- MCPayload
  Answer <- MCAnswer
  MaxWrites = 2
  MaxAnswer = 1
  SocketBuf = 10
INVARIANTS
  TypeOK
  
  EndInStep
PROPERTY
  ImplementsPipes
