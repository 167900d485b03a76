\* POSTs of up to three blocks over buffers that hold a packet or two.
SPECIFICATION Spec
CONSTANTS
  Requests = 2
  MaxBlocks = 3
  MaxAnswer = 2
  BufCapacity = 2
  InCapacity = 1
  OutCapacity = 1
INVARIANTS
  TypeOK
  AnswersOwn
  CleanWhenPooled
  ExchangeWhole
  OneBlockInFlight
PROPERTIES
  ExchangeEnds
