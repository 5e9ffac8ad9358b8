SPECIFICATION FairSpec
CONSTANTS
  Requester = Requester
  Responder = Responder
  Window = 2
  MaxLength = 5
  Messages = 2
  MaxFaults = 2
  MaxPacket = 10
  MaxQueue = 6
CHECK_DEADLOCK FALSE
INVARIANTS
  TypeOK
  
PROPERTIES
  TransferEnds
