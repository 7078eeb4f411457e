\* Three messages over sockets that hold six bytes.
SPECIFICATION Spec
CONSTANTS
  Message <- OneAndThreeBytes
  MyId <- NodeId
  Chunk = 2
  Capacity = 6
  MaxSent = 3
INVARIANTS
  TypeOK
PROPERTIES
  ImplementsLink
  OnlyFullSocketsStall
CHECK_DEADLOCK FALSE
