\* The way from one client's MpscCrocProto to the other's.
\* Everything ends when both clients have gone, so the system may stop.
SPECIFICATION FairSpec
CONSTANTS
  MaxSaid = 2
  QueueCap = 1
  SocketCap = 2
  CopyCap = 2
  MayBreak = TRUE
INVARIANTS
  TypeOK
  StreamIsIntact
PROPERTIES
  ImplementsLine
  MessagesArrive
  EndIsTold
  BridgeEndsWithItsClients
CHECK_DEADLOCK FALSE
