\* A transfer without a fault, through queues of one and two places.  The
\* sessions end, so the system stops.
SPECIFICATION FairSpec
CONSTANTS
  Offers <- IntactOffers
  Codes = {"same"}
  QueueCap = 1
  WireCap = 2
  MaxPings = 0
  MayRefuse = FALSE
  DataMayBreak = FALSE
  MayExit = FALSE
INVARIANTS
  TypeOK
  ChunksGoToTheirOwnFile
  FinishedMeansReceived
  SenderLeavesNothingBehind
PROPERTIES
  TransferCompletes
  ImplementsDelivery
CHECK_DEADLOCK FALSE
