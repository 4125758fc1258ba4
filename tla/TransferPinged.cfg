\* A ping on the data connection is taken for a chunk.
SPECIFICATION Spec
CONSTANTS
  Offers <- PairOffer
  Codes = {"same"}
  QueueCap = 1
  WireCap = 1
  MaxPings = 1
  MayRefuse = FALSE
  DataMayBreak = FALSE
  MayExit = FALSE
INVARIANTS
  ChunksGoToTheirOwnFile
CHECK_DEADLOCK FALSE
