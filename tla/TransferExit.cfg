\* The program ends while chunks are still to be written.
SPECIFICATION Spec
CONSTANTS
  Offers <- PairOffer
  Codes = {"same"}
  QueueCap = 1
  WireCap = 1
  MaxPings = 0
  MayRefuse = FALSE
  DataMayBreak = FALSE
  MayExit = TRUE
INVARIANTS
  CompleteAtExit
CHECK_DEADLOCK FALSE
