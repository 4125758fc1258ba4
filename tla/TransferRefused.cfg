\* The sender does not survive a refusal.
SPECIFICATION Spec
CONSTANTS
  Offers <- PairOffer
  Codes = {"same"}
  QueueCap = 1
  WireCap = 1
  MaxPings = 0
  MayRefuse = TRUE
  DataMayBreak = FALSE
  MayExit = FALSE
INVARIANTS
  RefusalIsHandled
CHECK_DEADLOCK FALSE
