\* Pings, a refusal, the loss of the data connection, secrets that
\* differ, and the end of the program.  A session that fails leaves the other
\* one waiting, so the system may stop.
SPECIFICATION FairSpec
CONSTANTS
  Offers <- SmallOffers
  Codes = {"same", "differ", "apart"}
  QueueCap = 1
  WireCap = 1
  MaxPings = 2
  MayRefuse = TRUE
  DataMayBreak = TRUE
  MayExit = TRUE
INVARIANTS
  PanicMeansRefusal
  MisplacedMeansPinged
  SenderReturnsAfterTheFiles
  LossHasACause
PROPERTIES
  RequestsEnd
CHECK_DEADLOCK FALSE
