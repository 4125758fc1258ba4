\* Clients and relay, message by message.
\* The tasks end when the clients have gone, so the system may stop.
SPECIFICATION ClientsFairSpec
CONSTANTS
  alice = alice  bob = bob  wrong = wrong  n1 = n1
  None = None
  Conn = {alice, bob, wrong}
  Name = {n1}
  RoomName <- OneName
  BadPassword = {wrong}
  Sender = {alice}
  Secrets <- SharedSecrets
  MayCrash = {bob}
  MaxPings = 2
INVARIANTS
  ClientsTypeOK
  WordsReachThePeer
  PingsPrecedeWords
  FailureHasACause
PROPERTIES
  ClientsMeet
  WrongPasswordEnds
CHECK_DEADLOCK FALSE
