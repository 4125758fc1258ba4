\* Three connections on one name: a pair, and one that comes before, between or
\* after them.
\* The tasks end when the clients have gone, or block for good (see
\* RelayLockCycle.cfg), so the system may stop.
SPECIFICATION FairSpec
CONSTANTS
  c1 = c1  c2 = c2  c3 = c3  c4 = c4  c5 = c5
  n1 = n1
  None = None
  Conn = {c1, c2, c3}
  Name = {n1}
  RoomName <- ThreeOnOne
PROPERTIES
  FullRoomIsRelayed
  NamedRoomIsAnswered
CHECK_DEADLOCK FALSE
