\* Safety of the rooms when a name is used again.  The tasks end, or block for
\* good (see RelayLockCycle.cfg), so the system may stop.
SPECIFICATION Spec
CONSTANTS
  c1 = c1  c2 = c2  c3 = c3  c4 = c4  c5 = c5
  n1 = n1
  None = None
  Conn = {c1, c2, c3, c4, c5}
  Name = {n1}
  RoomName <- FiveOnOne
SYMMETRY FiveSymmetry
INVARIANTS
  TypeOK
  WaitingClientIsHeld
  BridgesAreProperPairs
  ListedRoomHasFirst
  UnlistsItsOwnRoom
PROPERTIES
  KeepaliveOnlyBeforeRelay
  ImplementsRendezvous
CHECK_DEADLOCK FALSE
