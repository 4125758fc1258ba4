\* A third client on a name that is being relayed blocks the relay for good.
SPECIFICATION Spec
CONSTANTS
  c1 = c1  c2 = c2  c3 = c3  c4 = c4  c5 = c5
  n1 = n1
  None = None
  Conn = {c1, c2, c3}
  Name = {n1}
  RoomName <- ThreeOnOne
INVARIANTS
  NoLockCycle
CHECK_DEADLOCK FALSE
