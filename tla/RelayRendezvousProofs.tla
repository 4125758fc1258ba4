----------------------- MODULE RelayRendezvousProofs -----------------------
(***************************************************************************)
(* The relay implements Rendezvous, for any set of connections and names.  *)
(* The invariant of RelayServerProofs says almost all that is needed; what *)
(* it lacks is that a task relays once and that the creator of a room,     *)
(* while it still waits, has not been anybody's sender.                    *)
(***************************************************************************)
EXTENDS RelayRendezvous, RelayServerProofs

USE RoomNameAssumption, NoneAssumption DEF Room

MetInv ==
  \A h \in Conn :
    /\ sender[h] # None => pc[h] \in Bridging \cup {"done"}
    /\ \A r \in Room : first[r] # None => sender[h] # r

\* What a step leaves to the abstraction when it changes neither the rooms nor
\* who relays.
Kept == UNCHANGED <<rooms, first, second, roomLock, sender, receiver>>

LEMMA KeptStutters == Kept => UNCHANGED <<rooms, GuestAt, MetPairs>>
BY DEF Kept, GuestAt, GuestOf, MetPairs

\* The steps of a task other than the four that the clients can notice, and those
\* of its client.
Quiet(c) ==
  \/ run_instance(c) \/ ClientCloses(c) \/ AnswerPing(c) \/ ClientStep(c)
  \/ HandshakeFails(c) \/ LockRooms(c) \/ RefuseFull(c) \/ AnswerFails(c)
  \/ FindRoom(c) \/ StartKeepalive(c) \/ relay_ends(c) \/ KeepaliveFind(c)
  \/ KeepalivePing(c) \/ KeepaliveError(c) \/ KeepaliveStops(c)

LEMMA NextIsQuietOrNot ==
  ASSUME Next
  PROVE  \E c \in Conn :
           Quiet(c) \/ CreateRoom(c) \/ JoinRoom(c) \/ StartRelay(c) \/ UnlistRoom(c)
BY DEF Next, ServerStep, Quiet, relay_eof, relay_error

\* A task that relays stays there or is done.
LEMMA QuietIsKept ==
  ASSUME IInv, NEW c \in Conn, Quiet(c)
  PROVE  /\ Kept
         /\ \A h \in Conn : pc[h] \in Bridging \cup {"done"} =>
                              pc'[h] \in Bridging \cup {"done"}
<1>1. Kept
  BY DEF Quiet, Kept, run_instance, ClientCloses, AnswerPing, ClientStep,
     negotiate_symmetric_key, CheckPassword, ReadRoomName, HandshakeFails,
     LockRooms, RefuseFull, AnswerFails, FindRoom, StartKeepalive, relay_ends,
     KeepaliveFind, KeepalivePing, KeepaliveError, KeepaliveStops, roomState,
     locals
<1>2. \/ pc' = pc
      \/ pc[c] \notin Bridging \cup {"done"} /\ \E to \in PC : pc' = [pc EXCEPT ![c] = to]
      \/ pc' = [pc EXCEPT ![c] = "unlist"]
  BY DEF Quiet, run_instance, ClientCloses, AnswerPing, ClientStep,
     negotiate_symmetric_key, CheckPassword, ReadRoomName, HandshakeFails,
     LockRooms, RefuseFull, AnswerFails, FindRoom, StartKeepalive, relay_ends,
     KeepaliveFind, KeepalivePing, KeepaliveError, KeepaliveStops, Goto, PC,
     Unplaced, Handshaking, Bridging
<1> QED
  BY <1>1, <1>2 DEF IInv, TypeOK, Bridging

LEMMA MetInvKept == IInv /\ MetInv /\ [Next]_vars => MetInv'
<1> SUFFICES ASSUME IInv, MetInv, [Next]_vars PROVE MetInv'
  OBVIOUS
<1>1. CASE UNCHANGED vars
  BY <1>1 DEF MetInv, vars
<1>2. ASSUME NEW c \in Conn, Quiet(c) PROVE MetInv'
  BY <1>2, QuietIsKept DEF MetInv, Kept
<1>3. ASSUME NEW c \in Conn, CreateRoom(c) PROVE MetInv'
  BY <1>3 DEF CreateRoom, Goto, locals, MetInv, IInv, TypeOK, FreshInv, Unplaced,
     Bridging
<1>4. ASSUME NEW c \in Conn, JoinRoom(c) PROVE MetInv'
  BY <1>4 DEF JoinRoom, Goto, locals, MetInv, IInv, TypeOK, Bridging
<1>5. ASSUME NEW c \in Conn, StartRelay(c) PROVE MetInv'
  <2>1. room[c] \in Room /\ first[room[c]] = room[c]
    BY <1>5 DEF StartRelay, Goto, is_full, IInv, TypeOK, NameInv, SlotInv
  <2> QED
    BY <1>5, <2>1 DEF StartRelay, Goto, MetInv, IInv, TypeOK, SlotInv, Bridging
<1>6. ASSUME NEW c \in Conn, UnlistRoom(c) PROVE MetInv'
  BY <1>6 DEF UnlistRoom, Goto, locals, MetInv, IInv, TypeOK, Bridging
<1> QED
  BY <1>1, <1>2, <1>3, <1>4, <1>5, <1>6, NextIsQuietOrNot

-----------------------------------------------------------------------------
(* The four steps that are steps of Rendezvous.                            *)

\* A connection that has not been answered is new to the abstraction as well.
LEMMA UnplacedIsNew ==
  ASSUME IInv, NEW c \in Conn, pc[c] \in Unplaced PROVE Abstract!New(c)
<1>1. ASSUME NEW n \in Name PROVE c # rooms[n] /\ c # GuestAt[n]
  BY DEF IInv, TypeOK, FreshInv, GuestAt, GuestOf
<1>2. ASSUME NEW p \in MetPairs PROVE c # p[1] /\ c # p[2]
  BY DEF IInv, FreshInv, MetPairs
<1> QED
  BY <1>1, <1>2 DEF Abstract!New

\* Rooms listed under different names are different rooms.
LEMMA OneNamePerRoom ==
  ASSUME IInv, NEW m \in Name, NEW n \in Name, rooms[m] # None, rooms[m] = rooms[n]
  PROVE  m = n
BY DEF IInv, NameInv

LEMMA CreateRoomOpens ==
  ASSUME IInv, NEW c \in Conn, CreateRoom(c) PROVE Abstract!Open(c)
<1> DEFINE n == RoomName[c]
<1>1. /\ pc[c] \in Unplaced /\ n \in Name /\ rooms[n] = None
      /\ rooms' = [rooms EXCEPT ![n] = c]
      /\ second' = [second EXCEPT ![c] = None]
      /\ UNCHANGED <<roomLock, sender, receiver>>
  BY DEF CreateRoom, Goto, Unplaced, locals
<1>2. roomLock[c] = None
  BY <1>1 DEF IInv, TypeOK, LockInv, FreshInv
<1>3. ASSUME NEW m \in Name PROVE GuestAt'[m] = GuestAt[m]
  <2>1. CASE m = n
    BY <1>1, <1>2, <2>1 DEF GuestAt, GuestOf, IInv, TypeOK
  <2>2. CASE m # n
    <3>1. rooms'[m] = rooms[m] /\ rooms[m] # c
      BY <1>1, <2>2 DEF IInv, TypeOK, FreshInv
    <3> QED
      BY <1>1, <3>1 DEF GuestAt, GuestOf, IInv, TypeOK
  <2> QED
    BY <2>1, <2>2
<1>4. GuestAt' = GuestAt
  BY <1>3 DEF GuestAt
<1>5. MetPairs' = MetPairs
  BY <1>1 DEF MetPairs
<1> QED
  BY <1>1, <1>4, <1>5, UnplacedIsNew DEF Abstract!Open

LEMMA JoinRoomJoins ==
  ASSUME IInv, NEW c \in Conn, JoinRoom(c) PROVE Abstract!Join(c)
<1> DEFINE n == RoomName[c]
           r == rooms[n]
<1>1. /\ pc[c] \in Unplaced /\ n \in Name /\ r # None /\ roomLock[r] = None
      /\ ~is_full(r)
      /\ second' = [second EXCEPT ![r] = c]
      /\ UNCHANGED <<rooms, roomLock, sender, receiver>>
  BY DEF JoinRoom, Goto, Unplaced, locals
<1>2. r \in Room /\ second[r] = None
  BY <1>1 DEF IInv, TypeOK, ListedRoomHasFirst, is_full
<1>3. GuestAt[n] = None
  BY <1>1, <1>2 DEF GuestAt, GuestOf
<1>4. ASSUME NEW m \in Name
      PROVE  GuestAt'[m] = [GuestAt EXCEPT ![n] = c][m]
  <2>1. CASE m = n
    BY <1>1, <1>2, <2>1 DEF GuestAt, GuestOf, IInv, TypeOK
  <2>2. CASE m # n
    <3>1. rooms[m] # r
      BY <1>1, <2>2, OneNamePerRoom
    <3> QED
      BY <1>1, <2>2, <3>1 DEF GuestAt, GuestOf, IInv, TypeOK
  <2> QED
    BY <2>1, <2>2
<1>5. GuestAt' = [GuestAt EXCEPT ![n] = c]
  BY <1>4 DEF GuestAt
<1>6. MetPairs' = MetPairs
  BY <1>1 DEF MetPairs
<1> QED
  BY <1>1, <1>3, <1>5, <1>6, UnplacedIsNew DEF Abstract!Join

\* The task takes lock and sockets in one step, so the guest of the name stays
\* the same connection, now as the task's receiver.
LEMMA StartRelayMeets ==
  ASSUME IInv, MetInv, NEW c \in Conn, StartRelay(c)
  PROVE  Abstract!Meet(RoomName[c])
<1> DEFINE n == RoomName[c]
           r == room[c]
<1>1. /\ pc[c] = "lock_room" /\ roomLock[r] = None
      /\ first[r] # None /\ second[r] # None
      /\ roomLock' = [roomLock EXCEPT ![r] = c]
      /\ receiver' = [receiver EXCEPT ![c] = second[r]]
      /\ sender' = [sender EXCEPT ![c] = first[r]]
      /\ second' = [second EXCEPT ![r] = None]
      /\ UNCHANGED rooms
  BY DEF StartRelay, Goto, is_full
<1>2. r \in Room /\ RoomName[r] = n /\ n \in Name
  BY <1>1 DEF IInv, TypeOK, NameInv
<1>3. first[r] = r /\ rooms[n] = r
  BY <1>1, <1>2 DEF IInv, SlotInv
<1>4. sender[c] = None /\ \A h \in Conn : sender[h] # r
  BY <1>1, <1>2 DEF MetInv, Bridging
<1>5. Abstract!Pair(n) = <<r, second[r]>> /\ GuestAt[n] = second[r]
  BY <1>1, <1>2, <1>3 DEF Abstract!Pair, GuestAt, GuestOf
<1>6. <<r, second[r]>> \notin MetPairs
  BY <1>4 DEF MetPairs
<1>7. MetPairs' = MetPairs \cup {<<r, second[r]>>}
  <2>1. sender'[c] = r /\ receiver'[c] = second[r]
    BY <1>1, <1>3 DEF IInv, TypeOK
  <2>2. \A h \in Conn : h # c => sender'[h] = sender[h] /\ receiver'[h] = receiver[h]
    BY <1>1 DEF IInv, TypeOK
  <2>3. c \in Conn /\ r # None
    BY <1>2
  <2> QED
    BY <1>4, <2>1, <2>2, <2>3 DEF MetPairs
<1>8. ASSUME NEW m \in Name PROVE GuestAt'[m] = GuestAt[m]
  <2>1. CASE m = n
    BY <1>1, <1>2, <1>3, <2>1 DEF GuestAt, GuestOf, IInv, TypeOK
  <2>2. CASE m # n
    <3>1. rooms[m] # r
      BY <1>2, <1>3, <2>2, OneNamePerRoom
    <3>2. rooms[m] # None => rooms[m] \in Room /\ roomLock[rooms[m]] # c
      BY <1>1 DEF IInv, TypeOK, LockInv, Bridging
    <3> QED
      BY <1>1, <3>1, <3>2 DEF GuestAt, GuestOf, IInv, TypeOK
  <2> QED
    BY <2>1, <2>2
<1>9. GuestAt' = GuestAt
  BY <1>8 DEF GuestAt
<1> QED
  BY <1>1, <1>5, <1>6, <1>7, <1>9 DEF Abstract!Meet

LEMMA UnlistRoomParts ==
  ASSUME IInv, NEW c \in Conn, UnlistRoom(c) PROVE Abstract!Part(RoomName[c])
<1> DEFINE n == RoomName[c]
           r == room[c]
<1>1. /\ pc[c] \in Bridging
      /\ rooms' = [rooms EXCEPT ![n] = None]
      /\ second' = [second EXCEPT ![r] = None]
      /\ roomLock' = [roomLock EXCEPT ![r] = None]
      /\ UNCHANGED <<sender, receiver>>
  BY DEF UnlistRoom, Goto, Bridging, locals
<1>2. /\ n \in Name /\ r \in Room /\ rooms[n] = r /\ roomLock[r] = c
      /\ sender[c] = r
  BY <1>1 DEF IInv, TypeOK, LockInv, BridgeInv
<1>3. Abstract!Pair(n) \in MetPairs
  BY <1>2 DEF Abstract!Pair, GuestAt, GuestOf, MetPairs
<1>4. ASSUME NEW m \in Name
      PROVE  GuestAt'[m] = [GuestAt EXCEPT ![n] = None][m]
  <2>1. CASE m = n
    BY <1>1, <1>2, <2>1 DEF GuestAt, GuestOf, IInv, TypeOK
  <2>2. CASE m # n
    <3>1. rooms[m] # r
      BY <1>2, <2>2, OneNamePerRoom
    <3> QED
      BY <1>1, <2>2, <3>1 DEF GuestAt, GuestOf, IInv, TypeOK
  <2> QED
    BY <2>1, <2>2
<1>5. GuestAt' = [GuestAt EXCEPT ![n] = None]
  BY <1>4 DEF GuestAt
<1>6. MetPairs' = MetPairs
  BY <1>1 DEF MetPairs
<1> QED
  BY <1>1, <1>3, <1>5, <1>6 DEF Abstract!Part

-----------------------------------------------------------------------------
LEMMA InitMaps == Init => MetInv /\ Abstract!Init
BY DEF Init, MetInv, Abstract!Init, GuestAt, GuestOf, MetPairs

\* Every step is one of Rendezvous or leaves its variables alone.
LEMMA StepMaps ==
  IInv /\ MetInv /\ [Next]_vars => [Abstract!Next]_(Abstract!vars)
<1> SUFFICES ASSUME IInv, MetInv, [Next]_vars
             PROVE  Abstract!Next \/ UNCHANGED <<rooms, GuestAt, MetPairs>>
  BY DEF Abstract!vars
<1>1. CASE UNCHANGED vars
  BY <1>1, KeptStutters DEF vars, Kept
<1>2. ASSUME NEW c \in Conn,
             Quiet(c) \/ CreateRoom(c) \/ JoinRoom(c) \/ StartRelay(c) \/ UnlistRoom(c)
      PROVE  Abstract!Next \/ UNCHANGED <<rooms, GuestAt, MetPairs>>
  <2>1. CASE Quiet(c)
    BY <2>1, QuietIsKept, KeptStutters
  <2>2. CASE CreateRoom(c) \/ JoinRoom(c)
    BY <2>2, CreateRoomOpens, JoinRoomJoins DEF Abstract!Next
  <2>3. CASE StartRelay(c) \/ UnlistRoom(c)
    <3>1. RoomName[c] \in Name
      OBVIOUS
    <3> QED
      BY <2>3, <3>1, StartRelayMeets, UnlistRoomParts DEF Abstract!Next
  <2> QED
    BY <1>2, <2>1, <2>2, <2>3
<1> QED
  BY <1>1, <1>2, NextIsQuietOrNot

\* For any number of connections and names, in whatever order tasks look rooms
\* up, wait for locks, die and clean up, the relay is a rendezvous
\* (server.rs:63-79, 158-187).
THEOREM RelayIsRendezvous == Spec => ImplementsRendezvous
<1>1. IInv /\ MetInv /\ [Next]_vars => MetInv'
  BY MetInvKept
<1>2. Spec => []MetInv
  BY <1>1, InitMaps, Inductive, PTL DEF Spec
<1> QED
  BY <1>2, InitMaps, StepMaps, Inductive, PTL
     DEF Spec, ImplementsRendezvous, Abstract!Spec
=============================================================================
