------------------------- MODULE RelayServerProofs -------------------------
(***************************************************************************)
(* Proofs about RelayServer, for any set of connections and room names:    *)
(* which client waits where, who bridges whom, and when a ping may come.   *)
(***************************************************************************)
EXTENDS RelayServer, TLAPS

(***************************************************************************)
(* The inductive invariant.  A room is created by, and named after, one    *)
(* connection; it is listed under its name exactly as long as it has a     *)
(* first connection or is being relayed; and the task that relays it owns  *)
(* its lock from the moment the sockets are taken out until it is off the  *)
(* map.                                                                    *)
(***************************************************************************)

\* Who holds the two kinds of lock follows from where the tasks are.
LockInv ==
  /\ \A c \in Conn : roomsLock = c <=> pc[c] = "in_rooms"
  /\ \A r \in Room, h \in Conn :
       roomLock[r] = h <=> pc[h] \in Bridging /\ room[h] = r

\* A room is listed under the name its creator asked for, and the room a task
\* has looked up is one of its own name.
NameInv ==
  /\ \A n \in Name : rooms[n] # None => RoomName[rooms[n]] = n
  /\ \A h \in Conn : room[h] # None => RoomName[room[h]] = RoomName[h]
  /\ \A h \in Conn : pc[h] = "lock_room" => room[h] # None

\* What the slots of a room may hold.
SlotInv ==
  \A r \in Room :
    /\ first[r] \in {None, r}
    /\ first[r] = r => rooms[RoomName[r]] = r
    /\ second[r] # None =>
         first[r] = r /\ second[r] # r /\ RoomName[second[r]] = RoomName[r]

\* A connection that has not been answered yet is nowhere in the rooms.
FreshInv ==
  \A c \in Conn :
    pc[c] \in Unplaced =>
      /\ last[c] \in {"nothing", "banner"}
      /\ first[c] = None
      /\ \A n \in Name : rooms[n] # c
      /\ \A r \in Room : second[r] # c
      /\ \A h \in Conn : room[h] # c /\ sender[h] # c /\ receiver[h] # c

\* A task that relays has the two connections of its room, which is listed
\* and empty.
BridgeInv ==
  \A h \in Conn :
    pc[h] \in Bridging =>
      /\ room[h] # None
      /\ rooms[RoomName[h]] = room[h]
      /\ first[room[h]] = None
      /\ sender[h] = room[h]
      /\ receiver[h] \in Conn
      /\ receiver[h] # room[h]
      /\ RoomName[receiver[h]] = RoomName[h]

\* The connections in the slots are the ones that wait.
WaitInv ==
  \A c \in Conn :
    (\E r \in Room : c \in {first[r], second[r]}) => last[c] \in {"ok", "ping"}

\* The whole of it, with the two properties that are part of the induction.
IInv ==
  /\ TypeOK
  /\ LockInv
  /\ NameInv
  /\ SlotInv
  /\ FreshInv
  /\ BridgeInv
  /\ WaitInv
  /\ WaitingClientIsHeld
  /\ ListedRoomHasFirst

-----------------------------------------------------------------------------
USE RoomNameAssumption, NoneAssumption DEF Room

\* Nobody is connected at first.
LEMMA InitIInv == Init => IInv
BY DEF Init, IInv, TypeOK, LockInv, NameInv, SlotInv, FreshInv, BridgeInv,
       WaitInv, WaitingClientIsHeld, ListedRoomHasFirst, Unplaced, Handshaking,
       Bridging, PC, Sent

\* A connection in the handshake is nowhere in the rooms, so neither its progress
\* nor what it is told concerns anybody else.
LEMMA HandshakeStep ==
  ASSUME IInv, NEW c \in Conn, pc[c] \in {"off"} \cup Handshaking,
         NEW to \in {"peek", "password", "name", "lock_rooms", "done"},
         NEW what \in Sent \ {"ok", "ping"},
         to = "done" \/ what \in {"nothing", "banner"},
         pc' = [pc EXCEPT ![c] = to], last' = [last EXCEPT ![c] = what],
         alive' \in [Conn -> BOOLEAN], UNCHANGED <<roomState, locals>>
  PROVE  IInv'
<1>1. /\ pc[c] \in Unplaced /\ pc[c] # "in_rooms" /\ pc[c] \notin Bridging
      /\ to \notin {"in_rooms", "lock_room"} \cup Bridging
  BY DEF Unplaced, Handshaking, Bridging
<1>2. TypeOK'
  BY DEF IInv, TypeOK, roomState, locals, PC, Unplaced, Handshaking, Bridging
<1>3. LockInv' /\ NameInv'
  BY <1>1 DEF IInv, TypeOK, LockInv, NameInv, roomState, locals
<1>4. FreshInv'
  BY <1>1 DEF IInv, TypeOK, FreshInv, roomState, locals, Unplaced, Handshaking
<1>5. BridgeInv'
  BY <1>1 DEF IInv, TypeOK, BridgeInv, roomState, locals
<1>6. WaitInv'
  BY <1>1 DEF IInv, TypeOK, WaitInv, SlotInv, FreshInv, roomState
<1>7. WaitingClientIsHeld'
  BY DEF IInv, TypeOK, WaitingClientIsHeld, roomState
<1>8. SlotInv' /\ ListedRoomHasFirst'
  BY DEF IInv, SlotInv, ListedRoomHasFirst, roomState
<1> QED BY <1>2, <1>3, <1>4, <1>5, <1>6, <1>7, <1>8 DEF IInv

\* The steps up to the room name.
LEMMA Handshake_IInv ==
  ASSUME IInv, NEW c \in Conn,
         \/ run_instance(c) \/ AnswerPing(c) \/ negotiate_symmetric_key(c)
         \/ CheckPassword(c) \/ ReadRoomName(c) \/ HandshakeFails(c)
  PROVE  IInv'
<1>1. last[c] \in Sent /\ last = [last EXCEPT ![c] = last[c]]
  BY DEF IInv, TypeOK
<1>2. pc[c] \in Unplaced => last[c] \in {"nothing", "banner"}
  BY DEF IInv, FreshInv
<1>3. CASE AnswerPing(c) \/ CheckPassword(c) \/ HandshakeFails(c)
  <2>1. PICK to \in {"name", "done"}, what \in {"pong", "banner", "closed"} :
          /\ pc' = [pc EXCEPT ![c] = to] /\ last' = [last EXCEPT ![c] = what]
          /\ to = "done" \/ what = "banner"
    BY <1>3 DEF AnswerPing, CheckPassword, HandshakeFails, Goto, Tell
  <2>2. /\ pc[c] \in {"off"} \cup Handshaking
        /\ alive' \in [Conn -> BOOLEAN] /\ UNCHANGED <<roomState, locals>>
    BY <1>3 DEF AnswerPing, CheckPassword, HandshakeFails, Goto, Handshaking,
       IInv, TypeOK
  <2> QED
    BY <2>1, <2>2, HandshakeStep DEF Sent
<1>4. CASE run_instance(c) \/ negotiate_symmetric_key(c) \/ ReadRoomName(c)
  <2>1. /\ pc[c] \in {"off"} \cup Handshaking /\ last' = last
        /\ \E to \in {"peek", "password", "lock_rooms"} :
             pc' = [pc EXCEPT ![c] = to]
        /\ alive' \in [Conn -> BOOLEAN] /\ UNCHANGED <<roomState, locals>>
    BY <1>4 DEF run_instance, negotiate_symmetric_key, ReadRoomName, Goto,
       Handshaking, IInv, TypeOK
  <2>2. last[c] \in {"nothing", "banner"}
    BY <1>2, <2>1 DEF Unplaced
  <2> QED
    BY <1>1, <2>1, <2>2, HandshakeStep
<1> QED
  BY <1>3, <1>4

\* The client's end is no part of the invariant.
LEMMA ClientCloses_IInv ==
  ASSUME IInv, NEW c \in Conn, ClientCloses(c) PROVE IInv'
<1>1. TypeOK'
  BY DEF IInv, TypeOK, ClientCloses, roomState, locals, PC, Sent, Unplaced,
         Handshaking, Bridging
<1>2. LockInv' /\ NameInv' /\ SlotInv' /\ FreshInv' /\ BridgeInv' /\
     WaitInv' /\ WaitingClientIsHeld' /\ ListedRoomHasFirst'
  BY DEF IInv, LockInv, NameInv, SlotInv, FreshInv, BridgeInv, WaitInv,
         WaitingClientIsHeld, ListedRoomHasFirst, ClientCloses, roomState,
         locals
<1> QED BY <1>1, <1>2 DEF IInv

\* Taking the lock of the map: it was free, so no other task is inside.
LEMMA LockRooms_IInv ==
  ASSUME IInv, NEW c \in Conn, LockRooms(c) PROVE IInv'
<1>1. TypeOK'
  BY DEF IInv, TypeOK, LockRooms, Goto, locals, PC, Sent, Unplaced,
         Handshaking, Bridging
<1>2. LockInv'
  BY DEF IInv, LockInv, LockRooms, Goto, locals, TypeOK, Bridging
<1>3. NameInv'
  BY DEF IInv, NameInv, LockRooms, Goto, locals, TypeOK
<1>4. FreshInv'
  BY DEF IInv, FreshInv, LockRooms, Goto, locals, TypeOK, Unplaced,
         Handshaking
<1>5. BridgeInv'
  BY DEF IInv, BridgeInv, LockRooms, Goto, locals, TypeOK, Bridging
<1>6. SlotInv' /\ WaitInv' /\ WaitingClientIsHeld' /\ ListedRoomHasFirst'
  BY DEF IInv, SlotInv, WaitInv, WaitingClientIsHeld, ListedRoomHasFirst,
         LockRooms, locals
<1> QED BY <1>1, <1>2, <1>3, <1>4, <1>5, <1>6 DEF IInv

\* The new room is named after a connection that was in no room, and its name
\* was free, so no task has a bridge under that name.
LEMMA CreateRoom_IInv ==
  ASSUME IInv, NEW c \in Conn, CreateRoom(c) PROVE IInv'
<1>1. TypeOK'
  BY DEF IInv, TypeOK, CreateRoom, Goto, Tell, locals, PC, Sent, Unplaced,
         Handshaking, Bridging
<1>2. LockInv'
  BY DEF IInv, LockInv, CreateRoom, Goto, Tell, locals, TypeOK, Bridging
<1>3. NameInv'
  BY DEF IInv, NameInv, CreateRoom, Goto, Tell, locals, TypeOK
<1>4. SlotInv'
  BY DEF IInv, SlotInv, CreateRoom, Goto, Tell, locals, TypeOK, FreshInv,
         Unplaced, Handshaking
<1>5. FreshInv'
  BY DEF IInv, FreshInv, CreateRoom, Goto, Tell, locals, TypeOK, Unplaced,
         Handshaking
<1>6. BridgeInv'
  BY DEF IInv, BridgeInv, CreateRoom, Goto, Tell, locals, TypeOK, Bridging,
         FreshInv, Unplaced, Handshaking
<1>7. WaitInv'
  BY DEF IInv, WaitInv, CreateRoom, Goto, Tell, locals, TypeOK
<1>8. WaitingClientIsHeld'
  BY DEF IInv, WaitingClientIsHeld, CreateRoom, Goto, Tell, locals, TypeOK,
         FreshInv, Unplaced, Handshaking
<1>9. ListedRoomHasFirst'
  BY DEF IInv, ListedRoomHasFirst, CreateRoom, Goto, Tell, locals, TypeOK
<1> QED BY <1>1, <1>2, <1>3, <1>4, <1>5, <1>6, <1>7, <1>8, <1>9 DEF IInv

\* The lock of the listed room is free, so its first connection is there
\* (ListedRoomHasFirst), and its second slot is empty.
LEMMA JoinRoom_IInv ==
  ASSUME IInv, NEW c \in Conn, JoinRoom(c) PROVE IInv'
<1>1. TypeOK'
  BY DEF IInv, TypeOK, JoinRoom, Goto, Tell, is_full, locals, PC, Sent,
         Unplaced, Handshaking, Bridging
<1>2. LockInv'
  BY DEF IInv, LockInv, JoinRoom, Goto, Tell, locals, TypeOK, Bridging
<1>3. NameInv'
  BY DEF IInv, NameInv, JoinRoom, Goto, Tell, is_full, locals, TypeOK
<1>4. SlotInv'
  BY DEF IInv, SlotInv, JoinRoom, Goto, Tell, is_full, locals, TypeOK,
         ListedRoomHasFirst, NameInv, FreshInv, Unplaced, Handshaking
<1>5. FreshInv'
  BY DEF IInv, FreshInv, JoinRoom, Goto, Tell, is_full, locals, TypeOK,
         Unplaced, Handshaking
<1>6. BridgeInv'
  BY DEF IInv, BridgeInv, JoinRoom, Goto, Tell, is_full, locals, TypeOK,
         Bridging
<1>7. WaitInv'
  BY DEF IInv, WaitInv, JoinRoom, Goto, Tell, is_full, locals, TypeOK
<1>8. WaitingClientIsHeld'
  BY DEF IInv, WaitingClientIsHeld, JoinRoom, Goto, Tell, is_full, locals,
         TypeOK, ListedRoomHasFirst
<1>9. ListedRoomHasFirst'
  BY DEF IInv, ListedRoomHasFirst, JoinRoom, locals
<1> QED BY <1>1, <1>2, <1>3, <1>4, <1>5, <1>6, <1>7, <1>8, <1>9 DEF IInv

\* A task that returns from negotiate_info without having changed the rooms.
LEMMA NotPlaced_IInv ==
  ASSUME IInv, NEW c \in Conn, RefuseFull(c) \/ AnswerFails(c)
  PROVE  IInv'
<1>1. /\ pc[c] = "in_rooms" /\ pc' = [pc EXCEPT ![c] = "done"]
      /\ roomsLock' = None
      /\ UNCHANGED <<alive, rooms, first, second, roomLock>>
      /\ UNCHANGED <<room, sender, receiver>>
  BY DEF RefuseFull, AnswerFails, Goto, Tell, locals
<1>2. \E what \in {"room full", "closed"} : last' = [last EXCEPT ![c] = what]
  BY DEF RefuseFull, AnswerFails, Tell
<1>3. TypeOK'
  BY <1>1, <1>2 DEF IInv, TypeOK, PC, Sent
<1>4. LockInv'
  <2>1. ASSUME NEW d \in Conn, d # c PROVE pc[d] # "in_rooms"
    BY <1>1, <2>1 DEF IInv, LockInv
  <2>2. \A d \in Conn : pc'[d] # "in_rooms" /\ roomsLock' # d
    BY <1>1, <2>1 DEF IInv, TypeOK
  <2>3. \A d \in Conn : pc'[d] \in Bridging <=> pc[d] \in Bridging
    BY <1>1 DEF IInv, TypeOK, Bridging
  <2>4. \A r \in Room, h \in Conn :
          roomLock'[r] = h <=> pc'[h] \in Bridging /\ room'[h] = r
    BY <1>1, <2>3 DEF IInv, LockInv
  <2> QED
    BY <2>2, <2>4 DEF LockInv
<1>5. NameInv' /\ BridgeInv'
  BY <1>1 DEF IInv, TypeOK, NameInv, BridgeInv, Bridging
<1>6. FreshInv'
  BY <1>1, <1>2, ZenonT(40) DEF IInv, TypeOK, FreshInv, Unplaced, Handshaking
<1>7. WaitInv'
  <2>1. \A r \in Room : c \notin {first[r], second[r]}
    BY <1>1 DEF IInv, SlotInv, FreshInv, Unplaced
  <2> QED
    BY <1>1, <1>2, <2>1 DEF IInv, TypeOK, WaitInv
<1>8. WaitingClientIsHeld'
  BY <1>1, <1>2 DEF IInv, TypeOK, WaitingClientIsHeld
<1>9. SlotInv' /\ ListedRoomHasFirst'
  BY <1>1 DEF IInv, SlotInv, ListedRoomHasFirst
<1> QED BY <1>3, <1>4, <1>5, <1>6, <1>7, <1>8, <1>9 DEF IInv

\* The room found under a name is a room of that name.
LEMMA FindRoom_IInv ==
  ASSUME IInv, NEW c \in Conn, FindRoom(c) PROVE IInv'
<1>1. TypeOK'
  BY DEF IInv, TypeOK, FindRoom, Goto, roomState, PC, Sent, Unplaced,
         Handshaking, Bridging
<1>2. LockInv'
  BY DEF IInv, LockInv, FindRoom, Goto, roomState, TypeOK, Bridging
<1>3. NameInv'
  BY DEF IInv, NameInv, FindRoom, Goto, roomState, TypeOK
<1>4. FreshInv'
  BY DEF IInv, FreshInv, FindRoom, Goto, roomState, TypeOK, Unplaced,
         Handshaking
<1>5. BridgeInv'
  BY DEF IInv, BridgeInv, FindRoom, Goto, roomState, TypeOK, Bridging
<1>6. SlotInv' /\ WaitInv' /\ WaitingClientIsHeld' /\ ListedRoomHasFirst'
  BY DEF IInv, SlotInv, WaitInv, WaitingClientIsHeld, ListedRoomHasFirst,
         FindRoom, roomState
<1> QED BY <1>1, <1>2, <1>3, <1>4, <1>5, <1>6 DEF IInv

\* Both sockets leave the room under its lock, which the task keeps.
LEMMA StartRelay_IInv ==
  ASSUME IInv, NEW c \in Conn, StartRelay(c) PROVE IInv'
<1>a. room[c] \in Room /\ first[room[c]] \in Conn /\ second[room[c]] \in Conn
  BY DEF IInv, TypeOK, NameInv, StartRelay, Goto, is_full
<1>1. TypeOK'
  <2>1. /\ pc' = [pc EXCEPT ![c] = "relaying"]
        /\ roomLock' = [roomLock EXCEPT ![room[c]] = c]
        /\ receiver' = [receiver EXCEPT ![c] = second[room[c]]]
        /\ sender' = [sender EXCEPT ![c] = first[room[c]]]
        /\ first' = [first EXCEPT ![room[c]] = None]
        /\ second' = [second EXCEPT ![room[c]] = None]
        /\ UNCHANGED <<alive, rooms, roomsLock, room>>
    BY DEF StartRelay, Goto
  <2>2. last' \in [Conn -> Sent]
    BY DEF IInv, TypeOK, StartRelay, Sent
  <2> QED
    BY <1>a, <2>1, <2>2 DEF IInv, TypeOK, PC, Bridging
<1>2. LockInv'
  BY DEF IInv, LockInv, StartRelay, Goto, TypeOK, Bridging
<1>3. NameInv'
  BY DEF IInv, NameInv, StartRelay, Goto, is_full, TypeOK
<1>4. SlotInv'
  BY DEF IInv, SlotInv, StartRelay, Goto, is_full, TypeOK
<1>5. FreshInv'
  BY DEF IInv, FreshInv, StartRelay, Goto, is_full, TypeOK, Unplaced,
         Handshaking, NameInv, SlotInv
<1>6. BridgeInv'
  BY DEF IInv, BridgeInv, StartRelay, Goto, is_full, TypeOK, Bridging,
         NameInv, SlotInv, LockInv
<1>7. WaitInv'
  BY DEF IInv, WaitInv, StartRelay, Goto, is_full, TypeOK, NameInv, SlotInv
<1>8. WaitingClientIsHeld'
  BY DEF IInv, WaitingClientIsHeld, StartRelay, Goto, is_full, TypeOK
<1>9. ListedRoomHasFirst'
  BY DEF IInv, ListedRoomHasFirst, StartRelay, Goto, is_full, TypeOK
<1> QED BY <1>1, <1>2, <1>3, <1>4, <1>5, <1>6, <1>7, <1>8, <1>9 DEF IInv

\* Neither end of a bridge is in a slot: the sender's room is listed under the
\* name and empty, so no other room of that name holds either of them.
LEMMA relay_ends_IInv ==
  ASSUME IInv, NEW c \in Conn, relay_ends(c) PROVE IInv'
<1>1. TypeOK'
  BY DEF IInv, TypeOK, relay_ends, Goto, roomState, locals, PC, Sent,
         Unplaced, Handshaking, Bridging
<1>2. LockInv'
  BY DEF IInv, LockInv, relay_ends, Goto, roomState, locals, TypeOK,
         Bridging
<1>3. NameInv'
  BY DEF IInv, NameInv, relay_ends, Goto, roomState, locals, TypeOK
<1>4. FreshInv'
  <2>1. /\ pc[c] = "relaying"
        /\ pc' = [pc EXCEPT ![c] = "unlist"]
        /\ UNCHANGED <<rooms, first, second, room, sender, receiver>>
        /\ \A d \in Conn : d \notin {sender[c], receiver[c]} => last'[d] = last[d]
    BY DEF relay_ends, Goto, roomState, locals
  <2> QED
    BY <2>1 DEF IInv, TypeOK, FreshInv, Unplaced, Handshaking
<1>5. BridgeInv'
  BY DEF IInv, BridgeInv, relay_ends, Goto, roomState, locals, TypeOK,
         Bridging
<1>6. WaitInv'
  <2> DEFINE own == room[c]
  <2>1. /\ own \in Room /\ sender[c] = own /\ receiver[c] \in Conn
        /\ rooms[RoomName[c]] = own /\ first[own] = None
        /\ RoomName[receiver[c]] = RoomName[c] /\ receiver[c] # own
        /\ RoomName[own] = RoomName[c]
    BY DEF IInv, TypeOK, BridgeInv, NameInv, relay_ends, Goto, Bridging
  <2>2. ASSUME NEW d \in {sender[c], receiver[c]}, NEW r \in Room,
               d \in {first[r], second[r]}
        PROVE  FALSE
    <3>1. d \in Conn /\ RoomName[d] = RoomName[own]
      BY <2>1, <2>2
    <3>2. RoomName[r] = RoomName[own] /\ first[r] = r /\ rooms[RoomName[r]] = r
      BY <2>2, <3>1 DEF IInv, TypeOK, SlotInv
    <3> QED
      BY <2>1, <3>2
  <2> QED
    BY <2>2 DEF IInv, TypeOK, WaitInv, relay_ends, roomState
<1>7. WaitingClientIsHeld'
  BY DEF IInv, WaitingClientIsHeld, relay_ends, Goto, roomState, locals,
         TypeOK
<1>8. SlotInv' /\ ListedRoomHasFirst'
  BY DEF IInv, SlotInv, ListedRoomHasFirst, relay_ends, roomState, locals
<1> QED BY <1>1, <1>2, <1>3, <1>4, <1>5, <1>6, <1>7, <1>8 DEF IInv

\* The name removed is that of the task's own room, which no client waits in.
LEMMA UnlistRoom_IInv ==
  ASSUME IInv, NEW c \in Conn, UnlistRoom(c) PROVE IInv'
<1>1. TypeOK'
  BY DEF IInv, TypeOK, UnlistRoom, Goto, locals, PC, Sent, Unplaced,
         Handshaking, Bridging
<1>2. LockInv'
  BY DEF IInv, LockInv, UnlistRoom, Goto, locals, TypeOK, Bridging
<1>3. NameInv'
  BY DEF IInv, NameInv, UnlistRoom, Goto, locals, TypeOK
<1>4. SlotInv'
  BY DEF IInv, SlotInv, UnlistRoom, Goto, locals, TypeOK, BridgeInv,
         Bridging
<1>5. FreshInv'
  BY DEF IInv, FreshInv, UnlistRoom, Goto, locals, TypeOK, Unplaced,
         Handshaking
<1>6. BridgeInv'
  BY DEF IInv, BridgeInv, UnlistRoom, Goto, locals, TypeOK, Bridging,
         LockInv, NameInv
<1>7. WaitInv'
  BY DEF IInv, WaitInv, UnlistRoom, Goto, locals, TypeOK
<1>8. WaitingClientIsHeld'
  BY DEF IInv, WaitingClientIsHeld, UnlistRoom, Goto, locals, TypeOK,
         BridgeInv, Bridging, SlotInv, NameInv
<1>9. ListedRoomHasFirst'
  BY DEF IInv, ListedRoomHasFirst, UnlistRoom, Goto, locals, TypeOK,
         BridgeInv, Bridging, NameInv
<1> QED BY <1>1, <1>2, <1>3, <1>4, <1>5, <1>6, <1>7, <1>8, <1>9 DEF IInv

\* The steps of a task that has been placed and does not relay: it finds a room
\* of its own name, perhaps another task's, and otherwise only moves.
LEMMA Keepalive_IInv ==
  ASSUME IInv, NEW c \in Conn,
         \/ StartKeepalive(c) \/ KeepaliveFind(c) \/ KeepaliveError(c)
         \/ KeepaliveStops(c)
  PROVE  IInv'
<1>1. /\ pc[c] \in {"lock_room", "ka_find", "ka_sleep"}
      /\ \E to \in {"ka_find", "ka_sleep", "done"} : pc' = [pc EXCEPT ![c] = to]
      /\ room' \in {room, [room EXCEPT ![c] = rooms[RoomName[c]]]}
      /\ UNCHANGED <<alive, last, rooms, roomsLock, first, second, roomLock>>
      /\ UNCHANGED <<sender, receiver>>
  BY DEF StartKeepalive, KeepaliveFind, KeepaliveError, KeepaliveStops, Goto,
     roomState, locals
<1>2. rooms[RoomName[c]] \in Room \cup {None}
  BY DEF IInv, TypeOK
<1>3. TypeOK'
  BY <1>1, <1>2 DEF IInv, TypeOK, PC
<1>4. LockInv'
  BY <1>1 DEF IInv, TypeOK, LockInv, Bridging
<1>5. NameInv'
  BY <1>1 DEF IInv, TypeOK, NameInv
<1>6. FreshInv'
  BY <1>1 DEF IInv, TypeOK, FreshInv, Unplaced, Handshaking
<1>7. BridgeInv'
  BY <1>1 DEF IInv, TypeOK, BridgeInv, Bridging
<1>8. SlotInv' /\ WaitInv' /\ WaitingClientIsHeld' /\ ListedRoomHasFirst'
  BY <1>1 DEF IInv, SlotInv, WaitInv, WaitingClientIsHeld, ListedRoomHasFirst
<1> QED BY <1>3, <1>4, <1>5, <1>6, <1>7, <1>8 DEF IInv

\* The connection that is pinged is in a slot, so it was told "ok".
LEMMA KeepalivePing_IInv ==
  ASSUME IInv, NEW c \in Conn, KeepalivePing(c) PROVE IInv'
<1>1. TypeOK'
  BY DEF IInv, TypeOK, KeepalivePing, Tell, roomState, locals, PC, Sent,
         Unplaced, Handshaking, Bridging
<1>2. FreshInv'
  BY DEF IInv, FreshInv, KeepalivePing, Tell, roomState, locals, TypeOK,
         Unplaced, Handshaking, SlotInv
<1>3. WaitInv'
  BY DEF IInv, WaitInv, KeepalivePing, Tell, roomState, locals, TypeOK
<1>4. WaitingClientIsHeld'
  BY DEF IInv, WaitingClientIsHeld, KeepalivePing, Tell, roomState, locals,
         TypeOK, WaitInv
<1>5. LockInv' /\ NameInv' /\ SlotInv' /\ BridgeInv' /\ ListedRoomHasFirst'
  BY DEF IInv, LockInv, NameInv, SlotInv, BridgeInv, ListedRoomHasFirst,
         KeepalivePing, roomState, locals
<1> QED BY <1>1, <1>2, <1>3, <1>4, <1>5 DEF IInv

\* Every step preserves the inductive invariant.
LEMMA NextIInv == IInv /\ [Next]_vars => IInv'
<1> SUFFICES ASSUME IInv, [Next]_vars PROVE IInv'
  OBVIOUS
<1>1. CASE UNCHANGED vars
  <2>1. TypeOK' /\ LockInv' /\ NameInv' /\ SlotInv' /\ FreshInv'
    BY <1>1 DEF IInv, vars, TypeOK, LockInv, NameInv, SlotInv, FreshInv
  <2>2. BridgeInv' /\ WaitInv' /\ WaitingClientIsHeld' /\ ListedRoomHasFirst'
    BY <1>1 DEF IInv, vars, BridgeInv, WaitInv, WaitingClientIsHeld,
                ListedRoomHasFirst
  <2> QED BY <2>1, <2>2 DEF IInv
<1>2. ASSUME NEW c \in Conn, ServerStep(c) PROVE IInv'
  BY <1>2, Handshake_IInv, LockRooms_IInv, CreateRoom_IInv, JoinRoom_IInv,
     NotPlaced_IInv, FindRoom_IInv, StartRelay_IInv, relay_ends_IInv,
     UnlistRoom_IInv, Keepalive_IInv
     DEF ServerStep, relay_eof
<1>3. ASSUME NEW c \in Conn, ClientStep(c) PROVE IInv'
  BY <1>3, Handshake_IInv DEF ClientStep
<1>4. ASSUME NEW c \in Conn,
             \/ run_instance(c) \/ ClientCloses(c) \/ AnswerPing(c)
             \/ relay_error(c) \/ KeepalivePing(c)
      PROVE  IInv'
  BY <1>4, Handshake_IInv, ClientCloses_IInv, relay_ends_IInv,
     KeepalivePing_IInv DEF relay_error
<1> QED
  BY <1>1, <1>2, <1>3, <1>4 DEF Next

\* The invariant holds in every reachable state.
THEOREM Inductive == Spec => []IInv
  BY InitIInv, NextIInv, PTL DEF Spec

-----------------------------------------------------------------------------
(* What follows from it.                                                   *)

\* The state is well-typed for any set of connections and names.
THEOREM TypeCorrect == Spec => []TypeOK
<1>1. IInv => TypeOK
  BY DEF IInv
<1> QED
  BY <1>1, Inductive, PTL

\* No client that was told to wait is ever lost: it sits in the listed room of
\* its name until a relay takes it (server.rs:158-186).
THEOREM WaitingClientsAreHeld == Spec => []WaitingClientIsHeld
<1>1. IInv => WaitingClientIsHeld
  BY DEF IInv
<1> QED
  BY <1>1, Inductive, PTL

\* Nobody can join a listed room whose first connection is gone: the lock of
\* the room covers the whole relay (server.rs:72-78).
THEOREM ListedRoomsHaveFirst == Spec => []ListedRoomHasFirst
<1>1. IInv => ListedRoomHasFirst
  BY DEF IInv
<1> QED
  BY <1>1, Inductive, PTL

\* A task that removes a room by its name removes the room it relayed
\* (server.rs:77-78).
THEOREM RoomsAreUnlistedByTheirOwnTask == Spec => []UnlistsItsOwnRoom
<1>1. IInv => UnlistsItsOwnRoom
  BY DEF IInv, BridgeInv, UnlistsItsOwnRoom, Bridging
<1> QED
  BY <1>1, Inductive, PTL

\* Bridges join two connections of one name, and are disjoint: two tasks that
\* relay hold the locks of different rooms, both of which are listed, so under
\* different names (server.rs:70-74).
LEMMA BridgesFollow == IInv => BridgesAreProperPairs
<1> SUFFICES ASSUME IInv, NEW h \in Conn, pc[h] = "relaying"
             PROVE  /\ {sender[h], receiver[h]} \subseteq Conn
                    /\ sender[h] # receiver[h]
                    /\ RoomName[sender[h]] = RoomName[receiver[h]]
                    /\ \A g \in Conn \ {h} :
                         pc[g] = "relaying" =>
                           {sender[g], receiver[g]}
                             \cap {sender[h], receiver[h]} = {}
  BY DEF BridgesAreProperPairs
<1>1. ASSUME NEW g \in Conn, pc[g] = "relaying"
      PROVE  /\ room[g] \in Room /\ roomLock[room[g]] = g
             /\ sender[g] = room[g] /\ receiver[g] \in Conn
             /\ rooms[RoomName[g]] = room[g] /\ receiver[g] # room[g]
             /\ RoomName[room[g]] = RoomName[g]
             /\ RoomName[receiver[g]] = RoomName[g]
  BY <1>1 DEF IInv, TypeOK, LockInv, NameInv, BridgeInv, Bridging
<1>2. ASSUME NEW g \in Conn \ {h}, pc[g] = "relaying"
      PROVE  {sender[g], receiver[g]} \cap {sender[h], receiver[h]} = {}
  <2>1. room[g] # room[h]
    BY <1>1, <1>2
  <2>2. RoomName[g] # RoomName[h]
    BY <1>1, <1>2, <2>1
  <2> QED
    BY <1>1, <1>2, <2>2
<1> QED
  BY <1>1, <1>2

\* What the relay tasks join is always a pair of one name, and no connection is
\* in two bridges (server.rs:71-74).
THEOREM Bridges == Spec => []BridgesAreProperPairs
  BY Inductive, BridgesFollow, PTL

\* Only a connection that still waits in a slot is pinged, so no ping follows
\* the start of a relay: the claim of the comment at server.rs:82-85.
LEMMA NoPingAfterRelay ==
  IInv /\ [Next]_vars =>
    \A d \in Conn : last[d] \in {"relayed", "closed"} => last'[d] # "ping"
<1> SUFFICES ASSUME IInv, [Next]_vars, NEW d \in Conn,
                    last[d] \in {"relayed", "closed"}
             PROVE  last'[d] # "ping"
  OBVIOUS
<1>1. CASE UNCHANGED last
  BY <1>1
<1>2. ASSUME NEW c \in Conn, KeepalivePing(c) PROVE last'[d] # "ping"
  <2>1. /\ room[c] \in Room /\ first[room[c]] \in Conn
        /\ last' = [last EXCEPT ![first[room[c]]] = "ping"]
    BY <1>2 DEF IInv, TypeOK, KeepalivePing, Tell
  <2>2. last[first[room[c]]] \in {"ok", "ping"}
    BY <2>1 DEF IInv, WaitInv
  <2> QED
    BY <2>1, <2>2 DEF IInv, TypeOK
<1>3. ASSUME NEW c \in Conn, NEW what \in Sent \ {"ping"}, Tell(c, what)
      PROVE  last'[d] # "ping"
  BY <1>3 DEF IInv, TypeOK, Tell
<1>4. ASSUME NEW c \in Conn, AnswerPing(c) \/ ClientStep(c)
      PROVE  last'[d] # "ping"
  BY <1>1, <1>3, <1>4 DEF AnswerPing, ClientStep, negotiate_symmetric_key,
     CheckPassword, ReadRoomName, Sent
<1>5. ASSUME NEW c \in Conn, StartRelay(c) \/ relay_ends(c)
      PROVE  last'[d] # "ping"
  BY <1>5 DEF StartRelay, relay_ends
<1>6. ASSUME NEW c \in Conn, ServerStep(c) PROVE last'[d] # "ping"
  BY <1>1, <1>3, <1>5, <1>6 DEF ServerStep, HandshakeFails, LockRooms,
     CreateRoom, JoinRoom, RefuseFull, AnswerFails, FindRoom, StartKeepalive,
     relay_eof, UnlistRoom, KeepaliveFind, KeepaliveError, KeepaliveStops, Sent
<1> QED
  BY <1>1, <1>2, <1>4, <1>5, <1>6 DEF Next, vars, run_instance, ClientCloses,
     relay_error

\* No step of a behaviour pings a connection whose relay has started or ended
\* (server.rs:82-85).
THEOREM PingsComeBeforeTheRelay == Spec => KeepaliveOnlyBeforeRelay
<1>1. IInv /\ [Next]_vars =>
        [\A c \in Conn :
           last[c] \in {"relayed", "closed"} => last'[c] # "ping"]_last
  BY NoPingAfterRelay
<1> QED
  BY <1>1, Inductive, PTL DEF Spec, KeepaliveOnlyBeforeRelay
=============================================================================
