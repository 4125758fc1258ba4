---------------------------- MODULE RelayServer ----------------------------
(***************************************************************************)
(* The relay of rust-croc (src/relay/server.rs): every accepted connection *)
(* gets a task that runs handle().  The tasks share one map of rooms,      *)
(* behind a tokio Mutex, and every room is behind a Mutex of its own.  The *)
(* first connection to name a room opens it and is kept alive with pings,  *)
(* the second joins it, and whichever of the two tasks then finds the room *)
(* full takes both sockets out of it and bridges them.                     *)
(*                                                                         *)
(* One action stands for the code between two points where another task    *)
(* can act on the same state: what a task does while it holds the locks    *)
(* that guard the state is one step.                                       *)
(***************************************************************************)
EXTENDS FiniteSets

CONSTANTS
  Conn,         \* the connections the listeners accept, on whichever port
  Name,         \* room names
  RoomName,     \* RoomName[c]: the name the client of c asks for
  None          \* no connection, no room, nobody

ASSUME RoomNameAssumption == RoomName \in [Conn -> Name]
ASSUME NoneAssumption == None \notin Conn

(***************************************************************************)
(* A connection opens at most one room, so the room (the Arc, which may    *)
(* outlive its place in the map) is identified with that connection.       *)
(***************************************************************************)
Room == Conn

VARIABLES
  pc,         \* pc[c]: where the task of connection c is in handle()
  alive,      \* alive[c]: the client's end of connection c is open
  last,       \* last[c]: what the server wrote or did to connection c last
  rooms,      \* rooms[n]: the room listed under name n
  roomsLock,  \* the task that holds the lock of the map
  first,      \* first[r]: the connection in Room.first
  second,     \* second[r]: the connection in Room.second
  roomLock,   \* roomLock[r]: the task that holds the lock of room r
  room,       \* room[c]: the local variable room of task c
  sender,     \* sender[c]: the local variable sender of task c
  receiver    \* receiver[c]: the local variable receiver of task c

vars == <<pc, alive, last, rooms, roomsLock, first, second, roomLock, room,
          sender, receiver>>

(***************************************************************************)
(* "peek" .. "name" are the awaits of the handshake, "lock_rooms" and      *)
(* "in_rooms" those of negotiate_info's tail, "find" .. "unlist" those of  *)
(* the rest of handle, "ka_find" and "ka_sleep" those of do_keepalive.     *)
(***************************************************************************)
Handshaking == {"peek", "password", "name"}
Unplaced == {"off", "lock_rooms", "in_rooms"} \cup Handshaking
Bridging == {"relaying", "unlist"}
PC == Unplaced \cup Bridging
        \cup {"find", "lock_room", "ka_find", "ka_sleep", "done"}

Sent == {"nothing", "pong", "banner", "room full", "ok", "ping", "relayed",
         "closed"}

TypeOK ==
  /\ pc \in [Conn -> PC]
  /\ alive \in [Conn -> BOOLEAN]
  /\ last \in [Conn -> Sent]
  /\ rooms \in [Name -> Room \cup {None}]
  /\ roomsLock \in Conn \cup {None}
  /\ first \in [Room -> Conn \cup {None}]
  /\ second \in [Room -> Conn \cup {None}]
  /\ roomLock \in [Room -> Conn \cup {None}]
  /\ room \in [Conn -> Room \cup {None}]
  /\ sender \in [Conn -> Conn \cup {None}]
  /\ receiver \in [Conn -> Conn \cup {None}]

Init ==
  /\ pc = [c \in Conn |-> "off"]
  /\ alive = [c \in Conn |-> FALSE]
  /\ last = [c \in Conn |-> "nothing"]
  /\ rooms = [n \in Name |-> None]
  /\ roomsLock = None
  /\ first = [r \in Room |-> None]
  /\ second = [r \in Room |-> None]
  /\ roomLock = [r \in Room |-> None]
  /\ room = [c \in Conn |-> None]
  /\ sender = [c \in Conn |-> None]
  /\ receiver = [c \in Conn |-> None]

roomState == <<rooms, roomsLock, first, second, roomLock>>
locals == <<room, sender, receiver>>

Goto(c, from, to) == pc[c] = from /\ pc' = [pc EXCEPT ![c] = to]
Tell(c, what) == last' = [last EXCEPT ![c] = what]

-----------------------------------------------------------------------------
(* The listener and the client's end of a connection.                      *)

\* run_instance accepts a connection and spawns handle() for it.
run_instance(c) ==
  /\ Goto(c, "off", "peek")
  /\ alive' = [alive EXCEPT ![c] = TRUE]
  /\ UNCHANGED <<last, roomState, locals>>

\* The client closes its end (it is done, it fails, it crashes).
ClientCloses(c) ==
  /\ alive[c]
  /\ alive' = [alive EXCEPT ![c] = FALSE]
  /\ UNCHANGED <<pc, last, roomState, locals>>

-----------------------------------------------------------------------------
(* The handshake.  Each step reads from the client, so it needs a client   *)
(* that is still there; a read that meets the end of the stream makes      *)
(* handle() return its error.                                              *)

\* The four peeked bytes are "ping": answer and hang up.
AnswerPing(c) ==
  /\ Goto(c, "peek", "done")
  /\ alive[c]
  /\ Tell(c, "pong")
  /\ UNCHANGED <<alive, roomState, locals>>

\* The key exchange and the salt of the encrypted session.
negotiate_symmetric_key(c) ==
  /\ Goto(c, "peek", "password")
  /\ alive[c]
  /\ UNCHANGED <<alive, last, roomState, locals>>

\* Mutant: the refusal of a wrong password is all that is sent.
CheckPasswordRefuses(c) ==
  /\ Goto(c, "password", "name")
  /\ alive[c]
  /\ \E good \in BOOLEAN : Tell(c, IF good THEN "banner" ELSE "bad password")
  /\ UNCHANGED <<alive, roomState, locals>>

\* A wrong password is answered with "bad password", and the banner is sent
\* all the same: the handler goes on as with a right one.
CheckPassword(c) ==
  /\ Goto(c, "password", "name")
  /\ alive[c]
  /\ Tell(c, "banner")
  /\ UNCHANGED <<alive, roomState, locals>>

\* The room name arrives.
ReadRoomName(c) ==
  /\ Goto(c, "name", "lock_rooms")
  /\ alive[c]
  /\ UNCHANGED <<alive, last, roomState, locals>>

HandshakeFails(c) ==
  /\ ~alive[c]
  /\ pc[c] \in Handshaking
  /\ pc' = [pc EXCEPT ![c] = "done"]
  /\ Tell(c, "closed")
  /\ UNCHANGED <<alive, roomState, locals>>

-----------------------------------------------------------------------------
(* The tail of negotiate_info: both locks, in the order map, room.         *)

\* Mutant: one taken slot is enough.
is_fullEither(r) == first[r] # None \/ second[r] # None

is_full(r) == first[r] # None /\ second[r] # None

LockRooms(c) ==
  /\ Goto(c, "lock_rooms", "in_rooms")
  /\ roomsLock = None
  /\ roomsLock' = c
  /\ UNCHANGED <<alive, last, rooms, first, second, roomLock, locals>>

\* No room has the name: answer "ok" and list a new room with c as its first.
CreateRoom(c) ==
  /\ Goto(c, "in_rooms", "find")
  /\ rooms[RoomName[c]] = None
  /\ Tell(c, "ok")
  /\ rooms' = [rooms EXCEPT ![RoomName[c]] = c]
  /\ first' = [first EXCEPT ![c] = c]
  /\ second' = [second EXCEPT ![c] = None]
  /\ roomsLock' = None
  /\ UNCHANGED <<alive, roomLock, locals>>

\* Mutant: is_full() is not asked.
JoinRoomUnchecked(c) ==
  LET r == rooms[RoomName[c]] IN
  /\ Goto(c, "in_rooms", "find")
  /\ r # None
  /\ roomLock[r] = None
  /\ Tell(c, "ok")
  /\ second' = [second EXCEPT ![r] = c]
  /\ roomsLock' = None
  /\ UNCHANGED <<alive, rooms, first, roomLock, locals>>

\* Mutant: the second connection's task returns, like that of a refused one.
JoinRoomReturns(c) ==
  LET r == rooms[RoomName[c]] IN
  /\ Goto(c, "in_rooms", "done")
  /\ r # None
  /\ roomLock[r] = None
  /\ ~is_full(r)
  /\ Tell(c, "ok")
  /\ second' = [second EXCEPT ![r] = c]
  /\ roomsLock' = None
  /\ UNCHANGED <<alive, rooms, first, roomLock, locals>>

\* The room exists.  Its lock is awaited with the lock of the map held; both
\* are released on return.
JoinRoom(c) ==
  LET r == rooms[RoomName[c]] IN
  /\ Goto(c, "in_rooms", "find")
  /\ r # None
  /\ roomLock[r] = None
  /\ ~is_full(r)
  /\ Tell(c, "ok")
  /\ second' = [second EXCEPT ![r] = c]
  /\ roomsLock' = None
  /\ UNCHANGED <<alive, rooms, first, roomLock, locals>>

RefuseFull(c) ==
  LET r == rooms[RoomName[c]] IN
  /\ Goto(c, "in_rooms", "done")
  /\ r # None
  /\ roomLock[r] = None
  /\ is_full(r)
  /\ Tell(c, "room full")
  /\ roomsLock' = None
  /\ UNCHANGED <<alive, rooms, first, second, roomLock, locals>>

\* Writing the answer to a client that has gone fails (it need not: the bytes
\* may still be accepted), and the locks are dropped with nothing changed.
AnswerFails(c) ==
  LET r == rooms[RoomName[c]] IN
  /\ Goto(c, "in_rooms", "done")
  /\ ~alive[c]
  /\ r # None => roomLock[r] = None
  /\ Tell(c, "closed")
  /\ roomsLock' = None
  /\ UNCHANGED <<alive, rooms, first, second, roomLock, locals>>

-----------------------------------------------------------------------------
(* The rest of handle().                                                   *)

\* Mutant: the guard of the map lives on.
FindRoomKeepsLock(c) ==
  LET r == rooms[RoomName[c]] IN
  /\ Goto(c, "find", IF r = None THEN "done" ELSE "lock_room")
  /\ roomsLock = None
  /\ roomsLock' = c
  /\ room' = [room EXCEPT ![c] = r]
  /\ UNCHANGED <<alive, last, rooms, first, second, roomLock, sender, receiver>>

\* Look the room up again, under the lock of the map.
FindRoom(c) ==
  LET r == rooms[RoomName[c]] IN
  /\ Goto(c, "find", IF r = None THEN "done" ELSE "lock_room")
  /\ roomsLock = None
  /\ room' = [room EXCEPT ![c] = r]
  /\ UNCHANGED <<alive, last, roomState, sender, receiver>>

\* Mutant: the guard of the room is dropped before the bridge is awaited.
StartRelayUnlocked(c) ==
  LET r == room[c] IN
  /\ Goto(c, "lock_room", "relaying")
  /\ roomLock[r] = None
  /\ is_full(r)
  /\ receiver' = [receiver EXCEPT ![c] = second[r]]
  /\ sender' = [sender EXCEPT ![c] = first[r]]
  /\ first' = [first EXCEPT ![r] = None]
  /\ second' = [second EXCEPT ![r] = None]
  /\ last' = [d \in Conn |->
                IF d \in {first[r], second[r]} THEN "relayed" ELSE last[d]]
  /\ UNCHANGED <<alive, rooms, roomsLock, roomLock, room>>

\* Mutant: as above, and the sockets are borrowed, not taken.
StartRelayBorrows(c) ==
  LET r == room[c] IN
  /\ Goto(c, "lock_room", "relaying")
  /\ roomLock[r] = None
  /\ is_full(r)
  /\ receiver' = [receiver EXCEPT ![c] = second[r]]
  /\ sender' = [sender EXCEPT ![c] = first[r]]
  /\ last' = [d \in Conn |->
                IF d \in {first[r], second[r]} THEN "relayed" ELSE last[d]]
  /\ UNCHANGED <<alive, rooms, roomsLock, first, second, roomLock, room>>

\* The room is full: take both sockets out of it and bridge them, with the
\* lock of the room held from here on.
StartRelay(c) ==
  LET r == room[c] IN
  /\ Goto(c, "lock_room", "relaying")
  /\ roomLock[r] = None
  /\ is_full(r)
  /\ roomLock' = [roomLock EXCEPT ![r] = c]
  /\ receiver' = [receiver EXCEPT ![c] = second[r]]
  /\ sender' = [sender EXCEPT ![c] = first[r]]
  /\ first' = [first EXCEPT ![r] = None]
  /\ second' = [second EXCEPT ![r] = None]
  /\ last' = [d \in Conn |->
                IF d \in {first[r], second[r]} THEN "relayed" ELSE last[d]]
  /\ UNCHANGED <<alive, rooms, roomsLock, room>>

\* The room is not full: drop its lock and turn to the keepalive.
StartKeepalive(c) ==
  /\ Goto(c, "lock_room", "ka_find")
  /\ roomLock[room[c]] = None
  /\ ~is_full(room[c])
  /\ UNCHANGED <<alive, last, roomState, locals>>

\* bridge_sockets() returns and both sockets are dropped.
relay_ends(c) ==
  /\ Goto(c, "relaying", "unlist")
  /\ last' = [d \in Conn |->
                IF d \in {sender[c], receiver[c]} THEN "closed" ELSE last[d]]
  /\ UNCHANGED <<alive, roomState, locals>>

\* Both clients have closed, so both directions meet the end of the stream.
relay_eof(c) ==
  /\ pc[c] = "relaying"
  /\ ~alive[sender[c]] /\ ~alive[receiver[c]]
  /\ relay_ends(c)

\* One client has closed and a write towards it (or a read after a reset)
\* fails: try_join! gives up the other direction as well.
relay_error(c) ==
  /\ pc[c] = "relaying"
  /\ alive[sender[c]] # alive[receiver[c]]
  /\ relay_ends(c)

\* Mutant: the room is emptied and left on the map.
UnlistRoomForgets(c) ==
  /\ Goto(c, "unlist", "done")
  /\ roomsLock = None
  /\ first' = [first EXCEPT ![room[c]] = None]
  /\ second' = [second EXCEPT ![room[c]] = None]
  /\ roomLock' = [roomLock EXCEPT ![room[c]] = None]
  /\ UNCHANGED <<alive, last, rooms, roomsLock, locals>>

\* Take the room off the map, with the lock of the room still held, and drop
\* both locks.
UnlistRoom(c) ==
  /\ Goto(c, "unlist", "done")
  /\ roomsLock = None
  /\ rooms' = [rooms EXCEPT ![RoomName[c]] = None]
  /\ first' = [first EXCEPT ![room[c]] = None]
  /\ second' = [second EXCEPT ![room[c]] = None]
  /\ roomLock' = [roomLock EXCEPT ![room[c]] = None]
  /\ UNCHANGED <<alive, last, roomsLock, locals>>

-----------------------------------------------------------------------------
(* do_keepalive(): looks the room up once more, then every second pings    *)
(* whatever connection is first in it.                                     *)

KeepaliveFind(c) ==
  /\ Goto(c, "ka_find", "ka_sleep")
  /\ roomsLock = None
  /\ room' = [room EXCEPT ![c] = rooms[RoomName[c]]]
  /\ UNCHANGED <<alive, last, roomState, sender, receiver>>

KeepalivePing(c) ==
  LET r == room[c] IN
  /\ pc[c] = "ka_sleep"
  /\ r # None
  /\ roomLock[r] = None
  /\ first[r] # None
  /\ Tell(first[r], "ping")
  /\ UNCHANGED <<pc, alive, roomState, locals>>

\* The write fails because the client has gone: the task stops, and the room
\* stays as it is.
KeepaliveError(c) ==
  LET r == room[c] IN
  /\ Goto(c, "ka_sleep", "done")
  /\ r # None
  /\ roomLock[r] = None
  /\ first[r] # None
  /\ ~alive[first[r]]
  /\ UNCHANGED <<alive, last, roomState, locals>>

\* The room had gone, or its first socket was taken by a relay.
KeepaliveStops(c) ==
  LET r == room[c] IN
  /\ Goto(c, "ka_sleep", "done")
  /\ r # None => roomLock[r] = None /\ first[r] = None
  /\ UNCHANGED <<alive, last, roomState, locals>>

-----------------------------------------------------------------------------
ServerStep(c) ==
  \/ HandshakeFails(c)
  \/ LockRooms(c) \/ CreateRoom(c) \/ JoinRoom(c) \/ RefuseFull(c)
  \/ AnswerFails(c) \/ FindRoom(c) \/ StartRelay(c) \/ StartKeepalive(c)
  \/ relay_eof(c) \/ UnlistRoom(c)
  \/ KeepaliveFind(c) \/ KeepaliveError(c) \/ KeepaliveStops(c)

ClientStep(c) ==
  \/ negotiate_symmetric_key(c) \/ CheckPassword(c) \/ ReadRoomName(c)

Next ==
  \E c \in Conn :
    \/ run_instance(c) \/ ClientCloses(c)
    \/ AnswerPing(c) \/ ClientStep(c)
    \/ ServerStep(c)
    \/ relay_error(c) \/ KeepalivePing(c)

Spec == Init /\ [][Next]_vars

(***************************************************************************)
(* Fairness.  A task that can move is run by tokio; a lock is granted in   *)
(* the order it was asked for (tokio's Mutex is fair), so a task that      *)
(* waits for a lock which is released again and again gets it: hence       *)
(* strong fairness of the server's steps.  A client that stays goes on     *)
(* with its handshake.  Nothing makes a client close, send a ping or send  *)
(* bytes over the bridge, so those steps have no fairness.                 *)
(***************************************************************************)
FairSpec ==
  /\ Spec
  /\ \A c \in Conn : SF_vars(ServerStep(c)) /\ WF_vars(ClientStep(c))

-----------------------------------------------------------------------------
(* Properties.                                                             *)

\* A client that was answered "ok" and has not been bridged yet is held in a
\* slot of the room that is listed under its name: no later connection, relay
\* or removal of a room may push it out or hide its room (server.rs:158-186,
\* 75-78).
WaitingClientIsHeld ==
  \A c \in Conn :
    last[c] \in {"ok", "ping"} =>
      LET r == rooms[RoomName[c]] IN
      r # None /\ c \in {first[r], second[r]}

\* A relay task bridges two different connections that asked for one and the
\* same room name, and no connection is in two bridges (server.rs:71-74).
BridgesAreProperPairs ==
  \A h \in Conn :
    pc[h] = "relaying" =>
      /\ {sender[h], receiver[h]} \subseteq Conn
      /\ sender[h] # receiver[h]
      /\ RoomName[sender[h]] = RoomName[receiver[h]]
      /\ \A g \in Conn \ {h} :
           pc[g] = "relaying" =>
             {sender[g], receiver[g]} \cap {sender[h], receiver[h]} = {}

\* A listed room whose lock is free still has its first connection, so nobody
\* joins a room in which there is nobody to be bridged with: the window in
\* which a relay has emptied the room is covered by the room's lock until the
\* room is off the map (server.rs:72-78).
ListedRoomHasFirst ==
  \A n \in Name :
    LET r == rooms[n] IN
    r # None /\ roomLock[r] = None => first[r] = r

\* The room that a task removes by name once its relay is over is the room it
\* relayed, not a newer one under the same name (server.rs:77-78).
UnlistsItsOwnRoom ==
  \A c \in Conn : pc[c] = "unlist" => rooms[RoomName[c]] = room[c]

\* The comment at server.rs:82-85: a keepalive is sent before the relay starts
\* and never after it, although the task that pings looks the room up again
\* and may ping another task's room.
KeepaliveOnlyBeforeRelay ==
  [][\A c \in Conn : last[c] \in {"relayed", "closed"} => last'[c] # "ping"]_last

\* No task waits for the lock of a room (holding the lock of the map) while
\* the task that holds that room waits for the lock of the map
\* (server.rs:158-161 against server.rs:70-77).
NoLockCycle ==
  ~ \E c, d \in Conn :
      /\ pc[c] = "in_rooms" /\ roomsLock = c
      /\ pc[d] = "unlist" /\ roomLock[room[d]] = d
      /\ rooms[RoomName[c]] = room[d]

\* A listed room that is not being relayed has a task that looks after it
\* (server.rs:92-126): once the keepalive has found the first connection
\* broken the room should be closed, as the comment at server.rs:112 says.
ListedRoomIsWatched ==
  \A n \in Name :
    LET r == rooms[n] IN
    r # None /\ roomLock[r] = None =>
      \E c \in Conn :
        RoomName[c] = n /\ pc[c] \in {"find", "lock_room", "ka_find", "ka_sleep"}

\* The task of d waits for a room that is being relayed, and nobody else gets the
\* lock of the map meanwhile.
WaitsForRelay(d) ==
  LET r == rooms[RoomName[d]] IN
  pc[d] = "in_rooms" /\ r # None /\ roomLock[r] # None

\* Two connections that have met in a room are bridged, whichever of their two
\* tasks gets there first, and whatever a third connection to the name does in
\* the meantime; only a connection to another name, one that waits for its relay
\* for ever, can stop them (server.rs:63-88, 158-161).
FullRoomIsRelayed ==
  \A c \in Conn :
    (\E r \in Room : second[r] = c) ~>
      \/ last[c] = "relayed"
      \/ [](\E d \in Conn : WaitsForRelay(d) /\ RoomName[d] # RoomName[c])

\* A connection that has named its room is answered, or one that waits for a
\* relay has the lock of the map for ever: nothing else, neither the death of a
\* client in any place nor the other tasks, blocks the relay
\* (server.rs:157-187).
NamedRoomIsAnswered ==
  \A c \in Conn :
    pc[c] = "lock_rooms" ~>
      \/ last[c] \in {"ok", "room full", "closed"}
      \/ [](\E d \in Conn : WaitsForRelay(d))
=============================================================================
