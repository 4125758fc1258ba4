--------------------------- MODULE RelayRendezvous ---------------------------
(***************************************************************************)
(* The relay implements Rendezvous.  The host of a name is the creator of  *)
(* the room that is listed under it, which is the room itself (see Room).  *)
(* The guest sits in the second slot until a relay takes it, and is that   *)
(* task's receiver from then on; the task holds the lock of the room.  Who *)
(* has met is kept in the tasks that relayed.                              *)
(***************************************************************************)
EXTENDS RelayServer

GuestOf(r) ==
  IF r = None THEN None
  ELSE IF roomLock[r] # None THEN receiver[roomLock[r]]
  ELSE second[r]

GuestAt == [n \in Name |-> GuestOf(rooms[n])]

MetPairs == {<<sender[h], receiver[h]>> : h \in {g \in Conn : sender[g] # None}}

Abstract == INSTANCE Rendezvous WITH host <- rooms, guest <- GuestAt, met <- MetPairs

\* In whatever order tasks look rooms up, wait for locks, die and clean up, the
\* clients see a rendezvous: a name is free or has a host; it gets one guest;
\* these two are put through once, and leave the name together
\* (server.rs:63-79, 158-187).
ImplementsRendezvous == Abstract!Spec
=============================================================================
