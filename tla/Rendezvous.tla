----------------------------- MODULE Rendezvous -----------------------------
(***************************************************************************)
(* What the relay promises its clients, with every lock, lookup and socket *)
(* left out: under each name one client waits as the host, one more joins  *)
(* it as the guest, the two meet, and only when they part is the name free *)
(* for others.  Nobody is served twice, replaced, or left out of a meeting *)
(* that was begun with it.                                                 *)
(***************************************************************************)
CONSTANTS
  Conn,      \* connections
  Name,      \* room names
  RoomName,  \* RoomName[c]: the name that c asks for
  None       \* nobody

VARIABLES
  host,   \* host[n]: who waits, or talks, under name n and came first
  guest,  \* guest[n]: who came second
  met     \* the pairs <<host, guest>> that have been put through

vars == <<host, guest, met>>

Init ==
  /\ host = [n \in Name |-> None]
  /\ guest = [n \in Name |-> None]
  /\ met = {}

Pair(n) == <<host[n], guest[n]>>

\* Nobody has had anything to do with c so far.
New(c) ==
  /\ \A n \in Name : c # host[n] /\ c # guest[n]
  /\ \A p \in met : c # p[1] /\ c # p[2]

Open(c) ==
  LET n == RoomName[c] IN
  /\ New(c)
  /\ host[n] = None
  /\ host' = [host EXCEPT ![n] = c]
  /\ UNCHANGED <<guest, met>>

Join(c) ==
  LET n == RoomName[c] IN
  /\ New(c)
  /\ host[n] # None /\ guest[n] = None
  /\ guest' = [guest EXCEPT ![n] = c]
  /\ UNCHANGED <<host, met>>

Meet(n) ==
  /\ guest[n] # None
  /\ Pair(n) \notin met
  /\ met' = met \cup {Pair(n)}
  /\ UNCHANGED <<host, guest>>

Part(n) ==
  /\ Pair(n) \in met
  /\ host' = [host EXCEPT ![n] = None]
  /\ guest' = [guest EXCEPT ![n] = None]
  /\ UNCHANGED met

Next ==
  \/ \E c \in Conn : Open(c) \/ Join(c)
  \/ \E n \in Name : Meet(n) \/ Part(n)

Spec == Init /\ [][Next]_vars
=============================================================================
