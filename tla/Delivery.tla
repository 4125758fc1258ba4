------------------------------ MODULE Delivery ------------------------------
(***************************************************************************)
(* What a transfer without a fault promises, with every message, queue and *)
(* task left out: the chunks of the files are taken over file by file, in  *)
(* any order within a file; each is stored once it has been taken; and the *)
(* two sessions return, the sender's first, when all of them are taken.    *)
(***************************************************************************)
EXTENDS Integers

VARIABLES
  wanted,    \* the chunks to be delivered, each with its file
  taken,     \* those that the receiver has taken over
  stored,    \* those that are on its disk
  returned   \* the sessions that have returned

vars == <<wanted, taken, stored, returned>>

Init ==
  /\ \A c \in wanted : c.into \in Nat
  /\ taken = {} /\ stored = {} /\ returned = {}

Take(c) ==
  /\ c \in wanted \ taken
  /\ \A d \in wanted : d.into < c.into => d \in taken
  /\ taken' = taken \cup {c}
  /\ UNCHANGED <<wanted, stored, returned>>

Store(c) ==
  /\ c \in taken \ stored
  /\ stored' = stored \cup {c}
  /\ UNCHANGED <<wanted, taken, returned>>

Return(p) ==
  /\ taken = wanted
  /\ p = "receiver" => "sender" \in returned
  /\ returned' = returned \cup {p}
  /\ UNCHANGED <<wanted, taken, stored>>

Next ==
  \/ \E c \in wanted : Take(c) \/ Store(c)
  \/ \E p \in {"sender", "receiver"} : Return(p)

Spec == Init /\ [][Next]_vars
=============================================================================
