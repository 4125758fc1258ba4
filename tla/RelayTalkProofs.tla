-------------------------- MODULE RelayTalkProofs --------------------------
(***************************************************************************)
(* Proofs about the conversation between the clients, the relay and the    *)
(* peers in RelayClients, for any number of clients, room names, secrets   *)
(* and pings: what is on the way, where a client is in its handshake, and  *)
(* why one gives up.                                                       *)
(***************************************************************************)
EXTENDS RelayClientsProofs, SequenceTheorems

Gone == {"crashed", "panicked", "failed"}

Silent(c) == said[c] = <<>> /\ heard[c] = <<>>

(***************************************************************************)
(* Where a client and its task are.                                        *)
(***************************************************************************)

\* The client has not connected.
Absent(c) ==
  /\ cl[c] \in {"start", "failed"}
  /\ cl[c] = "failed" => secret[c] < 4
  /\ ~alive[c] /\ pc[c] = "off"
  /\ up[c] = <<>> /\ down[c] = <<>> /\ Silent(c)

HasLeft(c) == cl[c] \in Gone /\ ~alive[c] /\ pc[c] # "off" /\ secret[c] >= 4

\* The handshake, up to the answer of the relay: one of the two has the word.
Knocking(c) ==
  /\ alive[c] /\ Silent(c)
  /\ \/ /\ cl[c] = "key"
        /\ \/ pc[c] = "peek" /\ up[c] = <<"key">> /\ down[c] = <<>>
           \/ pc[c] = "password" /\ up[c] = <<>> /\ down[c] = <<"key">>
     \/ /\ cl[c] = "banner"
        /\ \/ pc[c] = "password" /\ up[c] = <<"salt", "password">> /\ down[c] = <<>>
           \/ /\ pc[c] = "name" /\ up[c] = <<>>
              /\ down[c] = IF c \in BadPassword THEN <<"bad password", "banner">>
                           ELSE <<"banner">>
     \/ /\ cl[c] = "answer" /\ c \notin BadPassword /\ down[c] = <<>>
        /\ \/ pc[c] = "name" /\ up[c] = <<"room">>
           \/ pc[c] \in {"lock_rooms", "in_rooms"} /\ up[c] = <<>>

\* The room was full.
Refused(c) ==
  /\ alive[c] /\ Silent(c) /\ pc[c] \notin Unplaced
  /\ cl[c] = "answer" /\ last[c] = "room full"
  /\ up[c] = <<>> /\ down[c] = <<"room full">>

\* The client is in its room, bridged or not yet, or has been.
InRoom(c) ==
  /\ alive[c] /\ pc[c] \notin Unplaced
  /\ last[c] \in {"ok", "ping", "relayed", "closed"}
  /\ cl[c] \in {"answer", "keepalive", "net", "session"}
  /\ cl[c] = "answer" => up[c] = <<>> /\ Silent(c)
  /\ cl[c] = "keepalive" => c \in Sender /\ Silent(c)
  /\ cl[c] = "net" =>
       IF c \in Sender THEN said[c] = <<>> /\ heard[c] # <<>>
       ELSE said[c] = <<"handshake">>
  /\ cl[c] = "session" => IF c \in Sender THEN heard[c] # <<>> ELSE said[c] # <<>>

Stage(c) ==
  \/ Absent(c) \/ HasLeft(c)
  \/ secret[c] >= 4 /\ (Knocking(c) \/ Refused(c) \/ InRoom(c))

(***************************************************************************)
(* What clients say, and what is on its way.                               *)
(***************************************************************************)

\* Only a receiver says "handshake", as its first word, and a sender does not
\* speak before it has heard something.
Speech(c) ==
  /\ \A i \in 1..Len(said[c]) :
       said[c][i] = "handshake" <=> c \notin Sender /\ i = 1
  /\ c \in Sender /\ said[c] # <<>> => heard[c] # <<>>

\* What a client finds on its way to it has been sent for a reason, and words of
\* the peer only come once it is bridged, after everything else.
Downward(c) ==
  /\ \A i \in 1..Len(down[c]) :
       /\ down[c][i] = "bad password" => c \in BadPassword
       /\ down[c][i] = "room full" => last[c] = "room full"
       /\ down[c][i] = "ping" => c \in pinged
  /\ last[c] \notin {"relayed", "closed"} =>
       heard[c] = <<>> /\ \A i \in 1..Len(down[c]) : down[c][i] \notin PeerSays
  /\ \A i, j \in 1..Len(down[c]) :
       i < j /\ down[c][i] \in PeerSays => down[c][j] \in PeerSays
  /\ heard[c] # <<>> => \A i \in 1..Len(down[c]) : down[c][i] \in PeerSays

\* The relay has read all of the handshake before it lets a client in, also of
\* one that has left.
Upward(c) ==
  /\ pc[c] \in {"lock_rooms", "in_rooms"} => up[c] = <<>>
  /\ last[c] \in {"ok", "ping", "relayed"} => up[c] \in Seq(PeerSays)
  /\ alive[c] /\ last[c] \in {"ok", "ping"} => up[c] = said[c]

TalkInv == \A c \in Conn : Stage(c) /\ Speech(c) /\ Downward(c) /\ Upward(c)

\* The clients that were bridged last are those in the bridges.
RelayedInv ==
  /\ \A h \in Conn :
       pc[h] = "relaying" => last[sender[h]] = "relayed" /\ last[receiver[h]] = "relayed"
  /\ \A c \in Conn :
       last[c] = "relayed" => \E h \in Conn : pc[h] = "relaying" /\ c \in {sender[h], receiver[h]}

\* What client d, put through to c, has done for c to fail.
Culprit(c, d) ==
  \/ cl[d] \in {"crashed", "panicked"}
  \/ cl[d] = "failed" /\ d \in pinged \ Sender
  \/ {c, d} \cap Sender = {}

PeerGone(c) == \E d \in Conn : Met(c, d) /\ Culprit(c, d)

\* A task relays once, two clients that were let in, and no client twice.
PairsInv ==
  /\ \A h \in Conn :
       sender[h] # None \/ receiver[h] # None =>
         /\ pc[h] \in Bridging \cup {"done"}
         /\ sender[h] \in Conn /\ receiver[h] \in Conn /\ sender[h] # receiver[h]
         /\ \A c \in {sender[h], receiver[h]} :
              /\ last[c] \in {"relayed", "closed"}
              /\ c \notin BadPassword /\ secret[c] >= 4
  /\ \A g, h \in Conn :
       g # h /\ sender[g] # None /\ sender[h] # None =>
         {sender[g], receiver[g]} \cap {sender[h], receiver[h]} = {}

\* What is said before a room is named, and afterwards.
NoRoom == {"key", "salt", "password"} \cup PeerSays

\* A client with a wrong password never names a room.
BarredInv ==
  \A c \in BadPassword :
    /\ pc[c] \in {"off", "done"} \cup Handshaking
    /\ last[c] \notin {"ok", "ping", "relayed"}
    /\ up[c] \in Seq(NoRoom)

\* A bridge ends because of the other client.
EndInv == \A c \in Conn : alive[c] /\ last[c] = "closed" => PeerGone(c)

\* What one end of a bridge has said is on its way, or has arrived.
CarryInv ==
  \A h \in Conn :
    pc[h] = "relaying" =>
      \A e \in {<<sender[h], receiver[h]>>, <<receiver[h], sender[h]>>} :
        alive[e[1]] /\ alive[e[2]] => Carried(e[1], e[2])

ClientsIInv ==
  /\ IInv /\ ClientsTypeOK /\ TalkInv
  /\ RelayedInv /\ PairsInv /\ BarredInv /\ EndInv /\ CarryInv /\ FailureHasACause

-----------------------------------------------------------------------------
USE DEF Room

\* The messages of either kind.
Says == ServerSays \cup PeerSays
UpSays == {"key", "salt", "password", "room"} \cup PeerSays

-----------------------------------------------------------------------------
(* Words on their way.                                                     *)

\* Of the words s one has heard h; the others are at the end of d, and in u.
Carry(s, h, d, u) ==
  \E n \in 0..Len(d) :
    /\ \A i \in 1..n : d[i] \notin PeerSays
    /\ s = h \o SubSeq(d, n + 1, Len(d)) \o u

LEMMA Concat3 ==
  ASSUME NEW T, NEW h \in Seq(T), NEW w \in Seq(T), NEW u \in Seq(T)
  PROVE  /\ h \o w \o u \in Seq(T) /\ h \o w \o u = h \o (w \o u)
         /\ Len(h \o w \o u) = Len(h) + Len(w) + Len(u)
BY ConcatProperties, ConcatAssociative, LenProperties

\* The end of a sequence.
LEMMA Suffix ==
  ASSUME NEW T, NEW d \in Seq(T), NEW n \in 0..Len(d)
  PROVE  /\ SubSeq(d, n + 1, Len(d)) \in Seq(T)
         /\ Len(SubSeq(d, n + 1, Len(d))) = Len(d) - n
         /\ \A i \in 1..Len(d) - n : SubSeq(d, n + 1, Len(d))[i] = d[n + i]
<1>1. Len(d) \in Nat /\ \A i \in n + 1..Len(d) : d[i] \in T
  BY LenProperties, ElementOfSeq
<1>2. /\ SubSeq(d, n + 1, Len(d)) \in Seq(T)
      /\ Len(SubSeq(d, n + 1, Len(d))) = IF n + 1 <= Len(d) THEN Len(d) - (n + 1) + 1 ELSE 0
      /\ \A i \in 1..Len(d) - (n + 1) + 1 : SubSeq(d, n + 1, Len(d))[i] = d[(n + 1) + i - 1]
  BY <1>1, SubSeqProperties
<1> QED
  BY <1>1, <1>2

LEMMA SuffixAppend ==
  ASSUME NEW T, NEW d \in Seq(T), NEW n \in 0..Len(d), NEW x \in T
  PROVE  SubSeq(Append(d, x), n + 1, Len(Append(d, x))) = Append(SubSeq(d, n + 1, Len(d)), x)
<1> DEFINE a == Append(d, x)
           w == SubSeq(d, n + 1, Len(d))
           v == SubSeq(a, n + 1, Len(a))
<1>1. /\ a \in Seq(T) /\ Len(a) = Len(d) + 1 /\ Len(d) \in Nat /\ n \in 0..Len(a)
      /\ \A i \in 1..Len(d) : a[i] = d[i]
      /\ a[Len(d) + 1] = x
  BY AppendProperties, LenProperties
<1>2. w \in Seq(T) /\ Len(w) = Len(d) - n /\ \A i \in 1..Len(d) - n : w[i] = d[n + i]
  BY Suffix
<1> HIDE DEF a, w
<1>3. v \in Seq(T) /\ Len(v) = Len(a) - n /\ \A i \in 1..Len(a) - n : v[i] = a[n + i]
  BY <1>1, Suffix
<1>4. /\ Append(w, x) \in Seq(T) /\ Len(Append(w, x)) = Len(w) + 1
      /\ \A i \in 1..Len(w) : Append(w, x)[i] = w[i]
      /\ Append(w, x)[Len(w) + 1] = x
  BY <1>2, AppendProperties
<1> HIDE DEF v
<1>5. \A i \in 1..Len(v) : v[i] = Append(w, x)[i]
  <2>1. ASSUME NEW i \in 1..Len(v) PROVE v[i] = Append(w, x)[i]
    <3>1. v[i] = a[n + i] /\ i \in Nat
      BY <1>1, <1>3
    <3>2. CASE i \in 1..Len(w)
      <4>1. n + i \in 1..Len(d)
        BY <1>1, <1>2, <3>2
      <4> QED
        BY <1>1, <1>2, <1>4, <3>1, <3>2, <4>1
    <3>3. CASE i = Len(w) + 1
      <4>1. n + i = Len(d) + 1
        BY <1>1, <1>2, <3>3
      <4> QED
        BY <1>1, <1>4, <3>1, <3>3, <4>1
    <3>4. i \in 1..Len(w) \/ i = Len(w) + 1
      BY <1>1, <1>2, <1>3
    <3> QED
      BY <3>2, <3>3, <3>4
  <2> QED
    BY <2>1
<1>6. v = Append(w, x)
  <2>1. Len(v) = Len(Append(w, x))
    BY <1>1, <1>2, <1>3, <1>4
  <2>2. v \in Seq(T) /\ Append(w, x) \in Seq(T)
    BY <1>3, <1>4
  <2> QED
    BY <1>5, <2>1, <2>2, SeqEqual
<1> QED
  BY <1>6 DEF v, w, a

LEMMA SuffixTail ==
  ASSUME NEW T, NEW d \in Seq(T), NEW n \in 1..Len(d)
  PROVE  SubSeq(Tail(d), n, Len(Tail(d))) = SubSeq(d, n + 1, Len(d))
<1> DEFINE t == Tail(d)
<1>1. d # <<>> /\ Len(d) \in Nat
  <2>1. Len(d) \in Nat /\ Len(<<>>) = 0
    BY LenProperties, EmptySeq
  <2> QED
    BY <2>1
<1>2. t \in Seq(T) /\ Len(t) = Len(d) - 1 /\ \A i \in 1..Len(d) - 1 : t[i] = d[i + 1]
  BY <1>1, HeadTailProperties
<1>3. n - 1 \in 0..Len(t) /\ (n - 1) + 1 = n
  BY <1>1, <1>2
<1> HIDE DEF t
<1>4. /\ SubSeq(t, n, Len(t)) \in Seq(T) /\ Len(SubSeq(t, n, Len(t))) = Len(t) - (n - 1)
      /\ \A i \in 1..Len(t) - (n - 1) : SubSeq(t, n, Len(t))[i] = t[(n - 1) + i]
  BY <1>2, <1>3, Suffix
<1>5. /\ SubSeq(d, n + 1, Len(d)) \in Seq(T) /\ Len(SubSeq(d, n + 1, Len(d))) = Len(d) - n
      /\ \A i \in 1..Len(d) - n : SubSeq(d, n + 1, Len(d))[i] = d[n + i]
  BY Suffix
<1>6. ASSUME NEW i \in 1..Len(d) - n
      PROVE  SubSeq(t, n, Len(t))[i] = SubSeq(d, n + 1, Len(d))[i]
  <2>1. (n - 1) + i \in 1..Len(d) - 1 /\ ((n - 1) + i) + 1 = n + i /\ i \in 1..Len(t) - (n - 1)
    BY <1>1, <1>2
  <2>2. t[(n - 1) + i] = d[n + i]
    BY <1>2, <2>1
  <2> QED
    BY <1>4, <1>5, <2>1, <2>2
<1>7. Len(SubSeq(t, n, Len(t))) = Len(SubSeq(d, n + 1, Len(d)))
      /\ Len(SubSeq(t, n, Len(t))) = Len(d) - n
  BY <1>1, <1>2, <1>4, <1>5
<1>8. SubSeq(t, n, Len(t)) = SubSeq(d, n + 1, Len(d))
  BY <1>4, <1>5, <1>6, <1>7, SeqEqual
<1> QED
  BY <1>8 DEF t

\* Handing the first element of one sequence to the end of another one.
LEMMA HandOver ==
  ASSUME NEW T, NEW h \in Seq(T), NEW d \in Seq(T), d # <<>>
  PROVE  /\ Append(h, Head(d)) \o Tail(d) = h \o d
         /\ Append(h, Head(d)) \in Seq(T) /\ Tail(d) \in Seq(T)
<1>1. /\ Head(d) \in T /\ Tail(d) \in Seq(T) /\ Len(d) \in Nat \ {0}
      /\ <<Head(d)>> \in Seq(T)
  BY HeadTailProperties, EmptySeq
<1>2. Append(h, Head(d)) = h \o <<Head(d)>> /\ Append(h, Head(d)) \in Seq(T)
  BY <1>1, AppendIsConcat, AppendProperties
<1>3. <<Head(d)>> \o Tail(d) = d
  <2>1. 1 \in 1..Len(d) /\ Len(d) \in 1..Len(d)
    BY <1>1
  <2>2. SubSeq(d, 1, Len(d)) = <<d[1]>> \o SubSeq(d, 1 + 1, Len(d))
    BY <2>1, SubSeqRecursiveFirst
  <2>3. SubSeq(d, 1, Len(d)) = d /\ Tail(d) = SubSeq(d, 2, Len(d))
    BY SubSeqFull, TailIsSubSeq
  <2>4. Head(d) = d[1]
    OBVIOUS
  <2> QED
    BY <2>2, <2>3, <2>4
<1> QED
  BY <1>1, <1>2, <1>3, ConcatAssociative

LEMMA CarrySaid ==
  ASSUME NEW T, NEW s, NEW h \in Seq(T), NEW d \in Seq(T), NEW u \in Seq(T),
         NEW m \in Seq(T), Carry(s, h, d, u)
  PROVE  Carry(s \o m, h, d, u \o m)
<1>1. PICK n \in 0..Len(d) : /\ \A i \in 1..n : d[i] \notin PeerSays
                             /\ s = h \o SubSeq(d, n + 1, Len(d)) \o u
  BY DEF Carry
<1> DEFINE w == SubSeq(d, n + 1, Len(d))
<1>2. w \in Seq(T)
  BY Suffix
<1> HIDE DEF w
<1>3. h \o w \in Seq(T)
  BY <1>2, ConcatProperties
<1>4. (h \o w \o u) \o m = h \o w \o (u \o m)
  <2> DEFINE v == h \o w
  <2>1. v \in Seq(T)
    BY <1>3
  <2> HIDE DEF v
  <2>2. (v \o u) \o m = v \o (u \o m)
    BY <2>1, ConcatAssociative, SMTT(40)
  <2> QED
    BY <2>2 DEF v
<1>5. s \o m = h \o SubSeq(d, n + 1, Len(d)) \o (u \o m)
  BY <1>1, <1>4 DEF w
<1> QED
  BY <1>1, <1>5 DEF Carry

LEMMA CarryHeard ==
  ASSUME NEW T, NEW s, NEW h \in Seq(T), NEW d \in Seq(T), NEW u \in Seq(T),
         d # <<>>, Head(d) \in PeerSays, Carry(s, h, d, u)
  PROVE  Carry(s, Append(h, Head(d)), Tail(d), u)
<1>1. PICK n \in 0..Len(d) : /\ \A i \in 1..n : d[i] \notin PeerSays
                             /\ s = h \o SubSeq(d, n + 1, Len(d)) \o u
  BY DEF Carry
<1>2. /\ Tail(d) \in Seq(T) /\ Append(h, Head(d)) \o Tail(d) = h \o d
      /\ Len(d) \in Nat /\ Len(Tail(d)) \in Nat
  BY HandOver, LenProperties
<1>3. n = 0 /\ SubSeq(d, n + 1, Len(d)) = d
  <2>1. Head(d) = d[1]
    OBVIOUS
  <2>2. n = 0
    BY <1>1, <1>2, <2>1
  <2> QED
    BY <2>2, SubSeqFull
<1>4. SubSeq(Tail(d), 0 + 1, Len(Tail(d))) = Tail(d)
  BY <1>2, SubSeqFull
<1>5. 0 \in 0..Len(Tail(d)) /\ \A i \in 1..0 : Tail(d)[i] \notin PeerSays
  BY <1>2
<1>6. s = Append(h, Head(d)) \o SubSeq(Tail(d), 0 + 1, Len(Tail(d))) \o u
  BY <1>1, <1>2, <1>3, <1>4
<1> QED
  BY <1>5, <1>6 DEF Carry

LEMMA CarrySkipped ==
  ASSUME NEW T, NEW s \in Seq(PeerSays), NEW h \in Seq(T), NEW d \in Seq(T),
         NEW u \in Seq(T), d # <<>>, Head(d) \notin PeerSays, Carry(s, h, d, u)
  PROVE  Carry(s, h, Tail(d), u)
<1>1. PICK n \in 0..Len(d) : /\ \A i \in 1..n : d[i] \notin PeerSays
                             /\ s = h \o SubSeq(d, n + 1, Len(d)) \o u
  BY DEF Carry
<1> DEFINE w == SubSeq(d, n + 1, Len(d))
<1>2. /\ w \in Seq(T) /\ Len(w) = Len(d) - n /\ \A i \in 1..Len(d) - n : w[i] = d[n + i]
      /\ Len(d) \in Nat \ {0} /\ Len(h) \in Nat /\ Len(u) \in Nat
  BY Suffix, LenProperties, EmptySeq
<1>3. /\ Tail(d) \in Seq(T) /\ Len(Tail(d)) = Len(d) - 1
      /\ \A i \in 1..Len(d) - 1 : Tail(d)[i] = d[i + 1]
      /\ Head(d) = d[1]
  BY HeadTailProperties
<1> HIDE DEF w
<1>4. n > 0
  <2>1. SUFFICES ASSUME n = 0 PROVE FALSE
    BY <1>2
  <2>2. 1 \in 1..Len(w) /\ w[1] = Head(d)
    BY <1>2, <1>3, <2>1
  <2>3. /\ h \o w \in Seq(T) /\ Len(h \o w) = Len(h) + Len(w)
        /\ (h \o w)[Len(h) + 1] = w[1]
    <3>1. /\ h \o w \in Seq(T) /\ Len(h \o w) = Len(h) + Len(w)
          /\ \A i \in 1..Len(h) + Len(w) :
               (h \o w)[i] = IF i <= Len(h) THEN h[i] ELSE w[i - Len(h)]
      BY <1>2, ConcatProperties
    <3>2. /\ Len(h) + 1 \in 1..Len(h) + Len(w) /\ ~(Len(h) + 1 <= Len(h))
          /\ (Len(h) + 1) - Len(h) = 1
      BY <1>2, <2>2
    <3> QED
      BY <3>1, <3>2
  <2>4. Len(h) + 1 \in 1..Len(h \o w) + Len(u) /\ Len(h) + 1 <= Len(h \o w)
    BY <1>2, <2>1, <2>2, <2>3
  <2>5. /\ Len(h \o w \o u) = Len(h \o w) + Len(u)
        /\ (h \o w \o u)[Len(h) + 1] = (h \o w)[Len(h) + 1]
    BY <2>3, <2>4, ConcatProperties
  <2>6. Len(h) + 1 \in 1..Len(s) /\ s[Len(h) + 1] = Head(d)
    BY <1>1, <2>2, <2>3, <2>4, <2>5 DEF w
  <2>7. s[Len(h) + 1] \in PeerSays
    BY <2>6, ElementOfSeq
  <2> QED
    BY <2>6, <2>7
<1>5. n \in 1..Len(d) /\ n - 1 \in 0..Len(Tail(d)) /\ (n - 1) + 1 = n
  BY <1>2, <1>3, <1>4
<1>6. SubSeq(Tail(d), (n - 1) + 1, Len(Tail(d))) = w
  BY <1>5, SuffixTail DEF w
<1>7. \A i \in 1..n - 1 : Tail(d)[i] \notin PeerSays
  <2>1. ASSUME NEW i \in 1..n - 1 PROVE Tail(d)[i] \notin PeerSays
    <3>1. i + 1 \in 1..n /\ i \in 1..Len(d) - 1
      BY <1>2, <1>5
    <3> QED
      BY <1>1, <1>3, <3>1
  <2> QED
    BY <2>1
<1>8. s = h \o SubSeq(Tail(d), (n - 1) + 1, Len(Tail(d))) \o u
  BY <1>1, <1>6 DEF w
<1> HIDE DEF w
<1> QED
  BY <1>5, <1>7, <1>8 DEF Carry

LEMMA CarryBridged ==
  ASSUME NEW T, NEW s, NEW h \in Seq(T), NEW d \in Seq(T), NEW u \in Seq(T),
         u # <<>>, Carry(s, h, d, u)
  PROVE  Carry(s, h, Append(d, Head(u)), Tail(u))
<1>1. PICK n \in 0..Len(d) : /\ \A i \in 1..n : d[i] \notin PeerSays
                             /\ s = h \o SubSeq(d, n + 1, Len(d)) \o u
  BY DEF Carry
<1> DEFINE w == SubSeq(d, n + 1, Len(d))
           a == Append(d, Head(u))
<1>2. Head(u) \in T /\ Tail(u) \in Seq(T) /\ w \in Seq(T)
  BY HeadTailProperties, Suffix
<1>3. SubSeq(a, n + 1, Len(a)) = Append(w, Head(u))
  BY <1>2, SuffixAppend
<1>4. /\ Len(a) = Len(d) + 1 /\ Len(d) \in Nat
      /\ \A i \in 1..Len(d) : a[i] = d[i]
  BY <1>2, AppendProperties, LenProperties
<1> HIDE DEF w, a
<1>5. n \in 0..Len(a) /\ \A i \in 1..n : a[i] \notin PeerSays
  <2>1. n \in 0..Len(a) /\ \A i \in 1..n : i \in 1..Len(d)
    BY <1>4
  <2> QED
    BY <1>1, <1>4, <2>1
<1>6. Append(w, Head(u)) \o Tail(u) = w \o u /\ Append(w, Head(u)) \in Seq(T)
  BY <1>2, HandOver
<1>7. h \o w \o u = h \o Append(w, Head(u)) \o Tail(u)
  <2>1. h \o w \o u = h \o (w \o u)
    BY <1>2, ConcatAssociative, SMTT(40)
  <2> DEFINE v == Append(w, Head(u))
             t == Tail(u)
  <2>2. v \in Seq(T) /\ t \in Seq(T)
    BY <1>2, <1>6
  <2>3. v \o t = w \o u
    BY <1>6
  <2> HIDE DEF v, t
  <2>4. h \o v \o t = h \o (v \o t)
    BY <2>2, ConcatAssociative, SMTT(40)
  <2>5. h \o w \o u = h \o v \o t
    BY <2>1, <2>3, <2>4
  <2> QED
    BY <2>5 DEF v, t
<1>8. s = h \o SubSeq(a, n + 1, Len(a)) \o Tail(u)
  BY <1>1, <1>3, <1>7 DEF w
<1>9. Carry(s, h, a, Tail(u))
  BY <1>5, <1>8 DEF Carry
<1> QED
  BY <1>9 DEF a

LEMMA CarryNothing ==
  ASSUME NEW T, NEW d \in Seq(T), NEW u \in Seq(T), \A i \in 1..Len(d) : d[i] \notin PeerSays
  PROVE  Carry(u, <<>>, d, u)
<1>1. Len(d) \in Nat
  BY LenProperties
<1>2. SubSeq(d, Len(d) + 1, Len(d)) = <<>>
  BY <1>1, SubSeqEmpty
<1>3. <<>> \in Seq(T) /\ <<>> \o <<>> = <<>> /\ <<>> \o u = u
  BY EmptySeq, ConcatEmptySeq
<1>4. Len(d) \in 0..Len(d) /\ u = <<>> \o SubSeq(d, Len(d) + 1, Len(d)) \o u
  BY <1>1, <1>2, <1>3
<1> QED
  BY <1>4 DEF Carry

\* The words s begin with those that have been heard, and what is to be heard
\* now, if it is one of them, comes next.
Begins(s, h, d) ==
  /\ Len(s) \in Nat /\ Len(h) \in Nat /\ Len(h) <= Len(s)
  /\ d # <<>> /\ Head(d) \in PeerSays =>
       Len(h) + 1 <= Len(s) /\ s[Len(h) + 1] = Head(d)

\* What one has heard is what the other has said first, and so is the word that
\* comes next.
LEMMA CarryWords ==
  ASSUME NEW T, NEW s, NEW h \in Seq(T), NEW d \in Seq(T), NEW u \in Seq(T),
         Carry(s, h, d, u)
  PROVE  Begins(s, h, d)
<1>1. PICK n \in 0..Len(d) : /\ \A i \in 1..n : d[i] \notin PeerSays
                             /\ s = h \o SubSeq(d, n + 1, Len(d)) \o u
  BY DEF Carry
<1> DEFINE w == SubSeq(d, n + 1, Len(d))
<1>2. /\ w \in Seq(T) /\ Len(w) = Len(d) - n /\ \A i \in 1..Len(d) - n : w[i] = d[n + i]
      /\ Len(d) \in Nat /\ Len(h) \in Nat /\ Len(u) \in Nat /\ Len(w) \in Nat
      /\ s = h \o w \o u
  BY <1>1, Suffix, LenProperties
<1> HIDE DEF w
<1>3. /\ h \o w \in Seq(T) /\ Len(h \o w) = Len(h) + Len(w)
      /\ \A i \in 1..Len(h) + Len(w) :
           (h \o w)[i] = IF i <= Len(h) THEN h[i] ELSE w[i - Len(h)]
  BY <1>2, ConcatProperties
<1>4. /\ s \in Seq(T) /\ Len(s) = Len(h) + Len(w) + Len(u)
      /\ \A i \in 1..Len(h) + Len(w) + Len(u) :
           s[i] = IF i <= Len(h) + Len(w) THEN (h \o w)[i] ELSE u[i - (Len(h) + Len(w))]
  <2> DEFINE v == h \o w
  <2>1. v \in Seq(T) /\ Len(v) = Len(h) + Len(w) /\ s = v \o u
    BY <1>2, <1>3
  <2> HIDE DEF v
  <2>2. /\ v \o u \in Seq(T) /\ Len(v \o u) = Len(v) + Len(u)
        /\ \A i \in 1..Len(v) + Len(u) :
             (v \o u)[i] = IF i <= Len(v) THEN v[i] ELSE u[i - Len(v)]
    BY <2>1, ConcatProperties, SMTT(40)
  <2> QED
    BY <2>1, <2>2 DEF v
<1>5. \A i \in 1..Len(h) + Len(w) : s[i] = IF i <= Len(h) THEN h[i] ELSE w[i - Len(h)]
  BY <1>2, <1>3, <1>4
<1>7. ASSUME d # <<>>, Head(d) \in PeerSays
      PROVE  Len(h) + 1 <= Len(s) /\ s[Len(h) + 1] = Head(d)
  <2>1. Len(d) > 0 /\ Head(d) = d[1]
    BY <1>7, EmptySeq, HeadTailProperties
  <2>2. n = 0
    BY <1>1, <1>7, <2>1
  <2>3. Len(w) = Len(d) /\ w[1] = d[1]
    BY <1>2, <2>1, <2>2
  <2>4. Len(h) + 1 \in 1..Len(h) + Len(w) /\ (Len(h) + 1) - Len(h) = 1 /\ ~(Len(h) + 1 <= Len(h))
    BY <1>2, <2>1, <2>3
  <2>5. s[Len(h) + 1] = w[1]
    BY <1>5, <2>4
  <2> QED
    BY <1>2, <1>4, <2>1, <2>3, <2>4, <2>5
<1> QED
  BY <1>2, <1>4, <1>7, SMTT(40) DEF Begins

-----------------------------------------------------------------------------
(* The relay's side.                                                       *)

\* What clients are told before they are in a room, and while they wait.
LEMMA LastFacts ==
  ASSUME IInv, NEW c \in Conn
  PROVE  /\ pc[c] \in Unplaced => last[c] \in {"nothing", "banner"}
         /\ \A r \in Conn : first[r] # None =>
              first[r] = r /\ r \in Conn /\ last[r] \in {"ok", "ping"}
         /\ \A r \in Conn : second[r] # None =>
              second[r] \in Conn /\ last[second[r]] \in {"ok", "ping"}
  BY DEF IInv, TypeOK, FreshInv, SlotInv, WaitInv

\* Steps that do not bridge anybody, nor end a bridge.
LEMMA RelayedStays ==
  ASSUME RelayedInv, UNCHANGED <<sender, receiver>>,
         \A h \in Conn : pc'[h] = "relaying" <=> pc[h] = "relaying",
         \A d \in Conn : last'[d] = "relayed" <=> last[d] = "relayed",
         \A h \in Conn : pc[h] = "relaying" => sender[h] \in Conn /\ receiver[h] \in Conn
  PROVE  RelayedInv'
BY DEF RelayedInv

\* A bridge begins between two clients that have waited.
LEMMA StartRelayMoves ==
  ASSUME IInv, NEW c \in Conn, StartRelay(c)
  PROVE  /\ pc[c] = "lock_room" /\ pc' = [pc EXCEPT ![c] = "relaying"]
         /\ sender'[c] \in Conn /\ receiver'[c] \in Conn /\ sender'[c] # receiver'[c]
         /\ \A d \in {sender'[c], receiver'[c]} : last[d] \in {"ok", "ping"} /\ last'[d] = "relayed"
         /\ \A d \in Conn \ {sender'[c], receiver'[c]} : last'[d] = last[d]
         /\ \A g \in Conn \ {c} : sender'[g] = sender[g] /\ receiver'[g] = receiver[g]
         /\ alive' = alive
<1>1. /\ room[c] \in Conn /\ first[room[c]] # None /\ second[room[c]] # None
  BY DEF IInv, TypeOK, NameInv, StartRelay, Goto, is_full
<1>2. /\ first[room[c]] = room[c] /\ second[room[c]] \in Conn /\ second[room[c]] # room[c]
      /\ last[room[c]] \in {"ok", "ping"} /\ last[second[room[c]]] \in {"ok", "ping"}
  BY <1>1, LastFacts DEF IInv, SlotInv
<1>3. /\ pc[c] = "lock_room" /\ pc' = [pc EXCEPT ![c] = "relaying"] /\ alive' = alive
      /\ receiver' = [receiver EXCEPT ![c] = second[room[c]]]
      /\ sender' = [sender EXCEPT ![c] = first[room[c]]]
      /\ last' = [d \in Conn |->
                    IF d \in {first[room[c]], second[room[c]]} THEN "relayed" ELSE last[d]]
  BY DEF StartRelay, Goto
<1>4. sender'[c] = room[c] /\ receiver'[c] = second[room[c]]
      /\ \A g \in Conn \ {c} : sender'[g] = sender[g] /\ receiver'[g] = receiver[g]
  BY <1>2, <1>3 DEF IInv, TypeOK
<1> QED
  BY <1>1, <1>2, <1>3, <1>4

\* A bridge ends.
LEMMA RelayEndMoves ==
  ASSUME IInv, RelayedInv, NEW c \in Conn, pc[c] = "relaying", relay_ends(c)
  PROVE  /\ pc' = [pc EXCEPT ![c] = "unlist"] /\ alive' = alive
         /\ sender[c] \in Conn /\ receiver[c] \in Conn /\ sender[c] # receiver[c]
         /\ RoomName[sender[c]] = RoomName[receiver[c]]
         /\ \A d \in {sender[c], receiver[c]} : last[d] = "relayed" /\ last'[d] = "closed"
         /\ \A d \in Conn \ {sender[c], receiver[c]} : last'[d] = last[d]
         /\ UNCHANGED <<sender, receiver>>
<1>1. /\ sender[c] \in Conn /\ receiver[c] \in Conn /\ sender[c] # receiver[c]
      /\ RoomName[sender[c]] = RoomName[receiver[c]]
  BY BridgesFollow DEF BridgesAreProperPairs
<1> QED
  BY <1>1 DEF RelayedInv, relay_ends, Goto, locals

LEMMA RelayPair ==
  ASSUME IInv, NEW h \in Conn, pc[h] = "relaying"
  PROVE  /\ sender[h] \in Conn /\ receiver[h] \in Conn /\ sender[h] # receiver[h]
         /\ RoomName[sender[h]] = RoomName[receiver[h]]
         /\ \A g \in Conn \ {h} : pc[g] = "relaying" =>
              {sender[g], receiver[g]} \cap {sender[h], receiver[h]} = {}
BY BridgesFollow DEF BridgesAreProperPairs

\* What one client's task does to itself and to others.
LEMMA NearbyMoves ==
  ASSUME IInv, NEW c \in Conn,
         \/ run_instance(c) \/ ClientCloses(c) \/ AnswerPing(c) \/ ClientStep(c)
         \/ HandshakeFails(c) \/ LockRooms(c) \/ CreateRoom(c) \/ JoinRoom(c)
         \/ RefuseFull(c) \/ AnswerFails(c) \/ FindRoom(c) \/ StartKeepalive(c)
         \/ UnlistRoom(c) \/ KeepaliveFind(c) \/ KeepaliveError(c) \/ KeepaliveStops(c)
  PROVE  /\ pc' = [pc EXCEPT ![c] = pc'[c]] /\ (pc[c] # "relaying" \/ pc' = pc)
         /\ pc'[c] = "relaying" => pc' = pc
         /\ last' = [last EXCEPT ![c] = last'[c]]
         /\ last'[c] = last[c] \/ (pc[c] \in Unplaced /\ last'[c] # "relayed")
         /\ UNCHANGED <<sender, receiver>>
<1>1. pc \in [Conn -> PC] /\ last \in [Conn -> Sent]
  BY DEF IInv, TypeOK
<1>2. CASE run_instance(c) \/ ClientCloses(c)
  BY <1>1, <1>2 DEF run_instance, ClientCloses, Goto, locals
<1>3. CASE AnswerPing(c) \/ ClientStep(c) \/ HandshakeFails(c)
  BY <1>1, <1>3 DEF AnswerPing, ClientStep, negotiate_symmetric_key, CheckPassword,
     ReadRoomName, HandshakeFails, Goto, Tell, locals, Unplaced, Handshaking
<1>4. CASE CreateRoom(c) \/ JoinRoom(c) \/ RefuseFull(c) \/ AnswerFails(c)
  BY <1>1, <1>4 DEF CreateRoom, JoinRoom, RefuseFull, AnswerFails, Goto, Tell, locals, Unplaced
<1>5. CASE LockRooms(c) \/ FindRoom(c) \/ StartKeepalive(c) \/ UnlistRoom(c)
           \/ KeepaliveFind(c) \/ KeepaliveError(c) \/ KeepaliveStops(c)
  BY <1>1, <1>5 DEF LockRooms, FindRoom, StartKeepalive, UnlistRoom, KeepaliveFind,
     KeepaliveError, KeepaliveStops, Goto, locals
<1> QED
  BY <1>2, <1>3, <1>4, <1>5

\* The clients in bridges are those that were bridged last.
LEMMA RelayedNext == IInv /\ RelayedInv /\ [Next]_vars => RelayedInv'
<1> SUFFICES ASSUME IInv, RelayedInv, [Next]_vars PROVE RelayedInv'
  OBVIOUS
<1>1. /\ pc \in [Conn -> PC] /\ last \in [Conn -> Sent]
      /\ \A h \in Conn : pc[h] = "relaying" => sender[h] \in Conn /\ receiver[h] \in Conn
  BY RelayPair DEF IInv, TypeOK
<1>2. ASSUME NEW c \in Conn,
         \/ run_instance(c) \/ ClientCloses(c) \/ AnswerPing(c) \/ ClientStep(c)
         \/ HandshakeFails(c) \/ LockRooms(c) \/ CreateRoom(c) \/ JoinRoom(c)
         \/ RefuseFull(c) \/ AnswerFails(c) \/ FindRoom(c) \/ StartKeepalive(c)
         \/ UnlistRoom(c) \/ KeepaliveFind(c) \/ KeepaliveError(c) \/ KeepaliveStops(c)
      PROVE  RelayedInv'
  <2>1. /\ pc' = [pc EXCEPT ![c] = pc'[c]] /\ (pc[c] # "relaying" \/ pc' = pc)
        /\ pc'[c] = "relaying" => pc' = pc
        /\ last' = [last EXCEPT ![c] = last'[c]]
        /\ last'[c] = last[c] \/ (pc[c] \in Unplaced /\ last'[c] # "relayed")
        /\ UNCHANGED <<sender, receiver>>
    BY <1>2, NearbyMoves
  <2>2. \A h \in Conn : pc'[h] = "relaying" <=> pc[h] = "relaying"
    BY <1>1, <2>1
  <2>3. pc[c] \in Unplaced => last[c] # "relayed"
    BY LastFacts
  <2>4. \A d \in Conn : last'[d] = "relayed" <=> last[d] = "relayed"
    BY <1>1, <2>1, <2>3
  <2> QED
    BY <1>1, <2>1, <2>2, <2>4, RelayedStays
<1>3. ASSUME NEW c \in Conn, KeepalivePing(c) PROVE RelayedInv'
  <2>1. /\ pc' = pc /\ UNCHANGED <<sender, receiver>> /\ room[c] \in Conn
        /\ first[room[c]] # None /\ last' = [last EXCEPT ![first[room[c]]] = "ping"]
    BY <1>3 DEF KeepalivePing, Tell, locals, IInv, TypeOK
  <2>2. last[first[room[c]]] \in {"ok", "ping"}
    BY <2>1, LastFacts
  <2>3. \A d \in Conn : last'[d] = "relayed" <=> last[d] = "relayed"
    BY <1>1, <2>1, <2>2
  <2> QED
    BY <1>1, <2>1, <2>3, RelayedStays
<1>4. ASSUME NEW c \in Conn, StartRelay(c) PROVE RelayedInv'
  <2>1. /\ pc[c] = "lock_room" /\ pc' = [pc EXCEPT ![c] = "relaying"]
        /\ sender'[c] \in Conn /\ receiver'[c] \in Conn
        /\ \A d \in {sender'[c], receiver'[c]} : last'[d] = "relayed"
        /\ \A d \in Conn \ {sender'[c], receiver'[c]} : last'[d] = last[d]
        /\ \A g \in Conn \ {c} : sender'[g] = sender[g] /\ receiver'[g] = receiver[g]
    BY <1>4, StartRelayMoves
  <2>2. /\ pc'[c] = "relaying"
        /\ \A h \in Conn \ {c} : pc'[h] = pc[h]
    BY <1>1, <2>1
  <2>3. ASSUME NEW h \in Conn, pc'[h] = "relaying"
        PROVE  last'[sender'[h]] = "relayed" /\ last'[receiver'[h]] = "relayed"
    <3>1. CASE h = c
      BY <2>1, <3>1
    <3>2. CASE h # c
      <4>1. /\ pc[h] = "relaying" /\ sender'[h] = sender[h] /\ receiver'[h] = receiver[h]
            /\ sender[h] \in Conn /\ receiver[h] \in Conn
        BY <1>1, <2>1, <2>2, <2>3, <3>2
      <4>2. last[sender[h]] = "relayed" /\ last[receiver[h]] = "relayed"
        BY <4>1 DEF RelayedInv
      <4> QED
        BY <2>1, <4>1, <4>2
    <3> QED
      BY <3>1, <3>2
  <2>4. ASSUME NEW d \in Conn, last'[d] = "relayed"
        PROVE  \E h \in Conn : pc'[h] = "relaying" /\ d \in {sender'[h], receiver'[h]}
    <3>1. CASE d \in {sender'[c], receiver'[c]}
      BY <2>2, <3>1
    <3>2. CASE d \notin {sender'[c], receiver'[c]}
      <4>1. last[d] = "relayed"
        BY <2>1, <2>4, <3>2
      <4>2. PICK h \in Conn : pc[h] = "relaying" /\ d \in {sender[h], receiver[h]}
        BY <4>1 DEF RelayedInv
      <4>3. h # c
        BY <2>1, <4>2
      <4> QED
        BY <2>1, <2>2, <4>2, <4>3
    <3> QED
      BY <3>1, <3>2
  <2> QED
    BY <2>3, <2>4 DEF RelayedInv
<1>5. ASSUME NEW c \in Conn, pc[c] = "relaying", relay_ends(c) PROVE RelayedInv'
  <2>1. /\ pc' = [pc EXCEPT ![c] = "unlist"] /\ UNCHANGED <<sender, receiver>>
        /\ sender[c] \in Conn /\ receiver[c] \in Conn
        /\ \A d \in {sender[c], receiver[c]} : last'[d] = "closed"
        /\ \A d \in Conn \ {sender[c], receiver[c]} : last'[d] = last[d]
    BY <1>5, RelayEndMoves
  <2>2. pc'[c] = "unlist" /\ \A h \in Conn \ {c} : pc'[h] = pc[h]
    BY <1>1, <2>1
  <2>3. ASSUME NEW h \in Conn, pc'[h] = "relaying"
        PROVE  last'[sender'[h]] = "relayed" /\ last'[receiver'[h]] = "relayed"
    <3>1. h # c /\ pc[h] = "relaying"
      BY <2>2, <2>3
    <3>2. /\ sender[h] \in Conn /\ receiver[h] \in Conn
          /\ {sender[h], receiver[h]} \cap {sender[c], receiver[c]} = {}
      BY <1>5, <3>1, RelayPair
    <3>3. last[sender[h]] = "relayed" /\ last[receiver[h]] = "relayed"
      BY <3>1 DEF RelayedInv
    <3> QED
      BY <2>1, <3>2, <3>3
  <2>4. ASSUME NEW d \in Conn, last'[d] = "relayed"
        PROVE  \E h \in Conn : pc'[h] = "relaying" /\ d \in {sender'[h], receiver'[h]}
    <3>1. last[d] = "relayed" /\ d \notin {sender[c], receiver[c]}
      BY <2>1, <2>4
    <3>2. PICK h \in Conn : pc[h] = "relaying" /\ d \in {sender[h], receiver[h]}
      BY <3>1 DEF RelayedInv
    <3>3. h # c
      BY <3>1, <3>2
    <3> QED
      BY <2>1, <2>2, <3>2, <3>3
  <2> QED
    BY <2>3, <2>4 DEF RelayedInv
<1>6. CASE UNCHANGED vars
  BY <1>1, <1>6, RelayedStays DEF vars
<1> QED
  BY <1>2, <1>3, <1>4, <1>5, <1>6 DEF Next, ServerStep, relay_eof, relay_error

-----------------------------------------------------------------------------
(* What a step leaves alone.                                               *)

Mine(c) == Stage(c) /\ Speech(c) /\ Downward(c) /\ Upward(c)

\* Nothing that concerns client c changes.
Untouched(c) ==
  /\ cl'[c] = cl[c] /\ up'[c] = up[c] /\ down'[c] = down[c]
  /\ said'[c] = said[c] /\ heard'[c] = heard[c]
  /\ alive'[c] = alive[c] /\ last'[c] = last[c] /\ pc'[c] = pc[c]

\* Only the task of client c moves.
TaskMoves(c) ==
  /\ cl'[c] = cl[c] /\ up'[c] = up[c] /\ down'[c] = down[c]
  /\ said'[c] = said[c] /\ heard'[c] = heard[c] /\ alive'[c] = alive[c]
  /\ \/ pc'[c] = pc[c] /\ last'[c] = last[c]
     \/ pc[c] = "lock_rooms" /\ pc'[c] = "in_rooms" /\ last'[c] = last[c]
     \/ ~alive[c] /\ pc[c] \in Handshaking /\ pc'[c] = "done" /\ last'[c] = "closed"
     \/ /\ pc[c] \notin Unplaced /\ pc'[c] \notin Unplaced
        /\ \/ last'[c] = last[c]
           \/ last[c] \in {"ok", "ping"} /\ last'[c] = "relayed"
           \/ last[c] = "relayed" /\ last'[c] = "closed"

GoesOn == secret' = secret /\ pinged \subseteq pinged'

LEMMA MessageTypes ==
  ASSUME ClientsTypeOK, NEW c \in Conn
  PROVE  /\ up[c] \in Seq(UpSays) /\ down[c] \in Seq(Says)
         /\ said[c] \in Seq(PeerSays) /\ heard[c] \in Seq(PeerSays)
         /\ Len(up[c]) \in Nat /\ Len(down[c]) \in Nat /\ Len(said[c]) \in Nat
         /\ pings \in Nat /\ cl[c] \in CL /\ secret[c] \in Nat
<1>1. /\ up \in [Conn -> Seq(UpSays)] /\ down \in [Conn -> Seq(Says)]
      /\ said \in [Conn -> Seq(PeerSays)] /\ heard \in [Conn -> Seq(PeerSays)]
      /\ cl \in [Conn -> CL] /\ secret \in [Conn -> Nat] /\ pings \in Nat
  BY ClientsAssumption DEF ClientsTypeOK, Says, UpSays
<1>2. /\ up[c] \in Seq(UpSays) /\ down[c] \in Seq(Says)
      /\ said[c] \in Seq(PeerSays) /\ heard[c] \in Seq(PeerSays)
      /\ cl[c] \in CL /\ secret[c] \in Nat
  BY <1>1
<1> QED
  BY <1>1, <1>2, LenProperties

LEMMA StillPinged == ASSUME GoesOn PROVE \A c : c \in pinged => c \in pinged'
BY DEF GoesOn

\* What comes down waits to be read.
LEMMA DownStays ==
  ASSUME NEW c \in Conn, Downward(c), GoesOn, down'[c] = down[c], heard'[c] = heard[c],
         last[c] = "room full" => last'[c] = "room full",
         last'[c] \notin {"relayed", "closed"} => last[c] \notin {"relayed", "closed"}
  PROVE  Downward(c)'
<1>1. c \in pinged => c \in pinged'
  BY StillPinged
<1>2. \A i \in 1..Len(down[c]) :
       /\ down[c][i] = "bad password" => c \in BadPassword
       /\ down[c][i] = "room full" => last'[c] = "room full"
       /\ down[c][i] = "ping" => c \in pinged'
  BY <1>1 DEF Downward
<1> QED
  BY <1>2 DEF Downward

LEMMA TaskMovesMine ==
  ASSUME ClientsTypeOK, NEW c \in Conn, Mine(c), GoesOn, TaskMoves(c),
         pc[c] \in Unplaced => last[c] \in {"nothing", "banner"}
  PROVE  Mine(c)'
<1>1. Stage(c)'
  <2>1. CASE Absent(c)
    BY <2>1 DEF Absent, Silent, Stage, TaskMoves, GoesOn, Unplaced, Handshaking
  <2>2. CASE HasLeft(c)
    BY <2>2 DEF HasLeft, Stage, TaskMoves, GoesOn, Unplaced, Handshaking
  <2>3. CASE secret[c] >= 4 /\ Knocking(c)
    BY <2>3 DEF Knocking, Silent, Stage, TaskMoves, GoesOn, Unplaced, Handshaking
  <2>4. CASE secret[c] >= 4 /\ Refused(c)
    BY <2>4 DEF Refused, Silent, Stage, TaskMoves, GoesOn, Unplaced, Handshaking
  <2>5. CASE secret[c] >= 4 /\ InRoom(c)
    BY <2>5 DEF InRoom, Silent, Stage, TaskMoves, GoesOn, Unplaced, Handshaking
  <2> QED
    BY <2>1, <2>2, <2>3, <2>4, <2>5 DEF Mine, Stage
<1>2. Speech(c)'
  BY DEF Mine, Speech, TaskMoves
<1>3. Downward(c)'
  <2>1. /\ last[c] = "room full" => last'[c] = "room full"
        /\ last'[c] \notin {"relayed", "closed"} => last[c] \notin {"relayed", "closed"}
    BY DEF TaskMoves, Unplaced
  <2> QED
    BY <2>1, DownStays DEF Mine, TaskMoves
<1>4. Upward(c)'
  BY DEF Mine, Upward, TaskMoves, Unplaced
<1> QED
  BY <1>1, <1>2, <1>3, <1>4 DEF Mine

LEMMA UntouchedMine ==
  ASSUME ClientsTypeOK, NEW c \in Conn, Mine(c), GoesOn, Untouched(c),
         pc[c] \in Unplaced => last[c] \in {"nothing", "banner"}
  PROVE  Mine(c)'
<1>1. TaskMoves(c)
  BY DEF Untouched, TaskMoves
<1> QED
  BY <1>1, TaskMovesMine

\* What comes down may be read.
LEMMA DownRead ==
  ASSUME ClientsTypeOK, NEW c \in Conn, Downward(c), GoesOn, down[c] # <<>>,
         down'[c] = Tail(down[c]), last'[c] = last[c],
         heard'[c] = heard[c] \/ Head(down[c]) \in PeerSays
  PROVE  /\ Downward(c)'
         /\ Head(down[c]) \in PeerSays => last[c] \in {"relayed", "closed"}
<1> DEFINE d == down[c]
           t == Tail(d)
<1>1. d \in Seq(Says) /\ Len(d) \in Nat
  BY MessageTypes
<1>2. /\ Len(t) = Len(d) - 1 /\ \A i \in 1..Len(d) - 1 : t[i] = d[i + 1]
      /\ Head(d) = d[1] /\ Len(d) > 0
  BY <1>1, HeadTailProperties, EmptySeq
<1> HIDE DEF t
<1>3. \A i \in 1..Len(t) : i + 1 \in 1..Len(d) /\ t[i] = d[i + 1]
  BY <1>1, <1>2
<1>4. 1 \in 1..Len(d) /\ \A i \in 1..Len(t) : 1 < i + 1
  BY <1>1, <1>2
<1>5. Head(d) \in PeerSays => last[c] \in {"relayed", "closed"}
  BY <1>2, <1>4 DEF Downward
<1>6. Head(d) \in PeerSays => \A i \in 1..Len(t) : t[i] \in PeerSays
  BY <1>2, <1>3, <1>4 DEF Downward
<1>p. c \in pinged => c \in pinged'
  BY StillPinged
<1>7. \A i \in 1..Len(t) :
        /\ t[i] = "bad password" => c \in BadPassword
        /\ t[i] = "room full" => last[c] = "room full"
        /\ t[i] = "ping" => c \in pinged'
  BY <1>3, <1>p DEF Downward
<1>8. last[c] \notin {"relayed", "closed"} =>
        heard'[c] = <<>> /\ \A i \in 1..Len(t) : t[i] \notin PeerSays
  BY <1>3, <1>5 DEF Downward
<1>9. \A i, j \in 1..Len(t) : i < j /\ t[i] \in PeerSays => t[j] \in PeerSays
  <2>1. ASSUME NEW i \in 1..Len(t), NEW j \in 1..Len(t), i < j, t[i] \in PeerSays
        PROVE  t[j] \in PeerSays
    <3>1. i + 1 \in 1..Len(d) /\ j + 1 \in 1..Len(d) /\ i + 1 < j + 1
      BY <1>3, <2>1
    <3>2. d[i + 1] \in PeerSays
      BY <1>3, <2>1
    <3>3. d[j + 1] \in PeerSays
      BY <3>1, <3>2 DEF Downward
    <3> QED
      BY <1>3, <3>3
  <2> QED
    BY <2>1
<1>10. heard'[c] # <<>> => \A i \in 1..Len(t) : t[i] \in PeerSays
  <2>1. heard[c] # <<>> => \A i \in 1..Len(t) : t[i] \in PeerSays
    BY <1>3 DEF Downward
  <2> QED
    BY <1>6, <2>1
<1>11. down'[c] = t
  BY DEF t
<1> HIDE DEF d
<1>12. Downward(c)'
  BY <1>7, <1>8, <1>9, <1>10, <1>11 DEF Downward
<1> QED
  BY <1>5, <1>12 DEF d

\* The elements of a are those of d, and m behind them.
Lengthens(a, d, m) ==
  /\ \A i \in 1..Len(a) : (i \in 1..Len(d) /\ a[i] = d[i]) \/ a[i] = m
  /\ \A i, j \in 1..Len(a) : i < j => i \in 1..Len(d) /\ a[i] = d[i]

LEMMA Appended ==
  ASSUME NEW T, NEW d \in Seq(T), NEW m \in T
  PROVE  Lengthens(Append(d, m), d, m)
<1> DEFINE a == Append(d, m)
<1>1. Len(a) = Len(d) + 1 /\ \A i \in 1..Len(d) : a[i] = d[i]
  BY AppendProperties
<1>2. a[Len(a)] = m
  BY AppendProperties
<1>3. Len(d) \in Nat
  BY LenProperties
<1> HIDE DEF a
<1>4. ASSUME NEW i \in 1..Len(a)
      PROVE  i \in 1..Len(d) \/ i = Len(a)
  BY <1>1, <1>3
<1>5. \A i \in 1..Len(a) : (i \in 1..Len(d) /\ a[i] = d[i]) \/ a[i] = m
  BY <1>1, <1>2, <1>4
<1>6. \A i, j \in 1..Len(a) : i < j => i \in 1..Len(d)
  BY <1>1, <1>3
<1> QED
  BY <1>1, <1>5, <1>6 DEF a, Lengthens

\* The message m is sent to c.
Reaches(c, m) == down'[c] = Append(down[c], m)

\* What the relay says to one that is not bridged, and what it passes on.
LEMMA DownMore ==
  ASSUME ClientsTypeOK, NEW c \in Conn, Downward(c), GoesOn, NEW m \in Says,
         Reaches(c, m), heard'[c] = heard[c],
         m = "bad password" => c \in BadPassword,
         m = "room full" => last'[c] = "room full",
         m = "ping" => c \in pinged',
         last[c] = "room full" => last'[c] = "room full",
         IF m \in PeerSays THEN last'[c] \in {"relayed", "closed"}
         ELSE last[c] \notin {"relayed", "closed"}
  PROVE  Downward(c)'
<1>1. PICK d \in Seq(Says) : d = down[c] /\ Len(d) \in Nat
  BY MessageTypes
<1>2. PICK a : down'[c] = a /\ Lengthens(a, d, m)
  BY <1>1, Appended DEF Reaches
<1>3. /\ \A i \in 1..Len(a) : (i \in 1..Len(d) /\ a[i] = d[i]) \/ a[i] = m
      /\ \A i, j \in 1..Len(a) : i < j => i \in 1..Len(d) /\ a[i] = d[i]
  BY <1>2 DEF Lengthens
<1>4. /\ \A i, j \in 1..Len(d) : i < j /\ d[i] \in PeerSays => d[j] \in PeerSays
      /\ \A i \in 1..Len(d) :
           /\ d[i] = "bad password" => c \in BadPassword
           /\ d[i] = "room full" => last[c] = "room full"
           /\ d[i] = "ping" => c \in pinged
      /\ last[c] \notin {"relayed", "closed"} =>
           heard[c] = <<>> /\ \A i \in 1..Len(d) : d[i] \notin PeerSays
      /\ heard[c] # <<>> => \A i \in 1..Len(d) : d[i] \in PeerSays
  BY <1>1 DEF Downward
<1>6. \A i \in 1..Len(a) :
        /\ a[i] = "bad password" => c \in BadPassword
        /\ a[i] = "room full" => last'[c] = "room full"
        /\ a[i] = "ping" => c \in pinged'
  <2>1. \A i \in 1..Len(d) :
          /\ d[i] = "bad password" => c \in BadPassword
          /\ d[i] = "room full" => last'[c] = "room full"
          /\ d[i] = "ping" => c \in pinged'
    <3>1. c \in pinged => c \in pinged'
      BY StillPinged
    <3> QED
      BY <1>4, <3>1
  <2>2. /\ m = "bad password" => c \in BadPassword
        /\ m = "room full" => last'[c] = "room full"
        /\ m = "ping" => c \in pinged'
    OBVIOUS
  <2>3. ASSUME NEW i \in 1..Len(a)
        PROVE  /\ a[i] = "bad password" => c \in BadPassword
               /\ a[i] = "room full" => last'[c] = "room full"
               /\ a[i] = "ping" => c \in pinged'
    <3>1. CASE i \in 1..Len(d) /\ a[i] = d[i]
      BY <2>1, <3>1
    <3>2. CASE a[i] = m
      BY <2>2, <3>2
    <3> QED
      BY <1>3, <3>1, <3>2
  <2> QED
    BY <2>3
<1>7. last'[c] \notin {"relayed", "closed"} =>
        heard'[c] = <<>> /\ \A i \in 1..Len(a) : a[i] \notin PeerSays
  <2>1. ASSUME last'[c] \notin {"relayed", "closed"}
        PROVE  heard'[c] = <<>> /\ \A i \in 1..Len(a) : a[i] \notin PeerSays
    <3>1. m \notin PeerSays /\ last[c] \notin {"relayed", "closed"}
      BY <2>1
    <3>2. heard[c] = <<>> /\ \A i \in 1..Len(d) : d[i] \notin PeerSays
      BY <1>4, <3>1
    <3> QED
      BY <1>3, <3>1, <3>2
  <2> QED
    BY <2>1
<1>8. \A i, j \in 1..Len(a) : i < j /\ a[i] \in PeerSays => a[j] \in PeerSays
  <2>1. ASSUME NEW i \in 1..Len(a), NEW j \in 1..Len(a), i < j, a[i] \in PeerSays
        PROVE  a[j] \in PeerSays
    <3>1. i \in 1..Len(d) /\ d[i] \in PeerSays
      BY <1>3, <2>1
    <3>2. m \in PeerSays
      BY <1>4, <3>1
    <3>3. j \in 1..Len(d) => d[j] \in PeerSays
      BY <1>4, <2>1, <3>1
    <3> QED
      BY <1>3, <3>2, <3>3
  <2> QED
    BY <2>1
<1>9. heard'[c] # <<>> => \A i \in 1..Len(a) : a[i] \in PeerSays
  <2>1. ASSUME heard[c] # <<>> PROVE \A i \in 1..Len(a) : a[i] \in PeerSays
    <3>1. m \in PeerSays /\ \A i \in 1..Len(d) : d[i] \in PeerSays
      BY <1>4, <2>1
    <3> QED
      BY <1>3, <3>1
  <2> QED
    BY <2>1
<1> QED
  BY <1>2, <1>6, <1>7, <1>8, <1>9 DEF Downward

-----------------------------------------------------------------------------
(* Steps that concern one client.                                          *)

\* Nothing changes but for client c, its task and its socket, and no bridge
\* begins or ends.
Own(c) ==
  /\ cl' = [cl EXCEPT ![c] = cl'[c]]
  /\ up' = [up EXCEPT ![c] = up'[c]] /\ down' = [down EXCEPT ![c] = down'[c]]
  /\ said' = [said EXCEPT ![c] = said'[c]] /\ heard' = [heard EXCEPT ![c] = heard'[c]]
  /\ alive' = [alive EXCEPT ![c] = alive'[c]]
  /\ last' = [last EXCEPT ![c] = last'[c]] /\ pc' = [pc EXCEPT ![c] = pc'[c]]
  /\ UNCHANGED <<secret, pings, pinged, sender, receiver>>
  /\ "relaying" \in {pc[c], pc'[c]} => pc'[c] = pc[c]

Typed(c) ==
  /\ cl'[c] \in CL /\ up'[c] \in Seq(UpSays) /\ down'[c] \in Seq(Says)
  /\ said'[c] \in Seq(PeerSays) /\ heard'[c] \in Seq(PeerSays)

\* What a client that is bridged says it writes, and what it hears it reads.
Talks(c) ==
  \/ ~alive'[c] \/ last[c] # "relayed"
  \/ /\ alive[c]
     /\ \E m \in Seq(PeerSays) : said'[c] = said[c] \o m /\ up'[c] = up[c] \o m
     /\ \/ down'[c] = down[c] /\ heard'[c] = heard[c]
        \/ /\ down[c] # <<>> /\ down'[c] = Tail(down[c])
           /\ heard'[c] = IF Head(down[c]) \in PeerSays
                          THEN Append(heard[c], Head(down[c])) ELSE heard[c]

\* What causes another client to fail stays true.
Lasts(c) ==
  /\ cl[c] \in Gone => cl'[c] = cl[c]
  /\ said[c] # <<>> => said'[c] # <<>>
  /\ last[c] = "room full" => last'[c] = "room full"

Proper(c) == Own(c) /\ Typed(c) /\ Mine(c)' /\ Talks(c) /\ Lasts(c)

LEMMA OwnUntouched ==
  ASSUME IInv, ClientsTypeOK, NEW c \in Conn, Own(c), NEW d \in Conn \ {c}
  PROVE  Untouched(d)
BY DEF IInv, TypeOK, ClientsTypeOK, Own, Untouched

LEMMA OwnTypes ==
  ASSUME ClientsTypeOK, NEW c \in Conn, Own(c), Typed(c)
  PROVE  ClientsTypeOK'
<1>1. /\ cl \in [Conn -> CL] /\ up \in [Conn -> Seq(UpSays)] /\ down \in [Conn -> Seq(Says)]
      /\ said \in [Conn -> Seq(PeerSays)] /\ heard \in [Conn -> Seq(PeerSays)]
  BY DEF ClientsTypeOK, Says, UpSays
<1>2. /\ cl' \in [Conn -> CL] /\ up' \in [Conn -> Seq(UpSays)] /\ down' \in [Conn -> Seq(Says)]
      /\ said' \in [Conn -> Seq(PeerSays)] /\ heard' \in [Conn -> Seq(PeerSays)]
  BY <1>1 DEF Own, Typed
<1>3. secret' \in Secrets /\ pings' \in 0..MaxPings /\ pinged' \subseteq Conn
  BY DEF ClientsTypeOK, Own
<1> QED
  BY <1>2, <1>3 DEF ClientsTypeOK, Says, UpSays

LEMMA OwnTalk ==
  ASSUME IInv, ClientsTypeOK, TalkInv, NEW c \in Conn, Own(c), Mine(c)'
  PROVE  TalkInv'
<1>1. GoesOn
  BY DEF GoesOn, Own
<1>2. ASSUME NEW d \in Conn \ {c} PROVE Mine(d)'
  <2>1. Mine(d)
    BY DEF TalkInv, Mine
  <2>2. Untouched(d)
    BY OwnUntouched
  <2> QED
    BY <1>1, <2>1, <2>2, LastFacts, UntouchedMine
<1>3. \A d \in Conn : Mine(d)'
  BY <1>2
<1> QED
  BY <1>3 DEF TalkInv, Mine

\* A sequence of some messages is a sequence of all.
LEMMA WiderSeq ==
  ASSUME NEW S, NEW T, S \subseteq T, NEW s \in Seq(S)
  PROVE  s \in Seq(T)
<1>1. Len(s) \in Nat /\ s \in [1..Len(s) -> S]
  BY LenProperties
<1>2. s \in [1..Len(s) -> T]
  BY <1>1
<1> QED
  BY <1>1, <1>2, IsASeq

AllSays == UpSays \cup Says

\* What two clients of one bridge have to tell each other.
LEMMA PairTypes ==
  ASSUME ClientsTypeOK, NEW c \in Conn
  PROVE  /\ up[c] \in Seq(AllSays) /\ down[c] \in Seq(AllSays)
         /\ said[c] \in Seq(AllSays) /\ heard[c] \in Seq(AllSays)
<1>1. /\ UpSays \subseteq AllSays /\ Says \subseteq AllSays /\ PeerSays \subseteq AllSays
  BY DEF UpSays, Says, AllSays
<1> QED
  BY <1>1, MessageTypes, WiderSeq

LEMMA CarriedIsCarry ==
  ASSUME NEW e, NEW f
  PROVE  /\ Carried(e, f) <=> Carry(said[e], heard[f], down[f], up[e])
         /\ (Carried(e, f))' <=> Carry(said'[e], heard'[f], down'[f], up'[e])
BY DEF Carried, Carry

\* A client that is bridged, and still there, does not lose words of either.
LEMMA TalksCarry ==
  ASSUME ClientsTypeOK, NEW c \in Conn, Talks(c), alive'[c], last[c] = "relayed",
         NEW d \in Conn, Untouched(d)
  PROVE  /\ Carried(c, d) => (Carried(c, d))'
         /\ Carried(d, c) => (Carried(d, c))'
<1>1. /\ up[c] \in Seq(AllSays) /\ down[c] \in Seq(AllSays) /\ heard[c] \in Seq(AllSays)
      /\ up[d] \in Seq(AllSays) /\ down[d] \in Seq(AllSays) /\ heard[d] \in Seq(AllSays)
      /\ said[d] \in Seq(PeerSays)
  BY PairTypes, MessageTypes
<1>2. PICK m \in Seq(PeerSays) : said'[c] = said[c] \o m /\ up'[c] = up[c] \o m
  BY DEF Talks
<1>3. m \in Seq(AllSays)
  BY WiderSeq DEF AllSays, Says
<1>4. /\ up'[d] = up[d] /\ down'[d] = down[d] /\ said'[d] = said[d] /\ heard'[d] = heard[d]
  BY DEF Untouched
<1>5. ASSUME Carried(c, d) PROVE (Carried(c, d))'
  <2>1. Carry(said[c], heard[d], down[d], up[c])
    BY <1>5, CarriedIsCarry
  <2>2. Carry(said[c] \o m, heard[d], down[d], up[c] \o m)
    BY <1>1, <1>3, <2>1, CarrySaid
  <2> QED
    BY <1>2, <1>4, <2>2, CarriedIsCarry
<1>6. ASSUME Carried(d, c) PROVE (Carried(d, c))'
  <2>1. Carry(said[d], heard[c], down[c], up[d])
    BY <1>6, CarriedIsCarry
  <2>2. CASE down'[c] = down[c] /\ heard'[c] = heard[c]
    BY <1>4, <2>1, <2>2, CarriedIsCarry
  <2>3. CASE /\ down[c] # <<>> /\ down'[c] = Tail(down[c])
             /\ heard'[c] = IF Head(down[c]) \in PeerSays
                            THEN Append(heard[c], Head(down[c])) ELSE heard[c]
    <3>1. CASE Head(down[c]) \in PeerSays
      <4>1. Carry(said[d], Append(heard[c], Head(down[c])), Tail(down[c]), up[d])
        BY <1>1, <2>1, <2>3, <3>1, CarryHeard
      <4> QED
        BY <1>4, <2>3, <3>1, <4>1, CarriedIsCarry
    <3>2. CASE Head(down[c]) \notin PeerSays
      <4>1. Carry(said[d], heard[c], Tail(down[c]), up[d])
        BY <1>1, <2>1, <2>3, <3>2, CarrySkipped
      <4> QED
        BY <1>4, <2>3, <3>2, <4>1, CarriedIsCarry
    <3> QED
      BY <3>1, <3>2
  <2> QED
    BY <2>2, <2>3 DEF Talks
<1> QED
  BY <1>5, <1>6

\* Two clients that a step leaves alone.
LEMMA UntouchedCarry ==
  ASSUME NEW c \in Conn, Untouched(c), NEW d \in Conn, Untouched(d), Carried(c, d)
  PROVE  (Carried(c, d))'
BY CarriedIsCarry DEF Untouched

LEMMA OwnCarry ==
  ASSUME IInv, ClientsTypeOK, RelayedInv, CarryInv, NEW c \in Conn, Own(c), Talks(c)
  PROVE  CarryInv'
<1> SUFFICES ASSUME NEW h \in Conn, pc'[h] = "relaying",
                    NEW e \in {<<sender'[h], receiver'[h]>>, <<receiver'[h], sender'[h]>>},
                    alive'[e[1]], alive'[e[2]]
             PROVE  (Carried(e[1], e[2]))'
  BY DEF CarryInv
<1>1. pc[h] = "relaying" /\ sender' = sender /\ receiver' = receiver
  BY DEF Own, IInv, TypeOK
<1>2. /\ e[1] \in Conn /\ e[2] \in Conn /\ e[1] # e[2]
      /\ last[e[1]] = "relayed" /\ last[e[2]] = "relayed"
  BY <1>1, RelayPair DEF RelayedInv
<1>3. \A d \in Conn \ {c} : Untouched(d)
  BY OwnUntouched
<1>4. \A d \in Conn : last[d] = "relayed" /\ alive'[d] => alive[d]
  BY <1>3 DEF Talks, Untouched
<1>5. Carried(e[1], e[2])
  BY <1>1, <1>2, <1>4 DEF CarryInv
<1>6. CASE e[1] = c
  BY <1>2, <1>3, <1>5, <1>6, TalksCarry
<1>7. CASE e[2] = c
  BY <1>2, <1>3, <1>5, <1>7, TalksCarry
<1>8. CASE c \notin {e[1], e[2]}
  BY <1>2, <1>3, <1>5, <1>8, UntouchedCarry
<1> QED
  BY <1>6, <1>7, <1>8

-----------------------------------------------------------------------------
(* What the causes of a failure have in common.                            *)

\* What made client c fail.
Cause(c) ==
  \/ secret[c] < 4 \/ c \in BadPassword
  \/ last[c] = "room full"
  \/ c \in pinged \ Sender
  \/ PeerGone(c)

LEMMA FailureIsCaused ==
  /\ FailureHasACause <=> \A c \in Conn : cl[c] = "failed" => Cause(c)
  /\ FailureHasACause' <=> \A c \in Conn : cl'[c] = "failed" => (Cause(c))'
BY DEF FailureHasACause, Cause, PeerGone, Culprit

\* Whoever has been put through stays so.
MetLasts == \A c, d \in Conn : Met(c, d) => (Met(c, d))'

\* What has been said stays said, and who is gone stays away.
AllLast == GoesOn /\ MetLasts /\ \A c \in Conn : Lasts(c)

LEMMA CausesLast ==
  ASSUME ClientsTypeOK, AllLast, NEW c \in Conn
  PROVE  /\ Cause(c) => (Cause(c))'
         /\ PeerGone(c) => (PeerGone(c))'
<1>1. secret' = secret /\ \A d : d \in pinged \ Sender => d \in pinged' \ Sender
  BY DEF AllLast, GoesOn
<1>2. /\ \A d \in Conn : cl[d] \in Gone => cl'[d] = cl[d]
      /\ last[c] = "room full" => last'[c] = "room full"
  BY DEF AllLast, Lasts
<1>3. PeerGone(c) => (PeerGone(c))'
  <2>1. ASSUME NEW d \in Conn, Met(c, d), Culprit(c, d)
        PROVE  (Met(c, d))' /\ (Culprit(c, d))'
    <3>1. (Met(c, d))'
      BY <2>1 DEF AllLast, MetLasts
    <3>2. (Culprit(c, d))'
      BY <1>1, <1>2, <2>1 DEF Culprit, Gone
    <3> QED
      BY <3>1, <3>2
  <2> QED
    BY <2>1 DEF PeerGone
<1>4. secret[c] < 4 => secret'[c] < 4
  BY <1>1
<1> QED
  BY <1>1, <1>2, <1>3, <1>4 DEF Cause

\* A step that makes no client fail.
LEMMA NobodyFails ==
  ASSUME ClientsTypeOK, FailureHasACause, AllLast,
         \A c \in Conn : cl'[c] = "failed" => cl[c] = "failed"
  PROVE  FailureHasACause'
<1>1. ASSUME NEW c \in Conn PROVE cl'[c] = "failed" => (Cause(c))'
  BY CausesLast, FailureIsCaused
<1> QED
  BY <1>1, FailureIsCaused

\* A step that closes no socket of a client that is there.
LEMMA NobodyCloses ==
  ASSUME ClientsTypeOK, EndInv, AllLast,
         \A c \in Conn : alive'[c] /\ last'[c] = "closed" => alive[c] /\ last[c] = "closed"
  PROVE  EndInv'
BY CausesLast DEF EndInv

LEMMA OwnLasts ==
  ASSUME IInv, ClientsTypeOK, NEW c \in Conn, Own(c), Lasts(c)
  PROVE  AllLast
<1>1. GoesOn
  BY DEF GoesOn, Own
<1>2. ASSUME NEW d \in Conn \ {c} PROVE Lasts(d)
  <2>1. Untouched(d)
    BY OwnUntouched
  <2> QED
    BY <2>1 DEF Lasts, Untouched
<1>3. MetLasts
  BY DEF Own, MetLasts, Met
<1> QED
  BY <1>1, <1>2, <1>3 DEF AllLast

-----------------------------------------------------------------------------
(* The steps of a client.                                                  *)

\* The functions that a step of a client or of its task may change.
LEMMA Shapes ==
  ASSUME IInv, ClientsTypeOK
  PROVE  /\ cl \in [Conn -> CL] /\ up \in [Conn -> Seq(UpSays)] /\ down \in [Conn -> Seq(Says)]
         /\ said \in [Conn -> Seq(PeerSays)] /\ heard \in [Conn -> Seq(PeerSays)]
         /\ alive \in [Conn -> BOOLEAN] /\ last \in [Conn -> Sent] /\ pc \in [Conn -> PC]
BY DEF IInv, TypeOK, ClientsTypeOK, Says, UpSays

LEMMA ClientIsOwn ==
  ASSUME IInv, ClientsTypeOK, NEW c \in Conn, ClientSide(c) \/ Crash(c)
  PROVE  Own(c)
<1>1. CASE RejectSecret(c) \/ SendKey(c) \/ SendPassword(c) \/ SendRoom(c)
  BY <1>1, Shapes DEF RejectSecret, SendKey, SendPassword, SendRoom, Step, Write, Read,
     run_instance, Goto, locals, roomState, vars, talk, Own
<1>2. CASE EnterRoom(c) \/ SkipPing(c) \/ HearHandshake(c)
  BY <1>2, Shapes DEF EnterRoom, SkipPing, HearHandshake, Step, Write, Read, vars, talk, Own
<1>3. CASE StartSession(c) \/ HearPake(c)
  BY <1>3, Shapes DEF StartSession, HearPake, Step, Write, Read, vars, talk, Own
<1>4. CASE GiveUp(c) \/ PanicOnSecret(c) \/ Crash(c)
  BY <1>4, Shapes DEF GiveUp, PanicOnSecret, Crash, Vanish, ClientCloses, Lose, locals,
     roomState, vars, talk, Own
<1> QED
  BY <1>1, <1>2, <1>3, <1>4 DEF ClientSide

LEMMA TaskIsOwn ==
  ASSUME IInv, ClientsTypeOK, NEW c \in Conn,
         AnswerKey(c) \/ AnswerPassword(c) \/ TakeRoomName(c) \/ AnswerRoom(c)
  PROVE  Own(c)
<1>1. CASE AnswerKey(c) \/ AnswerPassword(c) \/ TakeRoomName(c)
  BY <1>1, Shapes DEF AnswerKey, AnswerPassword, TakeRoomName, negotiate_symmetric_key,
     CheckPassword, ReadRoomName, Goto, Tell, Take, Reply, locals, roomState, talk, Own
<1>2. CASE AnswerRoom(c)
  BY <1>2, Shapes DEF AnswerRoom, CreateRoom, JoinRoom, RefuseFull, AnswerFails, Goto, Tell,
     Reply, locals, talk, Own
<1> QED
  BY <1>1, <1>2

\* Short sequences.
LEMMA Shorts ==
  /\ \A x : Tail(<<x>>) = <<>> /\ Head(<<x>>) = x /\ <<x>> # <<>>
  /\ \A x : <<>> \o <<x>> = <<x>>
  /\ \A x, y : <<>> \o <<x, y>> = <<x, y>> /\ Head(<<x, y>>) = x /\ <<x, y>> # <<>>
OBVIOUS

\* A client whose socket is not touched.
LEMMA QuietOwn ==
  ASSUME IInv, ClientsTypeOK, NEW c \in Conn, Mine(c), Own(c), cl'[c] \in CL,
         up'[c] = up[c], down'[c] = down[c], said'[c] = said[c], heard'[c] = heard[c],
         alive'[c] = alive[c], last'[c] = last[c], pc'[c] = pc[c],
         (Stage(c))', cl[c] \notin Gone
  PROVE  Proper(c)
<1>1. Typed(c)
  BY MessageTypes DEF Typed
<1>2. GoesOn
  BY DEF GoesOn, Own
<1>3. Downward(c)'
  BY <1>2, DownStays DEF Mine
<1>4. Speech(c)' /\ Upward(c)'
  BY DEF Mine, Speech, Upward
<1>5. Talks(c)
  <2>1. /\ said[c] \o <<>> = said[c] /\ up[c] \o <<>> = up[c] /\ <<>> \in Seq(PeerSays)
    BY MessageTypes, ConcatEmptySeq, EmptySeq
  <2>2. CASE ~alive[c]
    BY <2>2 DEF Talks
  <2>3. CASE alive[c]
    BY <2>1, <2>3 DEF Talks
  <2> QED
    BY <2>2, <2>3
<1>6. Lasts(c)
  BY DEF Lasts
<1> QED
  BY <1>1, <1>3, <1>4, <1>5, <1>6 DEF Proper, Mine

LEMMA RejectSecretProper ==
  ASSUME IInv, ClientsTypeOK, NEW c \in Conn, Mine(c), RejectSecret(c)
  PROVE  Proper(c)
<1>1. Own(c)
  BY ClientIsOwn DEF ClientSide
<1>2. /\ cl[c] = "start" /\ cl'[c] = "failed" /\ secret'[c] = secret[c] /\ secret[c] < 4
      /\ up'[c] = up[c] /\ down'[c] = down[c] /\ said'[c] = said[c] /\ heard'[c] = heard[c]
      /\ alive'[c] = alive[c] /\ last'[c] = last[c] /\ pc'[c] = pc[c]
  BY Shapes DEF RejectSecret, Step, vars, talk
<1>3. Absent(c)
  BY <1>2 DEF Mine, Stage, HasLeft, Knocking, Refused, InRoom, Gone
<1>4. (Stage(c))'
  BY <1>2, <1>3 DEF Stage, Absent, Silent
<1>5. cl'[c] \in CL /\ cl[c] \notin Gone
  BY <1>2 DEF CL, Gone
<1> QED
  BY <1>1, <1>2, <1>4, <1>5, QuietOwn

\* The client knocks.
LEMMA SendKeyProper ==
  ASSUME IInv, ClientsTypeOK, NEW c \in Conn, Mine(c), SendKey(c)
  PROVE  Proper(c)
<1>1. Own(c)
  BY ClientIsOwn DEF ClientSide
<1>2. /\ cl[c] = "start" /\ cl'[c] = "key" /\ secret'[c] = secret[c] /\ secret[c] >= 4
      /\ up'[c] = up[c] \o <<"key">> /\ down'[c] = down[c] /\ said'[c] = said[c]
      /\ heard'[c] = heard[c] /\ alive'[c] = TRUE /\ last'[c] = last[c]
      /\ pc[c] = "off" /\ pc'[c] = "peek"
  BY Shapes DEF SendKey, Step, Write, run_instance, Goto, roomState, locals, talk
<1>3. Absent(c)
  BY <1>2 DEF Mine, Stage, HasLeft, Knocking, Refused, InRoom, Gone
<1>4. up'[c] = <<"key">> /\ down'[c] = <<>> /\ said'[c] = <<>> /\ heard'[c] = <<>>
  BY <1>2, <1>3, Shorts DEF Absent, Silent
<1>5. Typed(c)
  BY <1>2, <1>4, MessageTypes DEF Typed, CL, Waiting, UpSays
<1>6. (Stage(c))'
  BY <1>2, <1>4 DEF Stage, Knocking, Silent
<1>7. GoesOn
  BY <1>1 DEF GoesOn, Own
<1>8. Downward(c)'
  BY <1>2, <1>7, DownStays DEF Mine
<1>9. last[c] \in {"nothing", "banner"}
  BY <1>2, LastFacts DEF Unplaced
<1>10. Speech(c)' /\ Upward(c)'
  BY <1>2, <1>9 DEF Mine, Speech, Upward
<1>11. Talks(c) /\ Lasts(c)
  BY <1>2, <1>9 DEF Talks, Lasts, Gone
<1> QED
  BY <1>1, <1>5, <1>6, <1>8, <1>10, <1>11 DEF Proper, Mine

\* A client in the handshake reads what the relay has answered and writes more.
LEMMA KnockingOn ==
  ASSUME IInv, ClientsTypeOK, NEW c \in Conn, Mine(c), Own(c), Knocking(c),
         down[c] # <<>>, down'[c] = Tail(down[c]), up'[c] \in Seq(UpSays),
         said'[c] = said[c], heard'[c] = heard[c],
         last'[c] = last[c], pc'[c] = pc[c], pc[c] \in Handshaking, secret[c] >= 4,
         cl'[c] \in CL, (Knocking(c))'
  PROVE  Proper(c)
<1>1. GoesOn /\ secret'[c] = secret[c]
  BY DEF GoesOn, Own
<1>2. Downward(c)'
  BY <1>1, DownRead DEF Mine
<1>3. last[c] \in {"nothing", "banner"}
  BY LastFacts DEF Unplaced
<1>4. Upward(c)'
  BY <1>3 DEF Upward, Handshaking
<1>5. Speech(c)' /\ Stage(c)'
  BY <1>1 DEF Mine, Speech, Stage
<1>6. down'[c] \in Seq(Says)
  BY MessageTypes, HeadTailProperties
<1>7. Typed(c)
  BY <1>6, MessageTypes DEF Typed
<1>8. Talks(c) /\ Lasts(c)
  BY <1>3 DEF Talks, Lasts, Knocking, Gone
<1> QED
  BY <1>2, <1>4, <1>5, <1>7, <1>8 DEF Proper, Mine

LEMMA SendPasswordProper ==
  ASSUME IInv, ClientsTypeOK, NEW c \in Conn, Mine(c), SendPassword(c)
  PROVE  Proper(c)
<1>1. Own(c)
  BY ClientIsOwn DEF ClientSide
<1>2. /\ cl[c] = "key" /\ cl'[c] = "banner"
      /\ up'[c] = up[c] \o <<"salt", "password">> /\ down[c] # <<>> /\ down'[c] = Tail(down[c])
      /\ said'[c] = said[c] /\ heard'[c] = heard[c] /\ alive'[c] = alive[c]
      /\ last'[c] = last[c] /\ pc'[c] = pc[c]
  BY Shapes DEF SendPassword, Step, Write, Read, Next1, vars, talk
<1>3. secret[c] >= 4 /\ Knocking(c)
  BY <1>2 DEF Mine, Stage, Absent, HasLeft, Refused, InRoom, Gone
<1>4. pc[c] = "password" /\ up[c] = <<>> /\ down[c] = <<"key">>
  BY <1>2, <1>3 DEF Knocking
<1>5. up'[c] = <<"salt", "password">> /\ down'[c] = <<>>
  BY <1>2, <1>4, Shorts
<1>6. (Knocking(c))'
  BY <1>2, <1>3, <1>4, <1>5 DEF Knocking, Silent
<1>7. up'[c] \in Seq(UpSays) /\ cl'[c] \in CL /\ pc[c] \in Handshaking
  BY <1>2, <1>4, <1>5 DEF UpSays, CL, Waiting, Handshaking
<1> QED
  BY <1>1, <1>2, <1>3, <1>6, <1>7, KnockingOn

LEMMA SendRoomProper ==
  ASSUME IInv, ClientsTypeOK, NEW c \in Conn, Mine(c), SendRoom(c)
  PROVE  Proper(c)
<1>1. Own(c)
  BY ClientIsOwn DEF ClientSide
<1>2. /\ cl[c] = "banner" /\ cl'[c] = "answer"
      /\ up'[c] = up[c] \o <<"room">> /\ down[c] # <<>> /\ Head(down[c]) = "banner"
      /\ down'[c] = Tail(down[c])
      /\ said'[c] = said[c] /\ heard'[c] = heard[c] /\ alive'[c] = alive[c]
      /\ last'[c] = last[c] /\ pc'[c] = pc[c]
  BY Shapes DEF SendRoom, Step, Write, Read, Next1, vars, talk
<1>3. secret[c] >= 4 /\ Knocking(c)
  BY <1>2 DEF Mine, Stage, Absent, HasLeft, Refused, InRoom, Gone
<1>4. /\ pc[c] = "name" /\ up[c] = <<>>
      /\ down[c] = IF c \in BadPassword THEN <<"bad password", "banner">> ELSE <<"banner">>
  BY <1>2, <1>3 DEF Knocking
<1>5. c \notin BadPassword /\ down[c] = <<"banner">>
  <2>1. ASSUME c \in BadPassword PROVE FALSE
    <3>1. Head(down[c]) = "bad password"
      BY <1>4, <2>1, Shorts
    <3> QED
      BY <1>2, <3>1
  <2> QED
    BY <1>4, <2>1
<1>6. up'[c] = <<"room">> /\ down'[c] = <<>>
  BY <1>2, <1>4, <1>5, Shorts
<1>7. (Knocking(c))'
  <2>1. pc'[c] = "name" /\ alive'[c] /\ said'[c] = <<>> /\ heard'[c] = <<>>
    BY <1>2, <1>3, <1>4 DEF Knocking, Silent
  <2>2. cl'[c] = "answer"
    BY <1>2
  <2> QED
    BY <1>5, <1>6, <2>1, <2>2 DEF Knocking, Silent
<1>8. up'[c] \in Seq(UpSays) /\ cl'[c] \in CL /\ pc[c] \in Handshaking
  <2>1. up'[c] \in Seq(UpSays)
    BY <1>6 DEF UpSays
  <2>2. cl'[c] = "answer" /\ pc[c] = "name"
    BY <1>2, <1>4
  <2> QED
    BY <2>1, <2>2 DEF CL, Waiting, Handshaking
<1> QED
  BY <1>1, <1>2, <1>3, <1>7, <1>8, KnockingOn

\* A client in its room says m, reads a message, or both.
LEMMA RoomStep ==
  ASSUME IInv, ClientsTypeOK, NEW c \in Conn, Mine(c), Own(c), InRoom(c), secret[c] >= 4,
         alive'[c] = alive[c], last'[c] = last[c], pc'[c] = pc[c], cl'[c] \in CL,
         NEW m \in Seq(PeerSays), said'[c] = said[c] \o m, up'[c] = up[c] \o m,
         \/ down'[c] = down[c] /\ heard'[c] = heard[c]
         \/ /\ down[c] # <<>> /\ down'[c] = Tail(down[c])
            /\ heard'[c] = IF Head(down[c]) \in PeerSays
                           THEN Append(heard[c], Head(down[c])) ELSE heard[c],
         (InRoom(c))', (Speech(c))'
  PROVE  Proper(c)
<1>1. GoesOn /\ secret'[c] = secret[c]
  BY DEF GoesOn, Own
<1>2. Downward(c)'
  <2>1. CASE down'[c] = down[c] /\ heard'[c] = heard[c]
    BY <1>1, <2>1, DownStays DEF Mine
  <2>2. CASE /\ down[c] # <<>> /\ down'[c] = Tail(down[c])
             /\ heard'[c] = IF Head(down[c]) \in PeerSays
                            THEN Append(heard[c], Head(down[c])) ELSE heard[c]
    <3>1. heard'[c] = heard[c] \/ Head(down[c]) \in PeerSays
      BY <2>2
    <3> QED
      BY <1>1, <2>2, <3>1, DownRead DEF Mine
  <2> QED
    BY <2>1, <2>2
<1>3. /\ up[c] \in Seq(UpSays) /\ said[c] \in Seq(PeerSays) /\ heard[c] \in Seq(PeerSays)
      /\ down[c] \in Seq(Says)
  BY MessageTypes
<1>4. up'[c] \in Seq(UpSays) /\ said'[c] \in Seq(PeerSays)
  <2>1. m \in Seq(UpSays)
    BY WiderSeq DEF UpSays
  <2> QED
    BY <1>3, <2>1, ConcatProperties
<1>5. heard'[c] \in Seq(PeerSays) /\ down'[c] \in Seq(Says)
  <2>1. CASE down'[c] = down[c] /\ heard'[c] = heard[c]
    BY <1>3, <2>1
  <2>2. CASE /\ down[c] # <<>> /\ down'[c] = Tail(down[c])
             /\ heard'[c] = IF Head(down[c]) \in PeerSays
                            THEN Append(heard[c], Head(down[c])) ELSE heard[c]
    <3>1. down'[c] \in Seq(Says)
      BY <1>3, <2>2, HeadTailProperties
    <3>2. CASE Head(down[c]) \in PeerSays
      BY <1>3, <2>2, <3>1, <3>2, AppendProperties
    <3>3. CASE Head(down[c]) \notin PeerSays
      BY <1>3, <2>2, <3>1, <3>3
    <3> QED
      BY <3>2, <3>3
  <2> QED
    BY <2>1, <2>2
<1>6. Typed(c)
  BY <1>4, <1>5 DEF Typed
<1>7. Upward(c)'
  <2>1. ASSUME last[c] \in {"ok", "ping", "relayed"} PROVE up'[c] \in Seq(PeerSays)
    <3>1. up[c] \in Seq(PeerSays)
      BY <2>1 DEF Mine, Upward
    <3> QED
      BY <3>1, ConcatProperties
  <2>2. pc'[c] \notin {"lock_rooms", "in_rooms"}
    BY DEF InRoom, Unplaced
  <2>3. alive[c] /\ last[c] \in {"ok", "ping"} => up'[c] = said'[c]
    BY DEF Mine, Upward
  <2> QED
    BY <2>1, <2>2, <2>3 DEF Upward
<1>8. Talks(c)
  BY DEF Talks, InRoom
<1>9. Lasts(c)
  <2>1. said[c] # <<>> => said'[c] # <<>>
    <3>1. Len(said'[c]) = Len(said[c]) + Len(m) /\ Len(m) \in Nat /\ Len(said[c]) \in Nat
      BY <1>3, ConcatProperties, LenProperties
    <3>2. ASSUME said'[c] = <<>> PROVE said[c] = <<>>
      <4>1. Len(said'[c]) = 0
        BY <3>2
      <4>2. Len(said[c]) = 0
        BY <3>1, <4>1
      <4> QED
        BY <1>3, <4>2, EmptySeq
    <3> QED
      BY <3>2
  <2>2. cl[c] \notin Gone /\ last[c] # "room full"
    BY DEF InRoom, Gone
  <2> QED
    BY <2>1, <2>2 DEF Lasts
<1>10. (Stage(c))'
  BY <1>1 DEF Stage
<1> QED
  BY <1>2, <1>6, <1>7, <1>8, <1>9, <1>10 DEF Proper, Mine

\* Where a client is that has been let in.
LEMMA IsInRoom ==
  ASSUME NEW c \in Conn, Mine(c),
         \/ cl[c] \in {"keepalive", "net", "session"}
         \/ cl[c] = "answer" /\ down[c] # <<>> /\ Head(down[c]) # "room full"
  PROVE  InRoom(c) /\ secret[c] >= 4
<1>1. CASE cl[c] \in {"keepalive", "net", "session"}
  BY <1>1 DEF Mine, Stage, Absent, HasLeft, Knocking, Refused, Gone
<1>2. CASE cl[c] = "answer" /\ down[c] # <<>> /\ Head(down[c]) # "room full"
  BY <1>2, Shorts DEF Mine, Stage, Absent, HasLeft, Knocking, Refused, Gone
<1> QED
  BY <1>1, <1>2

LEMMA SpeechStays ==
  ASSUME NEW c \in Conn, Speech(c), said'[c] = said[c],
         heard[c] # <<>> => heard'[c] # <<>>
  PROVE  Speech(c)'
BY DEF Speech

\* A second word is no handshake.
LEMMA SpeechPake ==
  ASSUME ClientsTypeOK, NEW c \in Conn, Speech(c), said'[c] = Append(said[c], "pake"),
         IF c \in Sender THEN heard'[c] # <<>> ELSE said[c] # <<>>
  PROVE  Speech(c)'
<1>1. PICK s \in Seq(PeerSays) : s = said[c] /\ Len(s) \in Nat
  BY MessageTypes
<1>2. PICK a : /\ said'[c] = a /\ Lengthens(a, s, "pake") /\ (s # <<>> => a[1] = s[1])
               /\ (s # <<>> => 1 \in 1..Len(s))
  <2>1. "pake" \in PeerSays
    BY DEF PeerSays
  <2>2. Lengthens(Append(s, "pake"), s, "pake")
    BY <2>1, Appended
  <2>3. s # <<>> => 1 \in 1..Len(s)
    BY <1>1, EmptySeq
  <2>4. s # <<>> => Append(s, "pake")[1] = s[1]
    BY <2>1, <2>3, AppendProperties
  <2> QED
    BY <1>1, <2>2, <2>3, <2>4
<1>3. \A i \in 1..Len(a) : (i \in 1..Len(s) /\ a[i] = s[i]) \/ a[i] = "pake"
  BY <1>2 DEF Lengthens
<1>4. \A i \in 1..Len(s) : s[i] = "handshake" <=> c \notin Sender /\ i = 1
  BY <1>1 DEF Speech
<1>5. \A i \in 1..Len(a) : a[i] = "handshake" <=> c \notin Sender /\ i = 1
  <2>1. ASSUME NEW i \in 1..Len(a), a[i] = "handshake" PROVE c \notin Sender /\ i = 1
    BY <1>3, <1>4, <2>1
  <2>2. ASSUME NEW i \in 1..Len(a), c \notin Sender, i = 1 PROVE a[i] = "handshake"
    <3>1. s # <<>>
      BY <1>1, <2>2
    <3> QED
      BY <1>2, <1>4, <2>2, <3>1
  <2> QED
    BY <2>1, <2>2
<1>6. c \in Sender => heard'[c] # <<>>
  OBVIOUS
<1> QED
  BY <1>2, <1>5, <1>6 DEF Speech

LEMMA Heard ==
  ASSUME NEW T, NEW h \in Seq(T), NEW m \in T
  PROVE  Append(h, m) # <<>> /\ Append(h, m) = h \o <<m>> /\ <<m>> \in Seq(T)
BY AppendProperties, AppendIsConcat

LEMMA EnterRoomProper ==
  ASSUME IInv, ClientsTypeOK, NEW c \in Conn, Mine(c), EnterRoom(c)
  PROVE  Proper(c)
<1>1. Own(c)
  BY ClientIsOwn DEF ClientSide
<1>2. /\ cl[c] = "answer" /\ cl'[c] = IF c \in Sender THEN "keepalive" ELSE "net"
      /\ down[c] # <<>> /\ Head(down[c]) = "ok" /\ down'[c] = Tail(down[c])
      /\ heard'[c] = heard[c] /\ alive'[c] = alive[c] /\ last'[c] = last[c] /\ pc'[c] = pc[c]
  BY Shapes DEF EnterRoom, Step, Read, Next1, vars
<1>3. IF c \in Sender THEN up'[c] = up[c] /\ said'[c] = said[c]
      ELSE up'[c] = up[c] \o <<"handshake">> /\ said'[c] = <<"handshake">>
  BY Shapes DEF EnterRoom, Write
<1>4. InRoom(c) /\ secret[c] >= 4
  BY <1>2, IsInRoom
<1>5. up[c] = <<>> /\ said[c] = <<>> /\ heard[c] = <<>>
  BY <1>2, <1>4 DEF InRoom, Silent
<1>6. PICK m \in Seq(PeerSays) :
        /\ said'[c] = said[c] \o m /\ up'[c] = up[c] \o m
        /\ said'[c] = m /\ (IF c \in Sender THEN m = <<>> ELSE m = <<"handshake">>)
  <2>1. CASE c \in Sender
    <3>1. <<>> \in Seq(PeerSays) /\ <<>> \o <<>> = <<>>
      BY EmptySeq, ConcatEmptySeq
    <3> QED
      BY <1>3, <1>5, <2>1, <3>1
  <2>2. CASE c \notin Sender
    <3>1. <<"handshake">> \in Seq(PeerSays)
      BY DEF PeerSays
    <3>2. <<>> \o <<"handshake">> = <<"handshake">>
      BY Shorts
    <3> QED
      BY <1>3, <1>5, <2>2, <3>1, <3>2
  <2> QED
    BY <2>1, <2>2
<1>7. (InRoom(c))'
  BY <1>2, <1>4, <1>5, <1>6 DEF InRoom, Silent
<1>8. (Speech(c))'
  <2>1. CASE c \in Sender
    BY <1>2, <1>5, <1>6, <2>1 DEF Speech
  <2>2. CASE c \notin Sender
    <3>1. said'[c] = <<"handshake">>
      BY <1>6, <2>2
    <3>2. \A i \in 1..Len(<<"handshake">>) : <<"handshake">>[i] = "handshake" /\ i = 1
      OBVIOUS
    <3> QED
      BY <2>2, <3>1, <3>2 DEF Speech
  <2> QED
    BY <2>1, <2>2
<1>9. Head(down[c]) \notin PeerSays /\ cl'[c] \in CL
  BY <1>2 DEF PeerSays, CL, Waiting
<1> QED
  BY <1>1, <1>2, <1>4, <1>6, <1>7, <1>8, <1>9, RoomStep

LEMMA SkipPingProper ==
  ASSUME IInv, ClientsTypeOK, NEW c \in Conn, Mine(c), SkipPing(c)
  PROVE  Proper(c)
<1>1. Own(c)
  BY ClientIsOwn DEF ClientSide
<1>2. /\ cl[c] = "keepalive" /\ cl'[c] = cl[c]
      /\ down[c] # <<>> /\ Head(down[c]) = "ping" /\ down'[c] = Tail(down[c])
      /\ up'[c] = up[c] /\ said'[c] = said[c]
      /\ heard'[c] = heard[c] /\ alive'[c] = alive[c] /\ last'[c] = last[c] /\ pc'[c] = pc[c]
  BY Shapes DEF SkipPing, Step, Read, Next1, vars, talk
<1>3. InRoom(c) /\ secret[c] >= 4
  BY <1>2, IsInRoom
<1>4. /\ <<>> \in Seq(PeerSays) /\ said'[c] = said[c] \o <<>> /\ up'[c] = up[c] \o <<>>
  BY <1>2, MessageTypes, EmptySeq, ConcatEmptySeq
<1>5. (InRoom(c))'
  BY <1>2, <1>3 DEF InRoom, Silent
<1>6. (Speech(c))'
  BY <1>2, SpeechStays DEF Mine
<1>7. Head(down[c]) \notin PeerSays /\ cl'[c] \in CL
  BY <1>2 DEF PeerSays, CL, Waiting
<1> QED
  BY <1>1, <1>2, <1>3, <1>4, <1>5, <1>6, <1>7, RoomStep

LEMMA HearHandshakeProper ==
  ASSUME IInv, ClientsTypeOK, NEW c \in Conn, Mine(c), HearHandshake(c)
  PROVE  Proper(c)
<1>1. Own(c)
  BY ClientIsOwn DEF ClientSide
<1>2. /\ cl[c] = "keepalive" /\ cl'[c] = "net"
      /\ down[c] # <<>> /\ Head(down[c]) = "handshake" /\ down'[c] = Tail(down[c])
      /\ up'[c] = up[c] /\ said'[c] = said[c] /\ heard'[c] = Append(heard[c], "handshake")
      /\ alive'[c] = alive[c] /\ last'[c] = last[c] /\ pc'[c] = pc[c]
  BY Shapes DEF HearHandshake, Step, Read, Next1, vars
<1>3. InRoom(c) /\ secret[c] >= 4
  BY <1>2, IsInRoom
<1>4. /\ <<>> \in Seq(PeerSays) /\ said'[c] = said[c] \o <<>> /\ up'[c] = up[c] \o <<>>
  BY <1>2, MessageTypes, EmptySeq, ConcatEmptySeq
<1>5. Head(down[c]) \in PeerSays /\ cl'[c] \in CL /\ "handshake" \in PeerSays
  BY <1>2 DEF PeerSays, CL, Waiting
<1>6. heard'[c] # <<>>
  BY <1>2, <1>5, MessageTypes, Heard
<1>7. (InRoom(c))'
  BY <1>2, <1>3, <1>6 DEF InRoom, Silent
<1>8. (Speech(c))'
  BY <1>2, <1>6, SpeechStays DEF Mine
<1> QED
  BY <1>1, <1>2, <1>3, <1>4, <1>5, <1>7, <1>8, RoomStep

LEMMA StartSessionProper ==
  ASSUME IInv, ClientsTypeOK, NEW c \in Conn, Mine(c), StartSession(c)
  PROVE  Proper(c)
<1>1. Own(c)
  BY ClientIsOwn DEF ClientSide
<1>2. /\ cl[c] = "net" /\ cl'[c] = "session"
      /\ down'[c] = down[c] /\ heard'[c] = heard[c]
      /\ alive'[c] = alive[c] /\ last'[c] = last[c] /\ pc'[c] = pc[c]
  BY Shapes DEF StartSession, Step, vars
<1>3. IF c \in Sender THEN up'[c] = up[c] /\ said'[c] = said[c]
      ELSE up'[c] = up[c] \o <<"pake">> /\ said'[c] = Append(said[c], "pake")
  BY Shapes DEF StartSession, Write
<1>4. InRoom(c) /\ secret[c] >= 4
  BY <1>2, IsInRoom
<1>5. cl'[c] \in CL /\ "pake" \in PeerSays /\ said[c] \in Seq(PeerSays) /\ up[c] \in Seq(UpSays)
  BY <1>2, MessageTypes DEF PeerSays, CL, Waiting
<1>6. CASE c \in Sender
  <2>1. /\ <<>> \in Seq(PeerSays) /\ said'[c] = said[c] \o <<>> /\ up'[c] = up[c] \o <<>>
    BY <1>3, <1>5, <1>6, EmptySeq, ConcatEmptySeq
  <2>2. (InRoom(c))'
    BY <1>2, <1>4, <1>6 DEF InRoom, Silent
  <2>3. (Speech(c))'
    BY <1>2, <1>3, <1>6, SpeechStays DEF Mine
  <2> QED
    BY <1>1, <1>2, <1>4, <1>5, <2>1, <2>2, <2>3, RoomStep
<1>7. CASE c \notin Sender
  <2>1. /\ <<"pake">> \in Seq(PeerSays) /\ said'[c] = said[c] \o <<"pake">>
        /\ up'[c] = up[c] \o <<"pake">> /\ said'[c] # <<>>
    BY <1>3, <1>5, <1>7, Heard
  <2>2. said[c] # <<>>
    BY <1>2, <1>4, <1>7, Shorts DEF InRoom
  <2>3. (InRoom(c))'
    BY <1>2, <1>4, <1>7, <2>1 DEF InRoom, Silent
  <2>4. (Speech(c))'
    BY <1>3, <1>7, <2>2, SpeechPake DEF Mine
  <2> QED
    BY <1>1, <1>2, <1>4, <1>5, <2>1, <2>3, <2>4, RoomStep
<1> QED
  BY <1>6, <1>7

LEMMA HearPakeProper ==
  ASSUME IInv, ClientsTypeOK, NEW c \in Conn, Mine(c), HearPake(c)
  PROVE  Proper(c)
<1>1. Own(c)
  BY ClientIsOwn DEF ClientSide
<1>2. /\ cl[c] = "session" /\ cl'[c] = cl[c]
      /\ down[c] # <<>> /\ Head(down[c]) = "pake" /\ down'[c] = Tail(down[c])
      /\ heard'[c] = Append(heard[c], "pake")
      /\ alive'[c] = alive[c] /\ last'[c] = last[c] /\ pc'[c] = pc[c]
  BY Shapes DEF HearPake, Read, Next1, vars
<1>3. IF c \in Sender THEN up'[c] = up[c] \o <<"pake">> /\ said'[c] = Append(said[c], "pake")
      ELSE up'[c] = up[c] /\ said'[c] = said[c]
  BY Shapes DEF HearPake, Write
<1>4. InRoom(c) /\ secret[c] >= 4
  BY <1>2, IsInRoom
<1>5. /\ cl'[c] \in CL /\ "pake" \in PeerSays /\ Head(down[c]) \in PeerSays
      /\ said[c] \in Seq(PeerSays) /\ up[c] \in Seq(UpSays) /\ heard[c] \in Seq(PeerSays)
  BY <1>2, MessageTypes DEF PeerSays, CL, Waiting
<1>6. heard'[c] # <<>>
  BY <1>2, <1>5, Heard
<1>7. CASE c \notin Sender
  <2>1. /\ <<>> \in Seq(PeerSays) /\ said'[c] = said[c] \o <<>> /\ up'[c] = up[c] \o <<>>
    BY <1>3, <1>5, <1>7, EmptySeq, ConcatEmptySeq
  <2>2. (InRoom(c))'
    BY <1>2, <1>3, <1>4, <1>7 DEF InRoom, Silent
  <2>3. (Speech(c))'
    BY <1>3, <1>6, <1>7, SpeechStays DEF Mine
  <2> QED
    BY <1>1, <1>2, <1>4, <1>5, <2>1, <2>2, <2>3, RoomStep
<1>8. CASE c \in Sender
  <2>1. /\ <<"pake">> \in Seq(PeerSays) /\ said'[c] = said[c] \o <<"pake">>
        /\ up'[c] = up[c] \o <<"pake">> /\ said'[c] # <<>>
    BY <1>3, <1>5, <1>8, Heard
  <2>2. (InRoom(c))'
    BY <1>2, <1>4, <1>6, <1>8 DEF InRoom, Silent
  <2>3. (Speech(c))'
    BY <1>3, <1>6, <1>8, SpeechPake DEF Mine
  <2> QED
    BY <1>1, <1>2, <1>4, <1>5, <2>1, <2>2, <2>3, RoomStep
<1> QED
  BY <1>7, <1>8

\* A client that goes leaves an initial part of what it has written.
LEMMA VanishProper ==
  ASSUME IInv, ClientsTypeOK, NEW c \in Conn, Mine(c), NEW how \in Gone, Own(c),
         Vanish(c, how)
  PROVE  Proper(c)
<1>1. /\ cl'[c] = how /\ alive[c] /\ alive'[c] = FALSE /\ down'[c] = <<>>
      /\ said'[c] = said[c] /\ heard'[c] = heard[c] /\ last'[c] = last[c] /\ pc'[c] = pc[c]
  BY Shapes DEF Vanish, ClientCloses, talk
<1>2. PICK n \in 0..Len(up[c]) : up'[c] = SubSeq(up[c], 1, n)
  BY Shapes DEF Vanish, Lose
<1>3. up[c] \in Seq(UpSays) /\ Len(up[c]) \in Nat
  BY MessageTypes
<1>4. \A T : up[c] \in Seq(T) => up'[c] \in Seq(T)
  <2>1. ASSUME NEW T, up[c] \in Seq(T) PROVE up'[c] \in Seq(T)
    <3>1. \A i \in 1..n : up[c][i] \in T
      BY <1>3, <2>1, ElementOfSeq
    <3> QED
      BY <1>2, <1>3, <2>1, <3>1, SubSeqProperties
  <2> QED
    BY <2>1
<1>5. up[c] = <<>> => up'[c] = <<>>
  <2>1. ASSUME up[c] = <<>> PROVE up'[c] = <<>>
    <3>1. n = 0
      BY <2>1
    <3> QED
      BY <1>2, <1>3, <3>1, SubSeqEmpty
  <2> QED
    BY <2>1
<1>6. Typed(c)
  <2>1. <<>> \in Seq(Says)
    BY EmptySeq
  <2>2. up'[c] \in Seq(UpSays) /\ how \in CL
    BY <1>3, <1>4 DEF Gone, CL
  <2> QED
    BY <1>1, <2>1, <2>2, MessageTypes DEF Typed
<1>7. (Stage(c))'
  <2>1. pc[c] # "off" /\ secret[c] >= 4
    BY <1>1 DEF Mine, Stage, Absent, HasLeft, Knocking, Refused, InRoom, Unplaced
  <2>2. secret'[c] = secret[c]
    BY DEF Own
  <2> QED
    BY <1>1, <2>1, <2>2 DEF Stage, HasLeft
<1>8. (Speech(c))'
  BY <1>1, SpeechStays DEF Mine
<1>9. (Downward(c))'
  <2>1. \A i \in 1..Len(<<>>) : FALSE
    OBVIOUS
  <2> QED
    BY <1>1, <2>1 DEF Mine, Downward
<1>10. (Upward(c))'
  BY <1>1, <1>4, <1>5 DEF Mine, Upward
<1>11. Talks(c)
  BY <1>1 DEF Talks
<1>12. Lasts(c)
  <2>1. cl[c] \notin Gone
    BY <1>1 DEF Mine, Stage, Absent, HasLeft, Knocking, Refused, InRoom, Gone
  <2> QED
    BY <1>1, <2>1 DEF Lasts
<1> QED
  BY <1>6, <1>7, <1>8, <1>9, <1>10, <1>11, <1>12 DEF Proper, Mine

-----------------------------------------------------------------------------
(* The steps of the relay that concern one client.                         *)

LEMMA OwnGoesOn ==
  ASSUME ClientsTypeOK, NEW c \in Conn, Own(c)
  PROVE  GoesOn /\ secret'[c] = secret[c]
BY DEF GoesOn, Own

Consists(w, S) == \A i \in 1..Len(w) : w[i] \in S

LEMMA TwoWords ==
  ASSUME NEW T, NEW x \in T, NEW y \in T
  PROVE  <<x, y>> \in Seq(T) /\ Consists(<<x, y>>, {x, y})
BY DEF Consists

\* The relay answers a client that knocks, or takes what it has written.
LEMMA KnockingAnswered ==
  ASSUME IInv, ClientsTypeOK, NEW c \in Conn, Mine(c), Own(c), Knocking(c), secret[c] >= 4,
         cl'[c] = cl[c], up'[c] = <<>>, down'[c] \in Seq(Says),
         said'[c] = said[c], heard'[c] = heard[c], pc[c] \in Handshaking,
         last'[c] \in {"nothing", "banner"}, pc'[c] \in Unplaced,
         \A i \in 1..Len(down'[c]) :
           /\ down'[c][i] \notin {"room full", "ping"} \cup PeerSays
           /\ down'[c][i] = "bad password" => c \in BadPassword,
         (Knocking(c))'
  PROVE  Proper(c)
<1>1. GoesOn /\ secret'[c] = secret[c]
  BY OwnGoesOn
<1>2. <<>> \in Seq(UpSays) /\ <<>> \in Seq(PeerSays)
  BY EmptySeq
<1>3. heard'[c] = <<>> /\ said'[c] = <<>>
  BY DEF Knocking, Silent
<1>4. Downward(c)'
  BY <1>3 DEF Downward
<1>5. Upward(c)'
  BY <1>3 DEF Upward
<1>6. Speech(c)' /\ Stage(c)'
  BY <1>1, SpeechStays DEF Mine, Stage
<1>7. Typed(c)
  BY <1>2, MessageTypes DEF Typed
<1>8. last[c] \in {"nothing", "banner"}
  BY LastFacts DEF Unplaced
<1>9. Talks(c) /\ Lasts(c)
  BY <1>8 DEF Talks, Lasts
<1> QED
  BY <1>4, <1>5, <1>6, <1>7, <1>9 DEF Proper, Mine

\* What is taken whole leaves nothing.
LEMMA TakenWhole ==
  ASSUME ClientsTypeOK, NEW c \in Conn, NEW u \in Seq(UpSays), up[c] = u, Take(c, u)
  PROVE  up'[c] = <<>>
<1>1. Len(u) \in Nat /\ u \in Seq(UpSays) /\ up \in [Conn -> Seq(UpSays)]
  BY LenProperties DEF ClientsTypeOK, UpSays
<1>2. up'[c] = SubSeq(u, Len(u) + 1, Len(u))
  BY <1>1 DEF Take
<1> QED
  BY <1>1, <1>2, SubSeqEmpty

LEMMA AnswerKeyProper ==
  ASSUME IInv, ClientsTypeOK, NEW c \in Conn, Mine(c), AnswerKey(c)
  PROVE  Proper(c)
<1>1. Own(c)
  BY TaskIsOwn
<1>2. /\ pc[c] = "peek" /\ pc'[c] = "password" /\ alive[c] /\ alive'[c] = alive[c]
      /\ cl'[c] = cl[c] /\ said'[c] = said[c] /\ heard'[c] = heard[c] /\ last'[c] = last[c]
      /\ down'[c] = down[c] \o <<"key">> /\ Take(c, <<"key">>)
  BY Shapes DEF AnswerKey, negotiate_symmetric_key, Goto, Reply, talk
<1>3. secret[c] >= 4 /\ Knocking(c)
  BY <1>2 DEF Mine, Stage, Absent, HasLeft, Refused, InRoom, Gone, Unplaced, Handshaking
<1>4. cl[c] = "key" /\ up[c] = <<"key">> /\ down[c] = <<>>
  BY <1>2, <1>3 DEF Knocking
<1>5. down'[c] = <<"key">>
  BY <1>2, <1>4, Shorts
<1>6. up'[c] = <<>>
  <2>1. <<"key">> \in Seq(UpSays)
    BY DEF UpSays
  <2> QED
    BY <1>2, <1>4, <2>1, TakenWhole
<1>7. (Knocking(c))'
  BY <1>2, <1>3, <1>4, <1>5, <1>6 DEF Knocking, Silent
<1>8. /\ down'[c] \in Seq(Says)
      /\ \A i \in 1..Len(down'[c]) : down'[c][i] \notin {"room full", "ping", "bad password"} \cup PeerSays
  <2>1. "key" \in Says /\ "key" \notin {"room full", "ping", "bad password"} \cup PeerSays
    BY DEF Says, ServerSays, PeerSays
  <2>2. <<"key">> \in Seq(Says) /\ \A i \in 1..Len(<<"key">>) : <<"key">>[i] = "key"
    BY <2>1
  <2> QED
    BY <1>5, <2>1, <2>2
<1>9. last'[c] \in {"nothing", "banner"} /\ pc[c] \in Handshaking /\ pc'[c] \in Unplaced
  BY <1>2, LastFacts DEF Unplaced, Handshaking
<1> QED
  BY <1>1, <1>2, <1>3, <1>6, <1>7, <1>8, <1>9, KnockingAnswered

LEMMA AnswerPasswordProper ==
  ASSUME IInv, ClientsTypeOK, NEW c \in Conn, Mine(c), AnswerPassword(c)
  PROVE  Proper(c)
<1> DEFINE answer == IF c \in BadPassword THEN <<"bad password", "banner">> ELSE <<"banner">>
<1>1. Own(c)
  BY TaskIsOwn
<1>2. /\ pc[c] = "password" /\ pc'[c] = "name" /\ alive[c] /\ alive'[c] = alive[c]
      /\ cl'[c] = cl[c] /\ said'[c] = said[c] /\ heard'[c] = heard[c] /\ last'[c] = "banner"
      /\ Take(c, <<"salt", "password">>)
  BY Shapes DEF AnswerPassword, CheckPassword, Goto, Tell, talk
<1>3. down'[c] = down[c] \o answer
  BY Shapes DEF AnswerPassword, Reply
<1>4. secret[c] >= 4 /\ Knocking(c)
  BY <1>2 DEF Mine, Stage, Absent, HasLeft, Refused, InRoom, Gone, Unplaced, Handshaking
<1>5. up[c] # <<>>
  <2>1. Len(<<"salt", "password">>) = 2 /\ Len(<<>>) = 0
    OBVIOUS
  <2>2. Len(up[c]) >= Len(<<"salt", "password">>)
    BY <1>2 DEF Take
  <2> QED
    BY <2>1, <2>2
<1>6. cl[c] = "banner" /\ up[c] = <<"salt", "password">> /\ down[c] = <<>>
  BY <1>2, <1>4, <1>5 DEF Knocking
<1>7. down'[c] = answer
  <2>1. CASE c \in BadPassword
    BY <1>3, <1>6, <2>1, Shorts
  <2>2. CASE c \notin BadPassword
    BY <1>3, <1>6, <2>2, Shorts
  <2> QED
    BY <2>1, <2>2
<1>8. up'[c] = <<>>
  <2>1. <<"salt", "password">> \in Seq(UpSays)
    BY DEF UpSays
  <2> QED
    BY <1>2, <1>6, <2>1, TakenWhole
<1>9. (Knocking(c))'
  <2>1. cl'[c] = "banner" /\ alive'[c] /\ said'[c] = <<>> /\ heard'[c] = <<>>
    BY <1>2, <1>4, <1>6 DEF Knocking, Silent
  <2> QED
    BY <1>2, <1>7, <1>8, <2>1 DEF Knocking, Silent
<1>10. /\ down'[c] \in Seq(Says)
       /\ \A i \in 1..Len(down'[c]) :
            /\ down'[c][i] \notin {"room full", "ping"} \cup PeerSays
            /\ down'[c][i] = "bad password" => c \in BadPassword
  <2>1. CASE c \in BadPassword
    <3> DEFINE two == <<"bad password", "banner">>
    <3>1. down'[c] = two
      BY <1>7, <2>1
    <3>2. /\ "banner" \in Says /\ "banner" \notin {"room full", "ping"} \cup PeerSays
          /\ "bad password" \in Says /\ "bad password" \notin {"room full", "ping"} \cup PeerSays
      BY DEF Says, ServerSays, PeerSays
    <3>3. two \in Seq(Says) /\ Consists(two, {"bad password", "banner"})
      BY <3>2, TwoWords
    <3> HIDE DEF two
    <3>4. \A i \in 1..Len(two) : two[i] \in {"bad password", "banner"}
      BY <3>3 DEF Consists
    <3> QED
      BY <2>1, <3>1, <3>2, <3>3, <3>4
  <2>2. CASE c \notin BadPassword
    <3>1. down'[c] = <<"banner">>
      BY <1>7, <2>2
    <3>2. "banner" \in Says /\ "banner" \notin {"room full", "ping", "bad password"} \cup PeerSays
      BY DEF Says, ServerSays, PeerSays
    <3>3. /\ <<"banner">> \in Seq(Says)
          /\ \A i \in 1..Len(<<"banner">>) : <<"banner">>[i] = "banner"
      BY <3>2
    <3> QED
      BY <3>1, <3>2, <3>3
  <2> QED
    BY <2>1, <2>2
<1>11. last'[c] \in {"nothing", "banner"} /\ pc[c] \in Handshaking /\ pc'[c] \in Unplaced
  BY <1>2 DEF Unplaced, Handshaking
<1> QED
  BY <1>1, <1>2, <1>4, <1>8, <1>9, <1>10, <1>11, KnockingAnswered

LEMMA TakeRoomNameProper ==
  ASSUME IInv, ClientsTypeOK, NEW c \in Conn, Mine(c), TakeRoomName(c)
  PROVE  Proper(c)
<1>1. Own(c)
  BY TaskIsOwn
<1>2. /\ pc[c] = "name" /\ pc'[c] = "lock_rooms" /\ alive[c] /\ alive'[c] = alive[c]
      /\ cl'[c] = cl[c] /\ said'[c] = said[c] /\ heard'[c] = heard[c] /\ last'[c] = last[c]
      /\ down'[c] = down[c] /\ Take(c, <<"room">>)
  BY Shapes DEF TakeRoomName, ReadRoomName, Goto, talk
<1>3. secret[c] >= 4 /\ Knocking(c)
  BY <1>2 DEF Mine, Stage, Absent, HasLeft, Refused, InRoom, Gone, Unplaced, Handshaking
<1>4. up[c] # <<>>
  <2>1. Len(<<"room">>) = 1 /\ Len(<<>>) = 0
    OBVIOUS
  <2>2. Len(up[c]) >= Len(<<"room">>)
    BY <1>2 DEF Take
  <2> QED
    BY <2>1, <2>2
<1>5. cl[c] = "answer" /\ up[c] = <<"room">> /\ down[c] = <<>> /\ c \notin BadPassword
  BY <1>2, <1>3, <1>4 DEF Knocking
<1>6. up'[c] = <<>>
  <2>1. <<"room">> \in Seq(UpSays)
    BY DEF UpSays
  <2> QED
    BY <1>2, <1>5, <2>1, TakenWhole
<1>7. (Knocking(c))'
  BY <1>2, <1>3, <1>5, <1>6 DEF Knocking, Silent
<1>8. down'[c] \in Seq(Says) /\ \A i \in 1..Len(down'[c]) : FALSE
  <2>1. \A i \in 1..Len(<<>>) : FALSE
    OBVIOUS
  <2> QED
    BY <1>2, <1>5, <2>1, MessageTypes
<1>9. last'[c] \in {"nothing", "banner"} /\ pc[c] \in Handshaking /\ pc'[c] \in Unplaced
  BY <1>2, LastFacts DEF Unplaced, Handshaking
<1> QED
  BY <1>1, <1>2, <1>3, <1>6, <1>7, <1>8, <1>9, KnockingAnswered

\* A client that is told one word.
LEMMA Told ==
  ASSUME ClientsTypeOK, NEW c \in Conn, NEW m \in Says, Reply(c, <<m>>)
  PROVE  Reaches(c, m) /\ down'[c] \in Seq(Says)
<1>1. down \in [Conn -> Seq(Says)] /\ down[c] \in Seq(Says)
  BY DEF ClientsTypeOK, Says
<1>2. Append(down[c], m) = down[c] \o <<m>> /\ Append(down[c], m) \in Seq(Says)
  BY <1>1, Heard, AppendProperties
<1> QED
  BY <1>1, <1>2 DEF Reply, Reaches

LEMMA AnswerRoomProper ==
  ASSUME IInv, ClientsTypeOK, NEW c \in Conn, Mine(c), AnswerRoom(c)
  PROVE  Proper(c)
<1>1. Own(c)
  BY TaskIsOwn
<1>2. /\ pc[c] = "in_rooms" /\ alive'[c] = alive[c]
      /\ up'[c] = up[c] /\ cl'[c] = cl[c] /\ said'[c] = said[c] /\ heard'[c] = heard[c]
  BY Shapes DEF AnswerRoom, CreateRoom, JoinRoom, RefuseFull, AnswerFails, Goto, talk
<1>3. \/ pc'[c] = "find" /\ last'[c] = "ok" /\ Reply(c, <<"ok">>)
      \/ pc'[c] = "done" /\ last'[c] = "room full" /\ Reply(c, <<"room full">>)
      \/ pc'[c] = "done" /\ last'[c] = "closed" /\ ~alive[c] /\ down'[c] = down[c]
  BY Shapes DEF AnswerRoom, CreateRoom, JoinRoom, RefuseFull, AnswerFails, Goto, Tell
<1>4. GoesOn /\ secret'[c] = secret[c]
  BY <1>1, OwnGoesOn
<1>5. up[c] = <<>> /\ last[c] \in {"nothing", "banner"}
  BY <1>2, LastFacts DEF Mine, Upward, Unplaced
<1>6. \/ HasLeft(c)
      \/ /\ secret[c] >= 4 /\ alive[c] /\ Silent(c)
         /\ cl[c] = "answer" /\ down[c] = <<>>
  BY <1>2 DEF Mine, Stage, Absent, Knocking, Refused, InRoom, Unplaced, Handshaking
<1>7. Speech(c)'
  BY <1>2, SpeechStays DEF Mine
<1>8. <<>> \in Seq(PeerSays)
  BY EmptySeq
<1>9. /\ "ok" \in Says /\ "room full" \in Says /\ "ok" \notin PeerSays /\ "room full" \notin PeerSays
  BY DEF Says, ServerSays, PeerSays
<1>10. Talks(c) /\ Lasts(c)
  BY <1>2, <1>5 DEF Talks, Lasts
<1>11. (HasLeft(c) => HasLeft(c)') /\ (alive[c] => said[c] = <<>>)
  BY <1>2, <1>3, <1>4, <1>6 DEF HasLeft, Silent
<1>12. Upward(c)'
  BY <1>2, <1>3, <1>5, <1>8, <1>11 DEF Upward
<1>13. CASE pc'[c] = "find" /\ last'[c] = "ok" /\ Reply(c, <<"ok">>)
  <2>1. Reaches(c, "ok") /\ down'[c] \in Seq(Says)
    BY <1>9, <1>13, Told
  <2>2. Downward(c)'
    BY <1>2, <1>4, <1>5, <1>9, <1>13, <2>1, DownMore DEF Mine
  <2>3. ASSUME ~HasLeft(c) PROVE (InRoom(c))'
    BY <1>2, <1>5, <1>6, <1>13, <2>3 DEF InRoom, Silent, Unplaced, Handshaking
  <2>4. (Stage(c))'
    BY <1>4, <1>6, <1>11, <2>3 DEF Stage
  <2>5. Typed(c)
    BY <1>2, <2>1, MessageTypes DEF Typed
  <2> QED
    BY <1>1, <1>7, <1>10, <1>12, <2>2, <2>4, <2>5 DEF Proper, Mine
<1>14. CASE pc'[c] = "done" /\ last'[c] = "room full" /\ Reply(c, <<"room full">>)
  <2>1. Reaches(c, "room full") /\ down'[c] \in Seq(Says)
    BY <1>9, <1>14, Told
  <2>2. Downward(c)'
    BY <1>2, <1>4, <1>5, <1>9, <1>14, <2>1, DownMore DEF Mine
  <2>3. ASSUME ~HasLeft(c) PROVE (Refused(c))'
    <3>1. down'[c] = <<"room full">>
      <4>1. down'[c] = down[c] \o <<"room full">>
        BY <1>14, Shapes DEF Reply
      <4> QED
        BY <1>6, <2>3, <4>1, Shorts
    <3> QED
      BY <1>2, <1>5, <1>6, <1>14, <2>3, <3>1 DEF Refused, Silent, Unplaced, Handshaking
  <2>4. (Stage(c))'
    BY <1>4, <1>6, <1>11, <2>3 DEF Stage
  <2>5. Typed(c)
    BY <1>2, <2>1, MessageTypes DEF Typed
  <2> QED
    BY <1>1, <1>7, <1>10, <1>12, <2>2, <2>4, <2>5 DEF Proper, Mine
<1>15. CASE pc'[c] = "done" /\ last'[c] = "closed" /\ ~alive[c] /\ down'[c] = down[c]
  <2>1. Downward(c)'
    BY <1>2, <1>4, <1>5, <1>15, DownStays DEF Mine
  <2>2. (Stage(c))'
    BY <1>6, <1>11, <1>15 DEF Stage
  <2>3. Typed(c)
    BY <1>2, <1>15, MessageTypes DEF Typed
  <2> QED
    BY <1>1, <1>7, <1>10, <1>12, <2>1, <2>2, <2>3 DEF Proper, Mine
<1> QED
  BY <1>3, <1>13, <1>14, <1>15

OwnStep(c) ==
  \/ ClientSide(c) \/ Crash(c)
  \/ AnswerKey(c) \/ AnswerPassword(c) \/ TakeRoomName(c) \/ AnswerRoom(c)

LEMMA OwnStepProper ==
  ASSUME IInv, ClientsTypeOK, NEW c \in Conn, Mine(c), OwnStep(c)
  PROVE  Proper(c)
<1>1. CASE RejectSecret(c) \/ SendKey(c) \/ SendPassword(c) \/ SendRoom(c)
  BY <1>1, RejectSecretProper, SendKeyProper, SendPasswordProper, SendRoomProper
<1>2. CASE \/ EnterRoom(c) \/ SkipPing(c) \/ HearHandshake(c) \/ StartSession(c)
           \/ HearPake(c)
  BY <1>2, EnterRoomProper, SkipPingProper, HearHandshakeProper, StartSessionProper,
     HearPakeProper
<1>3. CASE GiveUp(c) \/ PanicOnSecret(c) \/ Crash(c)
  <2>1. Own(c)
    BY <1>3, ClientIsOwn DEF ClientSide
  <2>2. Vanish(c, "failed") \/ Vanish(c, "panicked") \/ Vanish(c, "crashed")
    BY <1>3 DEF GiveUp, PanicOnSecret, Crash
  <2> QED
    BY <2>1, <2>2, VanishProper DEF Gone
<1>4. CASE AnswerKey(c) \/ AnswerPassword(c) \/ TakeRoomName(c) \/ AnswerRoom(c)
  BY <1>4, AnswerKeyProper, AnswerPasswordProper, TakeRoomNameProper, AnswerRoomProper
<1> QED
  BY <1>1, <1>2, <1>3, <1>4 DEF OwnStep, ClientSide

-----------------------------------------------------------------------------
(* Who is put through to whom, and who is not.                             *)

\* Steps that bridge nobody.
LEMMA PairsStay ==
  ASSUME PairsInv, UNCHANGED <<sender, receiver, secret>>,
         \A h \in Conn : pc[h] \in Bridging \cup {"done"} => pc'[h] \in Bridging \cup {"done"},
         \A d \in Conn : last[d] \in {"relayed", "closed"} => last'[d] \in {"relayed", "closed"}
  PROVE  PairsInv' /\ MetLasts
<1>1. MetLasts
  BY DEF MetLasts, Met
<1>2. PairsInv'
  BY DEF PairsInv
<1> QED
  BY <1>1, <1>2

\* A client that waits in a room has a right password and a proper secret.
LEMMA LetIn ==
  ASSUME ClientsIInv, NEW c \in Conn, last[c] \in {"ok", "ping"}
  PROVE  c \notin BadPassword /\ secret[c] >= 4
<1>1. pc[c] \notin Unplaced
  BY LastFacts DEF ClientsIInv
<1>2. Stage(c)
  BY DEF ClientsIInv, TalkInv
<1>3. secret[c] >= 4
  BY <1>1, <1>2 DEF Stage, Absent, HasLeft, Unplaced
<1> QED
  BY <1>3 DEF ClientsIInv, BarredInv

LEMMA PairsNext ==
  ASSUME ClientsIInv, secret' = secret, [Next]_vars
  PROVE  PairsInv' /\ MetLasts
<1>1. /\ IInv /\ RelayedInv /\ PairsInv
      /\ pc \in [Conn -> PC] /\ last \in [Conn -> Sent]
  BY DEF ClientsIInv, IInv, TypeOK
<1>2. ASSUME NEW c \in Conn,
         \/ run_instance(c) \/ ClientCloses(c) \/ AnswerPing(c) \/ ClientStep(c)
         \/ HandshakeFails(c) \/ LockRooms(c) \/ CreateRoom(c) \/ JoinRoom(c)
         \/ RefuseFull(c) \/ AnswerFails(c) \/ FindRoom(c) \/ StartKeepalive(c)
         \/ UnlistRoom(c) \/ KeepaliveFind(c) \/ KeepaliveError(c) \/ KeepaliveStops(c)
      PROVE  PairsInv' /\ MetLasts
  <2>1. /\ pc' = [pc EXCEPT ![c] = pc'[c]]
        /\ last' = [last EXCEPT ![c] = last'[c]]
        /\ last'[c] = last[c] \/ pc[c] \in Unplaced
        /\ UNCHANGED <<sender, receiver>>
    BY <1>1, <1>2, NearbyMoves
  <2>2. pc[c] \in Bridging \cup {"done"} => pc'[c] \in Bridging \cup {"done"}
    <3>1. CASE UnlistRoom(c)
      BY <1>1, <3>1 DEF UnlistRoom, Goto
    <3>2. CASE ClientCloses(c)
      BY <3>2 DEF ClientCloses
    <3>3. CASE ~UnlistRoom(c) /\ ~ClientCloses(c)
      <4>1. pc[c] \notin Bridging \cup {"done"}
        BY <1>2, <3>3 DEF run_instance, AnswerPing, ClientStep, negotiate_symmetric_key,
           CheckPassword, ReadRoomName, HandshakeFails, LockRooms, CreateRoom, JoinRoom,
           RefuseFull, AnswerFails, FindRoom, StartKeepalive, KeepaliveFind,
           KeepaliveError, KeepaliveStops, Goto, Handshaking, Bridging
      <4> QED
        BY <4>1
    <3> QED
      BY <3>1, <3>2, <3>3
  <2>3. pc[c] \in Unplaced => last[c] \in {"nothing", "banner"}
    BY <1>1, LastFacts
  <2>4. \A h \in Conn : pc[h] \in Bridging \cup {"done"} => pc'[h] \in Bridging \cup {"done"}
    BY <1>1, <2>1, <2>2
  <2>5. \A d \in Conn : last[d] \in {"relayed", "closed"} => last'[d] \in {"relayed", "closed"}
    BY <1>1, <2>1, <2>3
  <2> QED
    BY <1>1, <2>1, <2>4, <2>5, PairsStay
<1>3. ASSUME NEW c \in Conn, KeepalivePing(c) PROVE PairsInv' /\ MetLasts
  <2>1. /\ pc' = pc /\ UNCHANGED <<sender, receiver>> /\ room[c] \in Conn
        /\ first[room[c]] # None /\ last' = [last EXCEPT ![first[room[c]]] = "ping"]
    BY <1>1, <1>3 DEF KeepalivePing, Tell, locals, IInv, TypeOK
  <2>2. last[first[room[c]]] \in {"ok", "ping"}
    BY <1>1, <2>1, LastFacts
  <2>3. \A d \in Conn : last[d] \in {"relayed", "closed"} => last'[d] \in {"relayed", "closed"}
    BY <1>1, <2>1, <2>2
  <2> QED
    BY <1>1, <2>1, <2>3, PairsStay
<1>4. ASSUME NEW c \in Conn, pc[c] = "relaying", relay_ends(c) PROVE PairsInv' /\ MetLasts
  <2>1. /\ pc' = [pc EXCEPT ![c] = "unlist"] /\ UNCHANGED <<sender, receiver>>
        /\ \A d \in {sender[c], receiver[c]} : last'[d] = "closed"
        /\ \A d \in Conn \ {sender[c], receiver[c]} : last'[d] = last[d]
    BY <1>1, <1>4, RelayEndMoves
  <2>2. \A h \in Conn : pc[h] \in Bridging \cup {"done"} => pc'[h] \in Bridging \cup {"done"}
    BY <1>1, <2>1 DEF Bridging
  <2>3. \A d \in Conn : last[d] \in {"relayed", "closed"} => last'[d] \in {"relayed", "closed"}
    BY <2>1
  <2> QED
    BY <1>1, <2>1, <2>2, <2>3, PairsStay
<1>5. ASSUME NEW c \in Conn, StartRelay(c) PROVE PairsInv' /\ MetLasts
  <2>1. /\ pc[c] = "lock_room" /\ pc' = [pc EXCEPT ![c] = "relaying"]
        /\ sender'[c] \in Conn /\ receiver'[c] \in Conn /\ sender'[c] # receiver'[c]
        /\ \A d \in {sender'[c], receiver'[c]} : last[d] \in {"ok", "ping"} /\ last'[d] = "relayed"
        /\ \A d \in Conn \ {sender'[c], receiver'[c]} : last'[d] = last[d]
        /\ \A g \in Conn \ {c} : sender'[g] = sender[g] /\ receiver'[g] = receiver[g]
    BY <1>1, <1>5, StartRelayMoves
  <2>2. pc'[c] = "relaying" /\ \A h \in Conn \ {c} : pc'[h] = pc[h]
    BY <1>1, <2>1
  <2>3. sender[c] = None /\ receiver[c] = None
    BY <1>1, <2>1 DEF PairsInv, Bridging
  <2>4. \A d \in {sender'[c], receiver'[c]} : d \notin BadPassword /\ secret'[d] >= 4
    BY <2>1, LetIn
  <2>5. MetLasts
    <3>1. ASSUME NEW x \in Conn, NEW y \in Conn, Met(x, y) PROVE (Met(x, y))'
      <4>1. PICK h \in Conn : {sender[h], receiver[h]} = {x, y}
        BY <3>1 DEF Met
      <4>2. h # c
        BY <2>3, <4>1, NoneAssumption
      <4>3. sender'[h] = sender[h] /\ receiver'[h] = receiver[h]
        BY <2>1, <4>2
      <4> QED
        BY <4>1, <4>3 DEF Met
    <3> QED
      BY <3>1 DEF MetLasts
  <2>6. ASSUME NEW h \in Conn, sender'[h] # None \/ receiver'[h] # None
        PROVE  /\ pc'[h] \in Bridging \cup {"done"}
               /\ sender'[h] \in Conn /\ receiver'[h] \in Conn /\ sender'[h] # receiver'[h]
               /\ \A d \in {sender'[h], receiver'[h]} :
                    /\ last'[d] \in {"relayed", "closed"}
                    /\ d \notin BadPassword /\ secret'[d] >= 4
    <3>1. CASE h = c
      BY <2>1, <2>2, <2>4, <3>1 DEF Bridging
    <3>2. CASE h # c
      <4>1. sender'[h] = sender[h] /\ receiver'[h] = receiver[h] /\ pc'[h] = pc[h]
        BY <2>1, <2>2, <3>2
      <4>2. /\ pc[h] \in Bridging \cup {"done"}
            /\ sender[h] \in Conn /\ receiver[h] \in Conn /\ sender[h] # receiver[h]
            /\ \A d \in {sender[h], receiver[h]} :
                 last[d] \in {"relayed", "closed"} /\ d \notin BadPassword /\ secret[d] >= 4
        BY <1>1, <2>6, <4>1 DEF PairsInv
      <4>3. \A d \in {sender[h], receiver[h]} : last'[d] \in {"relayed", "closed"}
        BY <2>1, <4>2
      <4> QED
        BY <4>1, <4>2, <4>3
    <3> QED
      BY <3>1, <3>2
  <2>7. ASSUME NEW h \in Conn \ {c}, sender[h] # None
        PROVE  {sender[h], receiver[h]} \cap {sender'[c], receiver'[c]} = {}
    <3>1. \A d \in {sender[h], receiver[h]} : last[d] \in {"relayed", "closed"}
      BY <1>1, <2>7 DEF PairsInv
    <3> QED
      BY <2>1, <3>1
  <2>8. ASSUME NEW g \in Conn, NEW h \in Conn, g # h, sender'[g] # None, sender'[h] # None
        PROVE  {sender'[g], receiver'[g]} \cap {sender'[h], receiver'[h]} = {}
    <3>1. CASE g = c
      <4>1. sender'[h] = sender[h] /\ receiver'[h] = receiver[h] /\ h \in Conn \ {c}
        BY <2>1, <2>8, <3>1
      <4> QED
        BY <2>7, <2>8, <3>1, <4>1
    <3>2. CASE h = c
      <4>1. sender'[g] = sender[g] /\ receiver'[g] = receiver[g] /\ g \in Conn \ {c}
        BY <2>1, <2>8, <3>2
      <4> QED
        BY <2>7, <2>8, <3>2, <4>1
    <3>3. CASE g # c /\ h # c
      <4>1. /\ sender'[g] = sender[g] /\ receiver'[g] = receiver[g]
            /\ sender'[h] = sender[h] /\ receiver'[h] = receiver[h]
        BY <2>1, <3>3
      <4> QED
        BY <1>1, <2>8, <4>1 DEF PairsInv
    <3> QED
      BY <3>1, <3>2, <3>3
  <2> QED
    BY <2>5, <2>6, <2>8 DEF PairsInv
<1>6. CASE UNCHANGED vars
  BY <1>1, <1>6, PairsStay DEF vars
<1> QED
  BY <1>2, <1>3, <1>4, <1>5, <1>6 DEF Next, ServerStep, relay_eof, relay_error

\* How the socket of a client changes, from the relay's side.
Grows(c, m) == up'[c] = up[c] \o m
Shrinks(c) ==
  \E n, k \in Nat : k <= Len(up[c]) /\ n >= 1 /\ up'[c] = SubSeq(up[c], n, k)

LEMMA StillNoRoom ==
  ASSUME NEW c \in Conn, up[c] \in Seq(NoRoom),
         \/ up'[c] = up[c] \/ Shrinks(c)
         \/ \E m \in Seq(NoRoom) : Grows(c, m)
  PROVE  up'[c] \in Seq(NoRoom)
<1>1. CASE \E m \in Seq(NoRoom) : Grows(c, m)
  BY <1>1, ConcatProperties DEF Grows
<1>2. CASE Shrinks(c)
  <2>1. PICK n \in Nat, k \in Nat :
          k <= Len(up[c]) /\ n >= 1 /\ up'[c] = SubSeq(up[c], n, k)
    BY <1>2 DEF Shrinks
  <2>2. Len(up[c]) \in Nat /\ \A i \in 1..Len(up[c]) : up[c][i] \in NoRoom
    BY LenProperties, ElementOfSeq
  <2>3. \A i \in n..k : up[c][i] \in NoRoom
    BY <2>1, <2>2
  <2>4. SubSeq(up[c], n, k) \in Seq(NoRoom)
    BY <2>1, <2>3, SubSeqProperties
  <2> QED
    BY <2>1, <2>4
<1> QED
  BY <1>1, <1>2

\* A client with a wrong password, by a step of its own or of its task: it reads
\* the refusal before the banner and does not get to name a room.
LEMMA BarredOwn ==
  ASSUME IInv, ClientsTypeOK, BarredInv, NEW c \in BadPassword, c \in Conn, Mine(c), OwnStep(c)
  PROVE  /\ pc'[c] \in {"off", "done"} \cup Handshaking
         /\ last'[c] \notin {"ok", "ping", "relayed"}
         /\ up'[c] \in Seq(NoRoom)
<1>1. /\ pc[c] \in {"off", "done"} \cup Handshaking
      /\ last[c] \notin {"ok", "ping", "relayed"}
      /\ up[c] \in Seq(NoRoom)
  BY DEF BarredInv
<1>2. Len(up[c]) \in Nat
  BY MessageTypes
<1>w. /\ <<"key">> \in Seq(NoRoom) /\ <<"salt", "password">> \in Seq(NoRoom)
      /\ <<"handshake">> \in Seq(NoRoom) /\ <<"pake">> \in Seq(NoRoom)
  BY DEF NoRoom, PeerSays
<1>3. CASE SendKey(c) \/ SendPassword(c) \/ EnterRoom(c) \/ StartSession(c) \/ HearPake(c)
  <2>1. pc'[c] \in {pc[c], "peek"} /\ last'[c] = last[c]
    BY <1>3, Shapes DEF SendKey, SendPassword, EnterRoom, StartSession, HearPake,
       run_instance, Goto, vars
  <2>2. up'[c] = up[c] \/ \E m \in Seq(NoRoom) : Grows(c, m)
    <3>1. CASE SendKey(c) \/ SendPassword(c)
      BY <1>w, <3>1, Shapes DEF SendKey, SendPassword, Write, Grows
    <3>2. CASE EnterRoom(c) \/ StartSession(c) \/ HearPake(c)
      BY <1>w, <3>2, Shapes DEF EnterRoom, StartSession, HearPake, Write, Grows
    <3> QED
      BY <1>3, <3>1, <3>2
  <2> QED
    BY <1>1, <2>1, <2>2, StillNoRoom DEF Handshaking
<1>4. CASE RejectSecret(c) \/ SkipPing(c) \/ HearHandshake(c)
  BY <1>1, <1>4 DEF RejectSecret, SkipPing, HearHandshake, vars
<1>5. CASE SendRoom(c)
  <2>1. /\ cl[c] = "banner" /\ down[c] # <<>> /\ Head(down[c]) = "banner"
    BY <1>5 DEF SendRoom, Step, Next1
  <2>2. Knocking(c)
    BY <2>1 DEF Mine, Stage, Absent, HasLeft, Refused, InRoom, Gone
  <2>3. down[c] \in {<<>>, <<"bad password", "banner">>}
    BY <2>1, <2>2 DEF Knocking
  <2>4. Head(down[c]) = "bad password"
    BY <2>1, <2>3, Shorts
  <2> QED
    BY <2>1, <2>4
<1>6. CASE GiveUp(c) \/ PanicOnSecret(c) \/ Crash(c)
  <2>1. pc' = pc /\ last' = last /\ Lose(c)
    <3>1. \E how \in Gone : Vanish(c, how)
      BY <1>6 DEF GiveUp, PanicOnSecret, Crash, Gone
    <3> QED
      BY <3>1 DEF Vanish, ClientCloses
  <2>2. PICK n \in 0..Len(up[c]) : up'[c] = SubSeq(up[c], 1, n)
    BY <2>1, Shapes DEF Lose
  <2>3. n \in Nat /\ 1 \in Nat /\ n <= Len(up[c]) /\ 1 >= 1
    BY <1>2, <2>2
  <2>4. Shrinks(c)
    BY <2>2, <2>3, Zenon DEF Shrinks
  <2> QED
    BY <1>1, <2>1, <2>4, StillNoRoom
<1>7. CASE AnswerKey(c) \/ AnswerPassword(c)
  <2>1. pc'[c] \in Handshaking /\ last'[c] \in {last[c], "banner"}
    BY <1>7, Shapes DEF AnswerKey, AnswerPassword, negotiate_symmetric_key, CheckPassword,
       Goto, Tell, Handshaking
  <2>2. PICK m \in {<<"key">>, <<"salt", "password">>} : Take(c, m)
    BY <1>7 DEF AnswerKey, AnswerPassword
  <2>3. Len(m) \in Nat /\ up'[c] = SubSeq(up[c], Len(m) + 1, Len(up[c]))
    <3>1. m \in Seq(NoRoom)
      BY <1>w
    <3>2. up' = [up EXCEPT ![c] = SubSeq(@, Len(m) + 1, Len(@))]
      BY <2>2 DEF Take
    <3> QED
      BY <3>1, <3>2, Shapes, LenProperties
  <2>4. /\ Len(m) + 1 \in Nat /\ Len(m) + 1 >= 1 /\ Len(up[c]) \in Nat
        /\ Len(up[c]) <= Len(up[c])
    BY <1>2, <2>3
  <2>5. Shrinks(c)
    BY <2>3, <2>4, Zenon DEF Shrinks
  <2> QED
    BY <1>1, <2>1, <2>5, StillNoRoom
<1>8. CASE TakeRoomName(c)
  <2>1. pc[c] = "name" /\ alive[c] /\ Take(c, <<"room">>)
    BY <1>8 DEF TakeRoomName, ReadRoomName, Goto
  <2>2. Knocking(c)
    BY <2>1 DEF Mine, Stage, Absent, HasLeft, Refused, InRoom, Unplaced, Handshaking
  <2>3. up[c] = <<>>
    BY <2>1, <2>2 DEF Knocking
  <2>4. Len(up[c]) = 0 /\ Len(<<"room">>) = 1
    BY <2>3
  <2> QED
    BY <2>1, <2>4 DEF Take
<1>9. CASE AnswerRoom(c)
  BY <1>1, <1>9 DEF AnswerRoom, CreateRoom, JoinRoom, RefuseFull, AnswerFails, Goto, Handshaking
<1> QED
  BY <1>3, <1>4, <1>5, <1>6, <1>7, <1>8, <1>9 DEF OwnStep, ClientSide

LEMMA BarredNext == ClientsIInv /\ [ClientsNext]_allVars => BarredInv'
<1> SUFFICES ASSUME ClientsIInv, [ClientsNext]_allVars, NEW b \in BadPassword
             PROVE  /\ pc'[b] \in {"off", "done"} \cup Handshaking
                    /\ last'[b] \notin {"ok", "ping", "relayed"}
                    /\ up'[b] \in Seq(NoRoom)
  BY DEF BarredInv
<1>1. /\ IInv /\ ClientsTypeOK /\ TalkInv /\ RelayedInv /\ BarredInv /\ b \in Conn /\ Mine(b)
      /\ pc \in [Conn -> PC] /\ last \in [Conn -> Sent]
  BY ClientsAssumption, Shapes DEF ClientsIInv, TalkInv, Mine
<1>2. /\ pc[b] \in {"off", "done"} \cup Handshaking
      /\ last[b] \notin {"ok", "ping", "relayed"}
      /\ up[b] \in Seq(NoRoom)
  BY <1>1 DEF BarredInv
<1>3. ASSUME NEW c \in Conn, OwnStep(c)
      PROVE  /\ pc'[b] \in {"off", "done"} \cup Handshaking
             /\ last'[b] \notin {"ok", "ping", "relayed"}
             /\ up'[b] \in Seq(NoRoom)
  <2>1. CASE c = b
    BY <1>1, <1>3, <2>1, BarredOwn
  <2>2. CASE c # b
    <3>1. Own(c)
      BY <1>1, <1>3, ClientIsOwn, TaskIsOwn DEF OwnStep
    <3>2. Untouched(b)
      BY <1>1, <2>2, <3>1, OwnUntouched
    <3> QED
      BY <1>2, <3>2 DEF Untouched
  <2> QED
    BY <2>1, <2>2
<1>4. ASSUME NEW c \in Conn, Inside(c)
      PROVE  /\ pc'[b] \in {"off", "done"} \cup Handshaking
             /\ last'[b] \notin {"ok", "ping", "relayed"}
             /\ up'[b] \in Seq(NoRoom)
  <2>1. up' = up
    BY <1>4 DEF Inside, clients
  <2>2. CASE StartRelay(c)
    <3>1. /\ pc[c] = "lock_room" /\ pc' = [pc EXCEPT ![c] = "relaying"]
          /\ \A d \in {sender'[c], receiver'[c]} : last[d] \in {"ok", "ping"}
          /\ \A d \in Conn \ {sender'[c], receiver'[c]} : last'[d] = last[d]
      BY <1>1, <2>2, StartRelayMoves
    <3>2. b # c /\ last'[b] = last[b]
      BY <1>1, <1>2, <3>1 DEF Handshaking
    <3> QED
      BY <1>1, <1>2, <2>1, <3>1, <3>2
  <2>3. CASE HandshakeFails(c)
    BY <1>1, <1>2, <2>1, <2>3 DEF HandshakeFails, Tell
  <2>4. CASE ~StartRelay(c) /\ ~HandshakeFails(c)
    <3>1. /\ last' = last /\ pc[c] \notin {"off", "done"} \cup Handshaking
          /\ \E to \in PC : pc' = [pc EXCEPT ![c] = to]
      BY <1>1, <1>4, <2>4 DEF Inside, LockRooms, FindRoom, StartKeepalive, UnlistRoom,
         KeepaliveFind, KeepaliveError, KeepaliveStops, Goto, Handshaking, PC, Unplaced
    <3> QED
      BY <1>1, <1>2, <2>1, <3>1
  <2> QED
    BY <2>2, <2>3, <2>4
<1>5. ASSUME NEW c \in Conn, Ping(c)
      PROVE  /\ pc'[b] \in {"off", "done"} \cup Handshaking
             /\ last'[b] \notin {"ok", "ping", "relayed"}
             /\ up'[b] \in Seq(NoRoom)
  <2>1. /\ pc' = pc /\ up' = up /\ room[c] \in Conn /\ first[room[c]] # None
        /\ last' = [last EXCEPT ![first[room[c]]] = "ping"]
    BY <1>1, <1>5 DEF Ping, KeepalivePing, Tell, IInv, TypeOK
  <2>2. last[first[room[c]]] \in {"ok", "ping"}
    BY <1>1, <2>1, LastFacts
  <2> QED
    BY <1>1, <1>2, <2>1, <2>2
<1>6. ASSUME NEW c \in Conn, bridge_sockets(c)
      PROVE  /\ pc'[b] \in {"off", "done"} \cup Handshaking
             /\ last'[b] \notin {"ok", "ping", "relayed"}
             /\ up'[b] \in Seq(NoRoom)
  <2>1. pc' = pc /\ last' = last /\ pc[c] = "relaying"
    <3>1. pc[c] = "relaying" /\ UNCHANGED vars
      BY <1>6 DEF bridge_sockets
    <3> QED
      BY <3>1 DEF vars
  <2>2. last[sender[c]] = "relayed" /\ last[receiver[c]] = "relayed"
    BY <1>1, <2>1 DEF RelayedInv
  <2>3. PICK a \in {sender[c], receiver[c]} : up' = [up EXCEPT ![a] = Tail(@)]
    <3>1. PICK e \in {<<sender[c], receiver[c]>>, <<receiver[c], sender[c]>>} :
            up' = [up EXCEPT ![e[1]] = Tail(@)]
      BY <1>6 DEF bridge_sockets
    <3>2. e[1] \in {sender[c], receiver[c]}
      OBVIOUS
    <3> QED
      BY <3>1, <3>2
  <2>4. up'[b] = up[b]
    BY <1>1, <1>2, <2>2, <2>3, Shapes
  <2> QED
    BY <1>2, <2>1, <2>4
<1>7. ASSUME NEW c \in Conn, EndOfStreams(c) \/ BridgeBreaks(c)
      PROVE  /\ pc'[b] \in {"off", "done"} \cup Handshaking
             /\ last'[b] \notin {"ok", "ping", "relayed"}
             /\ up'[b] \in Seq(NoRoom)
  <2>1. pc[c] = "relaying" /\ relay_ends(c)
    BY <1>7 DEF EndOfStreams, BridgeBreaks, relay_eof, relay_error
  <2>2. /\ pc' = [pc EXCEPT ![c] = "unlist"]
        /\ \A d \in {sender[c], receiver[c]} : last[d] = "relayed"
        /\ \A d \in Conn \ {sender[c], receiver[c]} : last'[d] = last[d]
    BY <1>1, <2>1, RelayEndMoves
  <2>3. b \notin {sender[c], receiver[c]} /\ b # c
    BY <1>2, <2>1, <2>2 DEF Handshaking
  <2>4. up' = up \/ \E e \in {sender[c], receiver[c]} : up' = [up EXCEPT ![e] = <<>>]
    BY <1>7 DEF EndOfStreams, BridgeBreaks, clients
  <2>5. up'[b] = up[b]
    BY <1>1, <2>3, <2>4, Shapes
  <2> QED
    BY <1>1, <1>2, <2>2, <2>3, <2>5
<1>8. CASE UNCHANGED allVars
  BY <1>2, <1>8 DEF allVars, vars, clients
<1> QED
  BY <1>3, <1>4, <1>5, <1>6, <1>7, <1>8 DEF ClientsNext, RelaySide, OwnStep

-----------------------------------------------------------------------------
(* Why a client fails.                                                     *)

\* A client that is bridged has gone, and knows why, or is in its room.
LEMMA BridgedStage ==
  ASSUME IInv, TalkInv, NEW d \in Conn, last[d] = "relayed"
  PROVE  /\ pc[d] \notin Unplaced
         /\ ~alive[d] => HasLeft(d)
         /\ alive[d] => InRoom(d) /\ secret[d] >= 4
<1>1. pc[d] \notin Unplaced
  BY LastFacts
<1> QED
  BY <1>1 DEF TalkInv, Stage, Absent, Knocking, Refused, InRoom, HasLeft, Unplaced, Handshaking

\* Both ends of a bridge, and the only ones that either is put through to.
LEMMA Ends ==
  ASSUME PairsInv, NEW c \in Conn, NEW d \in Conn, Met(c, d)
  PROVE  /\ c # d /\ last[d] \in {"relayed", "closed"}
         /\ d \notin BadPassword /\ secret[d] >= 4
         /\ \A e \in Conn : Met(d, e) => e = c
<1>1. PICK h \in Conn : {sender[h], receiver[h]} = {c, d}
  BY DEF Met
<1>2. /\ sender[h] # None /\ receiver[h] # None /\ sender[h] # receiver[h]
      /\ \A x \in {c, d} : last[x] \in {"relayed", "closed"} /\ x \notin BadPassword
                           /\ secret[x] >= 4
  BY <1>1, RoomNameAssumption, NoneAssumption DEF PairsInv
<1>3. c # d
  BY <1>1, <1>2
<1>4. ASSUME NEW e \in Conn, Met(d, e) PROVE e = c
  <2>1. PICK g \in Conn : {sender[g], receiver[g]} = {d, e}
    BY <1>4 DEF Met
  <2>2. sender[g] # None
    BY <2>1, NoneAssumption
  <2>3. g = h
    BY <1>1, <1>2, <2>1, <2>2 DEF PairsInv
  <2>4. {d, e} = {c, d}
    BY <1>1, <2>1, <2>3
  <2> QED
    BY <1>3, <2>4
<1> QED
  BY <1>2, <1>3, <1>4

\* A client that has gone while it was bridged is to blame for the end of it:
\* nobody but the client it leaves could have made it fail.
LEMMA DeadPeer ==
  ASSUME ClientsIInv, NEW c \in Conn, NEW d \in Conn, Met(c, d), alive[c], ~alive[d],
         last[c] = "relayed", last[d] = "relayed"
  PROVE  PeerGone(c)
<1>1. IInv /\ TalkInv /\ PairsInv /\ FailureHasACause
  BY DEF ClientsIInv
<1>2. HasLeft(d) /\ InRoom(c)
  BY <1>1, BridgedStage
<1>3. CASE cl[d] \in {"crashed", "panicked"}
  BY <1>3 DEF PeerGone, Culprit
<1>4. CASE cl[d] = "failed"
  <2>1. Cause(d)
    BY <1>1, <1>4, FailureIsCaused
  <2>2. d \notin BadPassword /\ ~(secret[d] < 4) /\ last[d] # "room full"
    <3>1. secret[d] \in Nat
      BY MessageTypes DEF ClientsIInv
    <3> QED
      BY <1>1, <3>1, Ends
  <2>3. CASE d \in pinged \ Sender
    BY <1>4, <2>3 DEF PeerGone, Culprit
  <2>4. CASE PeerGone(d)
    <3>1. PICK e \in Conn : Met(d, e) /\ Culprit(d, e)
      BY <2>4 DEF PeerGone
    <3>2. e = c
      BY <1>1, <3>1, Ends
    <3>3. cl[c] \notin Gone
      BY <1>2 DEF InRoom, Gone
    <3>4. {c, d} \cap Sender = {}
      BY <3>1, <3>2, <3>3 DEF Culprit, Gone
    <3> QED
      BY <3>4 DEF PeerGone, Culprit
  <2> QED
    BY <2>1, <2>2, <2>3, <2>4 DEF Cause
<1> QED
  BY <1>2, <1>3, <1>4 DEF HasLeft, Gone

\* A client that has been bridged has a peer, or its peer is gone.
LEMMA HasPeer ==
  ASSUME ClientsIInv, NEW c \in Conn, alive[c], last[c] \in {"relayed", "closed"}, ~PeerGone(c)
  PROVE  \E d \in Conn : Met(c, d) /\ alive[d] /\ Carried(c, d) /\ Carried(d, c)
<1>1. last[c] = "relayed"
  BY DEF ClientsIInv, EndInv
<1>2. PICK h \in Conn : pc[h] = "relaying" /\ c \in {sender[h], receiver[h]}
  BY <1>1 DEF ClientsIInv, RelayedInv
<1>3. /\ sender[h] \in Conn /\ receiver[h] \in Conn /\ sender[h] # receiver[h]
      /\ RoomName[sender[h]] = RoomName[receiver[h]]
      /\ last[sender[h]] = "relayed" /\ last[receiver[h]] = "relayed"
  BY <1>2, RelayPair DEF ClientsIInv, RelayedInv
<1>4. PICK d \in Conn \ {c} : {c, d} = {sender[h], receiver[h]}
  <2>1. CASE c = sender[h]
    BY <1>3, <2>1
  <2>2. CASE c = receiver[h]
    BY <1>3, <2>2
  <2> QED
    BY <1>2, <2>1, <2>2
<1>5. Met(c, d) /\ last[d] = "relayed"
  BY <1>2, <1>3, <1>4 DEF Met
<1>6. alive[d]
  BY <1>1, <1>5, DeadPeer
<1>7. Carried(sender[h], receiver[h]) /\ Carried(receiver[h], sender[h])
  <2>1. alive[sender[h]] /\ alive[receiver[h]]
    BY <1>4, <1>6
  <2> DEFINE e == <<sender[h], receiver[h]>>
             f == <<receiver[h], sender[h]>>
  <2>2. \A g \in {e, f} : alive[g[1]] /\ alive[g[2]] => Carried(g[1], g[2])
    BY <1>2 DEF ClientsIInv, CarryInv
  <2>3. e[1] = sender[h] /\ e[2] = receiver[h] /\ f[1] = receiver[h] /\ f[2] = sender[h]
    OBVIOUS
  <2> QED
    BY <2>1, <2>2, <2>3
<1>8. Carried(c, d) /\ Carried(d, c)
  <2>1. CASE c = sender[h]
    BY <1>3, <1>4, <1>7, <2>1
  <2>2. CASE c = receiver[h]
    BY <1>3, <1>4, <1>7, <2>2
  <2> QED
    BY <1>2, <2>1, <2>2
<1> QED
  BY <1>5, <1>6, <1>8

\* What a word that is to be heard says about the peer that has said it.
LEMMA NextWord ==
  ASSUME ClientsTypeOK, TalkInv, NEW c \in Conn, NEW d \in Conn, Carried(d, c), Carried(c, d),
         down[c] # <<>>, Head(down[c]) \in PeerSays
  PROVE  /\ said[d] # <<>>
         /\ Head(down[c]) = "handshake" => d \notin Sender /\ heard[c] = <<>>
         /\ heard[c] = <<>> /\ said[c] = <<>> => Head(down[c]) = "handshake"
<1>1. /\ up[c] \in Seq(AllSays) /\ down[c] \in Seq(AllSays) /\ heard[c] \in Seq(AllSays)
      /\ up[d] \in Seq(AllSays) /\ down[d] \in Seq(AllSays) /\ heard[d] \in Seq(AllSays)
  BY PairTypes
<1>2. Carry(said[d], heard[c], down[c], up[d]) /\ Carry(said[c], heard[d], down[d], up[c])
  BY CarriedIsCarry
<1>3. /\ Len(said[d]) \in Nat /\ Len(heard[c]) \in Nat
      /\ Len(heard[c]) + 1 <= Len(said[d])
      /\ said[d][Len(heard[c]) + 1] = Head(down[c])
  BY <1>1, <1>2, CarryWords DEF Begins
<1>4. PICK n \in 1..Len(said[d]) : n = Len(heard[c]) + 1 /\ said[d][n] = Head(down[c])
  <2>1. \A l, k \in Nat : k + 1 <= l => k + 1 \in 1..l
    OBVIOUS
  <2>2. Len(heard[c]) + 1 \in 1..Len(said[d])
    BY <1>3, <2>1
  <2> QED
    BY <1>3, <2>2
<1>5. Speech(d)
  BY DEF TalkInv
<1>6. said[d] # <<>>
  BY <1>3, EmptySeq
<1>7. ASSUME Head(down[c]) = "handshake" PROVE d \notin Sender /\ heard[c] = <<>>
  <2>1. d \notin Sender /\ n = 1
    BY <1>4, <1>5, <1>7 DEF Speech
  <2>2. Len(heard[c]) = 0
    BY <1>3, <1>4, <2>1
  <2> QED
    BY <1>1, <2>1, <2>2, EmptySeq
<1>8. ASSUME heard[c] = <<>>, said[c] = <<>> PROVE Head(down[c]) = "handshake"
  <2>1. Len(heard[c]) = 0 /\ Len(said[c]) = 0
    BY <1>8
  <2>2. n = 1
    BY <1>4, <2>1
  <2>3. heard[d] = <<>>
    <3>1. Len(heard[d]) \in Nat /\ Len(heard[d]) <= Len(said[c])
      BY <1>1, <1>2, CarryWords DEF Begins
    <3>2. Len(heard[d]) = 0
      BY <2>1, <3>1
    <3> QED
      BY <1>1, <3>2, EmptySeq
  <2>4. d \notin Sender
    BY <1>5, <1>6, <2>3 DEF Speech
  <2> QED
    BY <1>4, <1>5, <2>2, <2>4 DEF Speech
<1> QED
  BY <1>6, <1>7, <1>8

\* What is at the head of what comes down.
LEMMA DownHead ==
  ASSUME ClientsTypeOK, NEW c \in Conn, Downward(c), down[c] # <<>>
  PROVE  /\ Head(down[c]) = "bad password" => c \in BadPassword
         /\ Head(down[c]) = "room full" => last[c] = "room full"
         /\ Head(down[c]) = "ping" => c \in pinged /\ heard[c] = <<>>
         /\ Head(down[c]) \in PeerSays => last[c] \in {"relayed", "closed"}
<1>1. 1 \in 1..Len(down[c]) /\ Head(down[c]) = down[c][1]
  BY MessageTypes, EmptySeq
<1>2. "ping" \notin PeerSays
  BY DEF PeerSays
<1> QED
  BY <1>1, <1>2 DEF Downward

\* Whoever gives up has a cause.
LEMMA GiveUpCaused ==
  ASSUME ClientsIInv, NEW c \in Conn, GiveUp(c)
  PROVE  Cause(c)
<1>1. /\ ClientsTypeOK /\ TalkInv /\ Mine(c) /\ IInv
  BY DEF ClientsIInv, TalkInv, Mine
<1>2. alive[c] /\ Unexpected(c)
  BY DEF GiveUp, Vanish, ClientCloses
<1>3. PeerGone(c) => Cause(c)
  BY DEF Cause
<1>4. CASE cl[c] = "banner" /\ Next1(c, "bad password")
  BY <1>1, <1>4, DownHead DEF Next1, Cause, Mine
<1>5. CASE cl[c] = "answer" /\ Next1(c, "room full")
  BY <1>1, <1>5, DownHead DEF Next1, Cause, Mine
<1>6. CASE cl[c] = "session" /\ Next1(c, "ping")
  <2>1. c \in pinged /\ heard[c] = <<>>
    BY <1>1, <1>6, DownHead DEF Next1, Mine
  <2>2. c \notin Sender
    BY <1>1, <1>6, <2>1, IsInRoom DEF InRoom
  <2> QED
    BY <2>1, <2>2 DEF Cause
<1>7. CASE cl[c] \in {"session", "keepalive"} /\ down[c] # <<>> /\ Head(down[c]) \in PeerSays
           /\ (cl[c] = "session" <=> Head(down[c]) = "handshake")
  <2>1. last[c] \in {"relayed", "closed"}
    BY <1>1, <1>7, DownHead DEF Mine
  <2>2. InRoom(c)
    BY <1>1, <1>7, IsInRoom
  <2>3. ASSUME ~PeerGone(c) PROVE Cause(c)
    <3>1. PICK d \in Conn : Met(c, d) /\ alive[d] /\ Carried(c, d) /\ Carried(d, c)
      BY <1>2, <2>1, <2>3, HasPeer
    <3>2. /\ said[d] # <<>>
          /\ Head(down[c]) = "handshake" => d \notin Sender /\ heard[c] = <<>>
          /\ heard[c] = <<>> /\ said[c] = <<>> => Head(down[c]) = "handshake"
      BY <1>1, <1>7, <3>1, NextWord
    <3>3. cl[c] = "session"
      BY <1>7, <2>2, <3>2 DEF InRoom, Silent
    <3>4. d \notin Sender /\ c \notin Sender
      BY <1>7, <2>2, <3>2, <3>3 DEF InRoom
    <3> QED
      BY <3>1, <3>4 DEF Cause, PeerGone, Culprit
  <2> QED
    BY <1>3, <2>3
<1>8. CASE cl[c] \in Waiting /\ down[c] = <<>> /\ last[c] = "closed"
  BY <1>2, <1>3, <1>8 DEF ClientsIInv, EndInv
<1> QED
  BY <1>2, <1>4, <1>5, <1>6, <1>7, <1>8 DEF Unexpected, Next1, PeerSays

\* The whole of the inductive invariant, after a step of one client.
LEMMA OwnStepNext ==
  ASSUME ClientsIInv, IInv', RelayedInv', PairsInv', BarredInv', MetLasts,
         NEW c \in Conn, OwnStep(c)
  PROVE  ClientsIInv'
<1>1. /\ IInv /\ ClientsTypeOK /\ TalkInv /\ RelayedInv /\ EndInv /\ CarryInv
      /\ FailureHasACause /\ Mine(c)
  BY DEF ClientsIInv, TalkInv, Mine
<1>2. Own(c) /\ Typed(c) /\ Mine(c)' /\ Talks(c) /\ Lasts(c)
  BY <1>1, OwnStepProper DEF Proper
<1>3. ClientsTypeOK' /\ TalkInv' /\ CarryInv' /\ AllLast
  BY <1>1, <1>2, OwnTypes, OwnTalk, OwnCarry, OwnLasts
<1>4. \A d \in Conn \ {c} : Untouched(d)
  BY <1>1, <1>2, OwnUntouched
<1>5. alive'[c] /\ last'[c] = "closed" => alive[c] /\ last[c] = "closed"
  <2>1. CASE SendKey(c)
    <3>1. pc[c] = "off" /\ last' = last
      BY <2>1 DEF SendKey, run_instance, Goto
    <3> QED
      BY <1>1, <3>1, LastFacts DEF Unplaced
  <2>2. CASE AnswerPassword(c)
    BY <1>1, <2>2, Shapes DEF AnswerPassword, CheckPassword, Tell
  <2>3. CASE AnswerRoom(c)
    BY <1>1, <2>3, Shapes DEF AnswerRoom, CreateRoom, JoinRoom, RefuseFull, AnswerFails, Tell
  <2>4. CASE AnswerKey(c) \/ TakeRoomName(c)
    BY <2>4 DEF AnswerKey, negotiate_symmetric_key, TakeRoomName, ReadRoomName
  <2>5. CASE \/ RejectSecret(c) \/ SendPassword(c) \/ SendRoom(c) \/ EnterRoom(c)
             \/ SkipPing(c) \/ HearHandshake(c) \/ StartSession(c) \/ HearPake(c)
    BY <2>5 DEF RejectSecret, SendPassword, SendRoom, EnterRoom, SkipPing, HearHandshake,
       StartSession, HearPake, vars
  <2>6. CASE GiveUp(c) \/ PanicOnSecret(c) \/ Crash(c)
    BY <1>1, <2>6, Shapes DEF GiveUp, PanicOnSecret, Crash, Vanish, ClientCloses
  <2> QED
    BY <2>1, <2>2, <2>3, <2>4, <2>5, <2>6 DEF OwnStep, ClientSide
<1>6. EndInv'
  <2>1. \A d \in Conn : alive'[d] /\ last'[d] = "closed" => alive[d] /\ last[d] = "closed"
    BY <1>4, <1>5 DEF Untouched
  <2> QED
    BY <1>1, <1>3, <2>1, NobodyCloses
<1>7. cl'[c] = "failed" /\ cl[c] # "failed" => Cause(c)
  <2>1. CASE GiveUp(c)
    BY <2>1, GiveUpCaused
  <2>2. CASE RejectSecret(c)
    BY <2>2 DEF RejectSecret, Cause
  <2>3. CASE ~GiveUp(c) /\ ~RejectSecret(c)
    <3>1. CASE SendKey(c) \/ SendPassword(c) \/ SendRoom(c) \/ EnterRoom(c) \/ HearHandshake(c)
               \/ StartSession(c)
      BY <1>1, <3>1, Shapes DEF SendKey, SendPassword, SendRoom, EnterRoom, HearHandshake,
         StartSession, Step
    <3>2. CASE \/ SkipPing(c) \/ HearPake(c) \/ AnswerKey(c) \/ AnswerPassword(c)
               \/ TakeRoomName(c) \/ AnswerRoom(c)
      BY <3>2 DEF SkipPing, HearPake, AnswerKey, AnswerPassword, TakeRoomName, AnswerRoom
    <3>3. CASE PanicOnSecret(c) \/ Crash(c)
      BY <1>1, <3>3, Shapes DEF PanicOnSecret, Crash, Vanish
    <3> QED
      BY <2>3, <3>1, <3>2, <3>3 DEF OwnStep, ClientSide
  <2> QED
    BY <2>1, <2>2, <2>3
<1>9. FailureHasACause'
  <2>1. ASSUME NEW d \in Conn PROVE cl'[d] = "failed" => (Cause(d))'
    <3>1. cl[d] = "failed" => Cause(d)
      BY <1>1, FailureIsCaused
    <3>2. Cause(d) => (Cause(d))'
      BY <1>1, <1>3, CausesLast
    <3>3. d # c => cl'[d] = cl[d]
      BY <1>4 DEF Untouched
    <3> QED
      BY <1>7, <3>1, <3>2, <3>3
  <2> QED
    BY <2>1, FailureIsCaused
<1> QED
  BY <1>3, <1>6, <1>9 DEF ClientsIInv

-----------------------------------------------------------------------------
(* The steps of the relay inside, and those of a bridge.                   *)

LEMMA EveryoneMoves ==
  ASSUME IInv, ClientsTypeOK, TalkInv, GoesOn, \A d \in Conn : TaskMoves(d)
  PROVE  TalkInv'
<1>1. ASSUME NEW d \in Conn PROVE Mine(d)'
  BY LastFacts, TaskMovesMine DEF TalkInv, Mine
<1> QED
  BY <1>1 DEF TalkInv, Mine

\* What nobody has said or heard anything by.
LEMMA SameWords ==
  ASSUME ClientsTypeOK, UNCHANGED clients
  PROVE  /\ ClientsTypeOK' /\ GoesOn
         /\ \A e, f \in Conn : Carried(e, f) => (Carried(e, f))'
<1>1. /\ secret' = secret /\ cl' = cl /\ up' = up /\ down' = down /\ said' = said
      /\ heard' = heard /\ pings' = pings /\ pinged' = pinged
  BY DEF clients, talk
<1>2. ClientsTypeOK' /\ GoesOn
  BY <1>1, ClientsAssumption DEF ClientsTypeOK, GoesOn
<1> QED
  BY <1>1, <1>2 DEF Carried

\* Steps inside the relay other than the start of a bridge.
LEMMA InsideMoves ==
  ASSUME IInv, NEW c \in Conn,
         \/ LockRooms(c) \/ FindRoom(c) \/ StartKeepalive(c)
         \/ UnlistRoom(c) \/ KeepaliveFind(c) \/ KeepaliveError(c)
         \/ KeepaliveStops(c) \/ HandshakeFails(c)
  PROVE  /\ alive' = alive /\ UNCHANGED <<sender, receiver>>
         /\ \A d \in Conn \ {c} : pc'[d] = pc[d] /\ last'[d] = last[d]
         /\ pc'[c] # "relaying" /\ pc[c] # "relaying"
         /\ \/ pc[c] = "lock_rooms" /\ pc'[c] = "in_rooms" /\ last'[c] = last[c]
            \/ ~alive[c] /\ pc[c] \in Handshaking /\ pc'[c] = "done" /\ last'[c] = "closed"
            \/ pc[c] \notin Unplaced /\ pc'[c] \notin Unplaced /\ last'[c] = last[c]
<1>1. pc \in [Conn -> PC] /\ last \in [Conn -> Sent]
  BY DEF IInv, TypeOK
<1>2. CASE LockRooms(c) \/ HandshakeFails(c)
  BY <1>1, <1>2 DEF LockRooms, HandshakeFails, Goto, Tell, locals, Handshaking
<1>3. CASE FindRoom(c) \/ StartKeepalive(c) \/ UnlistRoom(c)
  BY <1>1, <1>3 DEF FindRoom, StartKeepalive, UnlistRoom, Goto, locals, Unplaced, Handshaking
<1>4. CASE KeepaliveFind(c) \/ KeepaliveError(c) \/ KeepaliveStops(c)
  BY <1>1, <1>4 DEF KeepaliveFind, KeepaliveError, KeepaliveStops, Goto, locals, Unplaced,
     Handshaking
<1> QED
  BY <1>2, <1>3, <1>4

LEMMA InsideNext ==
  ASSUME ClientsIInv, IInv', RelayedInv', PairsInv', BarredInv', MetLasts,
         NEW c \in Conn, UNCHANGED clients,
         \/ LockRooms(c) \/ FindRoom(c) \/ StartKeepalive(c)
         \/ UnlistRoom(c) \/ KeepaliveFind(c) \/ KeepaliveError(c)
         \/ KeepaliveStops(c) \/ HandshakeFails(c)
  PROVE  ClientsIInv'
<1>1. /\ IInv /\ ClientsTypeOK /\ TalkInv /\ RelayedInv /\ EndInv /\ CarryInv
      /\ FailureHasACause
  BY DEF ClientsIInv
<1>2. /\ ClientsTypeOK' /\ GoesOn
      /\ \A e, f \in Conn : Carried(e, f) => (Carried(e, f))'
  BY <1>1, SameWords
<1>3. /\ alive' = alive /\ UNCHANGED <<sender, receiver>>
      /\ \A d \in Conn \ {c} : pc'[d] = pc[d] /\ last'[d] = last[d]
      /\ pc'[c] # "relaying" /\ pc[c] # "relaying"
      /\ \/ pc[c] = "lock_rooms" /\ pc'[c] = "in_rooms" /\ last'[c] = last[c]
         \/ ~alive[c] /\ pc[c] \in Handshaking /\ pc'[c] = "done" /\ last'[c] = "closed"
         \/ pc[c] \notin Unplaced /\ pc'[c] \notin Unplaced /\ last'[c] = last[c]
  BY <1>1, InsideMoves
<1>4. ASSUME NEW d \in Conn PROVE TaskMoves(d)
  <2>1. /\ cl' = cl /\ up' = up /\ down' = down /\ said' = said /\ heard' = heard
    BY DEF clients, talk
  <2> QED
    BY <1>3, <2>1 DEF TaskMoves
<1>5. TalkInv'
  BY <1>1, <1>2, <1>4, EveryoneMoves
<1>6. AllLast
  <2>1. ASSUME NEW d \in Conn PROVE last[d] = "room full" => last'[d] = "room full"
    <3>1. pc[d] \in Unplaced => last[d] # "room full"
      BY <1>1, LastFacts
    <3> QED
      BY <1>3, <3>1 DEF Unplaced
  <2> QED
    BY <1>2, <2>1 DEF AllLast, Lasts, clients, talk
<1>7. EndInv'
  <2>1. \A d \in Conn : alive'[d] /\ last'[d] = "closed" => alive[d] /\ last[d] = "closed"
    BY <1>3
  <2> QED
    BY <1>1, <1>6, <2>1, NobodyCloses
<1>8. FailureHasACause'
  BY <1>1, <1>6, NobodyFails DEF clients
<1>9. CarryInv'
  <2>1. ASSUME NEW h \in Conn, pc'[h] = "relaying",
               NEW e \in {<<sender'[h], receiver'[h]>>, <<receiver'[h], sender'[h]>>},
               alive'[e[1]], alive'[e[2]]
        PROVE  (Carried(e[1], e[2]))'
    <3>1. pc[h] = "relaying" /\ sender'[h] = sender[h] /\ receiver'[h] = receiver[h]
      BY <1>3, <2>1
    <3>2. sender[h] \in Conn /\ receiver[h] \in Conn
      BY <1>1, <3>1, RelayPair
    <3>3. e[1] \in Conn /\ e[2] \in Conn
      BY <3>1, <3>2
    <3>4. Carried(e[1], e[2])
      BY <1>1, <1>3, <2>1, <3>1 DEF CarryInv
    <3> QED
      BY <1>2, <3>3, <3>4
  <2> QED
    BY <2>1 DEF CarryInv
<1> QED
  BY <1>2, <1>5, <1>7, <1>8, <1>9 DEF ClientsIInv

\* Two clients are bridged: what each has said so far is still in its socket.
LEMMA StartRelayNext ==
  ASSUME ClientsIInv, IInv', RelayedInv', PairsInv', BarredInv', MetLasts,
         NEW c \in Conn, UNCHANGED clients, StartRelay(c)
  PROVE  ClientsIInv'
<1>1. /\ IInv /\ ClientsTypeOK /\ TalkInv /\ RelayedInv /\ EndInv /\ CarryInv
      /\ FailureHasACause
  BY DEF ClientsIInv
<1>2. /\ ClientsTypeOK' /\ GoesOn
      /\ \A e, f \in Conn : Carried(e, f) => (Carried(e, f))'
  BY <1>1, SameWords
<1>3. /\ pc[c] = "lock_room" /\ pc' = [pc EXCEPT ![c] = "relaying"]
      /\ sender'[c] \in Conn /\ receiver'[c] \in Conn /\ sender'[c] # receiver'[c]
      /\ \A d \in {sender'[c], receiver'[c]} : last[d] \in {"ok", "ping"} /\ last'[d] = "relayed"
      /\ \A d \in Conn \ {sender'[c], receiver'[c]} : last'[d] = last[d]
      /\ \A g \in Conn \ {c} : sender'[g] = sender[g] /\ receiver'[g] = receiver[g]
      /\ alive' = alive
  BY <1>1, StartRelayMoves
<1>4. pc'[c] = "relaying" /\ \A d \in Conn \ {c} : pc'[d] = pc[d]
  BY <1>1, <1>3, Shapes
<1>5. ASSUME NEW d \in Conn PROVE TaskMoves(d)
  <2>1. /\ cl' = cl /\ up' = up /\ down' = down /\ said' = said /\ heard' = heard
    BY DEF clients, talk
  <2>2. pc[c] \notin Unplaced /\ pc'[c] \notin Unplaced
    BY <1>3, <1>4 DEF Unplaced, Handshaking
  <2>3. last[d] \in {"ok", "ping"} => pc[d] \notin Unplaced
    BY <1>1, LastFacts
  <2>4. pc[d] \notin Unplaced => pc'[d] \notin Unplaced
    BY <1>4, <2>2
  <2>5. last'[d] = last[d] \/ (last[d] \in {"ok", "ping"} /\ last'[d] = "relayed")
    BY <1>3
  <2>6. \/ pc'[d] = pc[d] /\ last'[d] = last[d]
        \/ /\ pc[d] \notin Unplaced /\ pc'[d] \notin Unplaced
           /\ \/ last'[d] = last[d]
              \/ last[d] \in {"ok", "ping"} /\ last'[d] = "relayed"
    <3>1. CASE last'[d] = last[d]
      <4>1. d = c \/ pc'[d] = pc[d]
        BY <1>4
      <4> QED
        BY <2>2, <3>1, <4>1
    <3>2. CASE last[d] \in {"ok", "ping"} /\ last'[d] = "relayed"
      BY <2>3, <2>4, <3>2
    <3> QED
      BY <2>5, <3>1, <3>2
  <2> QED
    BY <1>3, <2>1, <2>6 DEF TaskMoves
<1>6. TalkInv'
  BY <1>1, <1>2, <1>5, EveryoneMoves
<1>7. AllLast
  <2>1. ASSUME NEW d \in Conn PROVE last[d] = "room full" => last'[d] = "room full"
    BY <1>3
  <2> QED
    BY <1>2, <2>1 DEF AllLast, Lasts, clients, talk
<1>8. EndInv'
  <2>1. \A d \in Conn : alive'[d] /\ last'[d] = "closed" => alive[d] /\ last[d] = "closed"
    BY <1>3
  <2> QED
    BY <1>1, <1>7, <2>1, NobodyCloses
<1>9. FailureHasACause'
  BY <1>1, <1>7, NobodyFails DEF clients
<1>10. ASSUME NEW e \in Conn, NEW f \in Conn, alive[e], last[e] \in {"ok", "ping"},
              last[f] \in {"ok", "ping"}
       PROVE  Carried(e, f)
  <2>1. up[e] = said[e]
    BY <1>1, <1>10 DEF TalkInv, Upward
  <2>2. heard[f] = <<>> /\ \A i \in 1..Len(down[f]) : down[f][i] \notin PeerSays
    BY <1>1, <1>10 DEF TalkInv, Downward
  <2>3. up[e] \in Seq(AllSays) /\ down[f] \in Seq(AllSays)
    BY <1>1, PairTypes
  <2>4. Carry(up[e], <<>>, down[f], up[e])
    BY <2>2, <2>3, CarryNothing
  <2> QED
    BY <2>1, <2>2, <2>4, CarriedIsCarry
<1>11. CarryInv'
  <2>1. ASSUME NEW h \in Conn, pc'[h] = "relaying",
               NEW e \in {<<sender'[h], receiver'[h]>>, <<receiver'[h], sender'[h]>>},
               alive'[e[1]], alive'[e[2]]
        PROVE  (Carried(e[1], e[2]))'
    <3>1. CASE h = c
      <4>1. /\ e[1] \in Conn /\ e[2] \in Conn /\ alive[e[1]]
            /\ last[e[1]] \in {"ok", "ping"} /\ last[e[2]] \in {"ok", "ping"}
        BY <1>3, <2>1, <3>1
      <4>2. Carried(e[1], e[2])
        BY <1>10, <4>1
      <4> QED
        BY <1>2, <4>1, <4>2
    <3>2. CASE h # c
      <4>1. pc[h] = "relaying" /\ sender'[h] = sender[h] /\ receiver'[h] = receiver[h]
        BY <1>3, <1>4, <2>1, <3>2
      <4>2. sender[h] \in Conn /\ receiver[h] \in Conn
        BY <1>1, <4>1, RelayPair
      <4>3. e[1] \in Conn /\ e[2] \in Conn
        BY <4>1, <4>2
      <4>4. Carried(e[1], e[2])
        BY <1>1, <1>3, <2>1, <4>1 DEF CarryInv
      <4> QED
        BY <1>2, <4>3, <4>4
    <3> QED
      BY <3>1, <3>2
  <2> QED
    BY <2>1 DEF CarryInv
<1> QED
  BY <1>2, <1>6, <1>8, <1>9, <1>11 DEF ClientsIInv

\* Nothing changes between client c and its socket.
Quiet(c) ==
  /\ cl'[c] = cl[c] /\ up'[c] = up[c] /\ down'[c] = down[c]
  /\ said'[c] = said[c] /\ heard'[c] = heard[c]

\* The end of a bridge concerns nobody but the two clients of it.
LEMMA RelayEndsAlone ==
  ASSUME IInv, RelayedInv, CarryInv, NEW c \in Conn, pc[c] = "relaying", relay_ends(c),
         \A d \in Conn \ {sender[c], receiver[c]} : Quiet(d)
  PROVE  /\ CarryInv'
         /\ \A d \in Conn \ {sender[c], receiver[c]} : TaskMoves(d)
         /\ \A d \in Conn : pc[d] \notin Unplaced => pc'[d] \notin Unplaced
<1>1. /\ pc' = [pc EXCEPT ![c] = "unlist"] /\ alive' = alive
      /\ \A d \in Conn \ {sender[c], receiver[c]} : last'[d] = last[d]
      /\ UNCHANGED <<sender, receiver>>
  BY RelayEndMoves
<1>2. pc[c] = "relaying" /\ pc'[c] = "unlist" /\ \A d \in Conn \ {c} : pc'[d] = pc[d]
  BY <1>1 DEF IInv, TypeOK
<1>3. ASSUME NEW d \in Conn \ {sender[c], receiver[c]} PROVE TaskMoves(d)
  <2>1. Quiet(d) /\ alive'[d] = alive[d] /\ last'[d] = last[d]
    BY <1>1
  <2>2. pc'[d] = pc[d] \/ (pc[d] \notin Unplaced /\ pc'[d] \notin Unplaced)
    BY <1>2 DEF Unplaced, Handshaking
  <2> QED
    BY <2>1, <2>2 DEF TaskMoves, Quiet
<1>4. \A d \in Conn : pc[d] \notin Unplaced => pc'[d] \notin Unplaced
  BY <1>2 DEF Unplaced, Handshaking
<1>5. CarryInv'
  <2> SUFFICES ASSUME NEW h \in Conn, pc'[h] = "relaying",
                      NEW e \in {<<sender'[h], receiver'[h]>>, <<receiver'[h], sender'[h]>>},
                      alive'[e[1]], alive'[e[2]]
               PROVE  (Carried(e[1], e[2]))'
    BY DEF CarryInv
  <2>1. h # c /\ pc[h] = "relaying" /\ sender' = sender /\ receiver' = receiver
    BY <1>1, <1>2
  <2>2. /\ e[1] \in Conn /\ e[2] \in Conn
        /\ e[1] \notin {sender[c], receiver[c]} /\ e[2] \notin {sender[c], receiver[c]}
    <3>1. /\ sender[h] \in Conn /\ receiver[h] \in Conn
          /\ sender[h] \notin {sender[c], receiver[c]}
          /\ receiver[h] \notin {sender[c], receiver[c]}
      BY <2>1, RelayPair
    <3>2. e = <<sender[h], receiver[h]>> \/ e = <<receiver[h], sender[h]>>
      BY <2>1
    <3>3. {e[1], e[2]} = {sender[h], receiver[h]}
      BY <3>2
    <3> QED
      BY <3>1, <3>3
  <2>3. Carried(e[1], e[2])
    BY <1>1, <2>1 DEF CarryInv
  <2>4. Quiet(e[1]) /\ Quiet(e[2])
    BY <2>2
  <2> QED
    BY <2>3, <2>4, CarriedIsCarry DEF Quiet
<1> QED
  BY <1>3, <1>4, <1>5

\* A bridge ends when both of its clients have gone.
LEMMA EndOfStreamsNext ==
  ASSUME ClientsIInv, IInv', RelayedInv', PairsInv', BarredInv', MetLasts,
         NEW c \in Conn, EndOfStreams(c)
  PROVE  ClientsIInv'
<1>1. /\ IInv /\ ClientsTypeOK /\ TalkInv /\ RelayedInv /\ EndInv /\ CarryInv
      /\ FailureHasACause
  BY DEF ClientsIInv
<1>2. /\ pc[c] = "relaying" /\ relay_ends(c) /\ UNCHANGED clients
      /\ ~alive[sender[c]] /\ ~alive[receiver[c]]
  BY DEF EndOfStreams, relay_eof
<1>3. ClientsTypeOK' /\ GoesOn
  BY <1>1, <1>2, SameWords
<1>4. /\ alive' = alive /\ sender[c] \in Conn /\ receiver[c] \in Conn
      /\ \A d \in {sender[c], receiver[c]} : last[d] = "relayed" /\ last'[d] = "closed"
      /\ \A d \in Conn \ {sender[c], receiver[c]} : last'[d] = last[d]
  BY <1>1, <1>2, RelayEndMoves
<1>5. \A d \in Conn : Quiet(d)
  BY <1>2 DEF clients, talk, Quiet
<1>6. /\ CarryInv'
      /\ \A d \in Conn \ {sender[c], receiver[c]} : TaskMoves(d)
      /\ \A d \in Conn : pc[d] \notin Unplaced => pc'[d] \notin Unplaced
  BY <1>1, <1>2, <1>5, RelayEndsAlone
<1>7. ASSUME NEW d \in {sender[c], receiver[c]} PROVE TaskMoves(d)
  <2>1. d \in Conn /\ last[d] = "relayed" /\ last'[d] = "closed" /\ alive'[d] = alive[d]
    BY <1>4
  <2>2. pc[d] \notin Unplaced
    BY <1>1, <2>1, BridgedStage
  <2>3. Quiet(d) /\ pc'[d] \notin Unplaced
    BY <1>5, <1>6, <2>1, <2>2
  <2> QED
    BY <2>1, <2>2, <2>3 DEF TaskMoves, Quiet
<1>8. TalkInv'
  <2>1. \A d \in Conn : TaskMoves(d)
    BY <1>6, <1>7
  <2> QED
    BY <1>1, <1>3, <2>1, EveryoneMoves
<1>9. AllLast
  <2>1. ASSUME NEW d \in Conn PROVE last[d] = "room full" => last'[d] = "room full"
    BY <1>4
  <2> QED
    BY <1>3, <1>5, <2>1 DEF AllLast, Lasts, Quiet
<1>10. EndInv'
  <2>1. \A d \in Conn : alive'[d] /\ last'[d] = "closed" => alive[d] /\ last[d] = "closed"
    BY <1>2, <1>4
  <2> QED
    BY <1>1, <1>9, <2>1, NobodyCloses
<1>11. FailureHasACause'
  BY <1>1, <1>5, <1>9, NobodyFails DEF Quiet
<1> QED
  BY <1>3, <1>6, <1>8, <1>10, <1>11 DEF ClientsIInv

\* What of the words on their way down is left when a bridge breaks.
LEMMA DownCut ==
  ASSUME ClientsTypeOK, NEW c \in Conn, Downward(c), GoesOn, last[c] = "relayed",
         last'[c] = "closed", heard'[c] = heard[c],
         NEW n \in 0..Len(down[c]), down'[c] = SubSeq(down[c], 1, n)
  PROVE  Downward(c)' /\ down'[c] \in Seq(Says)
<1>1. PICK d \in Seq(Says) : d = down[c] /\ Len(d) \in Nat
  BY MessageTypes
<1>2. PICK a : a = down'[c] /\ a = SubSeq(d, 1, n)
  BY <1>1
<1>3. /\ a \in Seq(Says) /\ Len(a) = n
      /\ \A i \in 1..Len(a) : i \in 1..Len(d) /\ a[i] = d[i]
  <2>1. \A i \in 1..n : d[i] \in Says /\ i \in 1..Len(d)
    BY <1>1, ElementOfSeq
  <2>2. n \in Nat /\ (IF 1 <= n THEN n - 1 + 1 ELSE 0) = n /\ n - 1 + 1 = n
    BY <1>1
  <2>3. /\ SubSeq(d, 1, n) \in Seq(Says)
        /\ Len(SubSeq(d, 1, n)) = IF 1 <= n THEN n - 1 + 1 ELSE 0
        /\ \A i \in 1..n - 1 + 1 : SubSeq(d, 1, n)[i] = d[1 + i - 1]
    BY <2>1, <2>2, SubSeqProperties
  <2>4. \A i \in 1..n : 1 + i - 1 = i
    BY <2>2
  <2> QED
    BY <1>2, <2>1, <2>2, <2>3, <2>4
<1>4. /\ \A i, j \in 1..Len(d) : i < j /\ d[i] \in PeerSays => d[j] \in PeerSays
      /\ \A i \in 1..Len(d) :
           /\ d[i] = "bad password" => c \in BadPassword
           /\ d[i] # "room full"
           /\ d[i] = "ping" => c \in pinged
      /\ heard[c] # <<>> => \A i \in 1..Len(d) : d[i] \in PeerSays
  BY <1>1 DEF Downward
<1>5. c \in pinged => c \in pinged'
  BY StillPinged
<1>6. \A i \in 1..Len(a) :
        /\ a[i] = "bad password" => c \in BadPassword
        /\ a[i] = "room full" => last'[c] = "room full"
        /\ a[i] = "ping" => c \in pinged'
  BY <1>3, <1>4, <1>5
<1>7. \A i, j \in 1..Len(a) : i < j /\ a[i] \in PeerSays => a[j] \in PeerSays
  BY <1>3, <1>4
<1>8. heard'[c] # <<>> => \A i \in 1..Len(a) : a[i] \in PeerSays
  BY <1>3, <1>4
<1> QED
  BY <1>2, <1>3, <1>6, <1>7, <1>8 DEF Downward

\* A bridge breaks when one of its clients has gone: the other one's socket is
\* closed, with some of what it was to read.
LEMMA BridgeBreaksNext ==
  ASSUME ClientsIInv, IInv', RelayedInv', PairsInv', BarredInv', MetLasts,
         NEW c \in Conn, BridgeBreaks(c)
  PROVE  ClientsIInv'
<1>1. /\ IInv /\ ClientsTypeOK /\ TalkInv /\ RelayedInv /\ EndInv /\ CarryInv
      /\ FailureHasACause
  BY DEF ClientsIInv
<1>2. /\ pc[c] = "relaying" /\ relay_ends(c) /\ alive[sender[c]] # alive[receiver[c]]
      /\ UNCHANGED <<secret, cl, said, heard, pings, pinged>>
  BY DEF BridgeBreaks, relay_error, talk
<1>3. /\ alive' = alive /\ sender[c] \in Conn /\ receiver[c] \in Conn
      /\ sender[c] # receiver[c] /\ RoomName[sender[c]] = RoomName[receiver[c]]
      /\ \A d \in {sender[c], receiver[c]} : last[d] = "relayed" /\ last'[d] = "closed"
      /\ \A d \in Conn \ {sender[c], receiver[c]} : last'[d] = last[d]
  BY <1>1, <1>2, RelayEndMoves
<1>4. PICK e \in {sender[c], receiver[c]}, n \in Nat :
        /\ alive[e] /\ n \in 0..Len(down[e])
        /\ down' = [down EXCEPT ![e] = SubSeq(@, 1, n)]
        /\ up' = [up EXCEPT ![e] = <<>>]
  <2>1. PICK e \in {sender[c], receiver[c]} :
          /\ alive[e]
          /\ \E n \in 0..Len(down[e]) : down' = [down EXCEPT ![e] = SubSeq(@, 1, n)]
          /\ up' = [up EXCEPT ![e] = <<>>]
    BY DEF BridgeBreaks
  <2>2. PICK n \in 0..Len(down[e]) : down' = [down EXCEPT ![e] = SubSeq(@, 1, n)]
    BY <2>1
  <2>3. n \in Nat
    <3>1. Len(down[e]) \in Nat
      BY <1>1, <1>3, MessageTypes
    <3> QED
      BY <2>2, <3>1
  <2> QED
    BY <2>1, <2>2, <2>3
<1>5. PICK f \in Conn \ {e} : {e, f} = {sender[c], receiver[c]} /\ ~alive[f]
  <2>1. alive[sender[c]] \in BOOLEAN /\ alive[receiver[c]] \in BOOLEAN
    BY <1>1, <1>3, Shapes
  <2>2. CASE e = sender[c]
    BY <1>2, <1>3, <1>4, <2>1, <2>2
  <2>3. CASE e = receiver[c]
    BY <1>2, <1>3, <1>4, <2>1, <2>3
  <2> QED
    BY <2>2, <2>3
<1>6. /\ e \in Conn /\ RoomName[f] = RoomName[e] /\ last[e] = "relayed" /\ last'[e] = "closed"
      /\ last[f] = "relayed" /\ last'[f] = "closed"
  BY <1>3, <1>5
<1>7. \A d \in Conn \ {e} : Quiet(d)
  BY <1>1, <1>2, <1>4, <1>6, Shapes DEF Quiet
<1>8. /\ CarryInv'
      /\ \A d \in Conn \ {sender[c], receiver[c]} : TaskMoves(d)
      /\ \A d \in Conn : pc[d] \notin Unplaced => pc'[d] \notin Unplaced
  <2>1. \A d \in Conn \ {sender[c], receiver[c]} : Quiet(d)
    BY <1>4, <1>7
  <2> QED
    BY <1>1, <1>2, <2>1, RelayEndsAlone
<1>9. GoesOn
  BY <1>2 DEF GoesOn
<1>10. Mine(e)' /\ down'[e] \in Seq(Says)
  <2>1. Mine(e)
    BY <1>1, <1>6 DEF TalkInv, Mine
  <2>2. InRoom(e) /\ secret[e] >= 4 /\ pc[e] \notin Unplaced
    BY <1>1, <1>4, <1>6, BridgedStage
  <2>3. /\ cl'[e] = cl[e] /\ said'[e] = said[e] /\ heard'[e] = heard[e] /\ secret'[e] = secret[e]
        /\ alive'[e] = alive[e] /\ up'[e] = <<>> /\ down'[e] = SubSeq(down[e], 1, n)
        /\ pc'[e] \notin Unplaced
    BY <1>1, <1>2, <1>3, <1>4, <1>6, <1>8, <2>2, Shapes
  <2>4. (InRoom(e))'
    BY <1>4, <1>6, <2>2, <2>3 DEF InRoom, Silent
  <2>5. (Stage(e))' /\ Speech(e)'
    BY <1>6, <2>1, <2>2, <2>3, <2>4, SpeechStays DEF Stage, Mine
  <2>6. Downward(e)' /\ down'[e] \in Seq(Says)
    BY <1>1, <1>4, <1>6, <1>9, <2>1, <2>3, DownCut DEF Mine
  <2>7. Upward(e)'
    BY <1>6, <2>3 DEF Upward, Unplaced
  <2> QED
    BY <2>5, <2>6, <2>7 DEF Mine
<1>11. ClientsTypeOK'
  <2>1. up'[e] \in Seq(UpSays)
    BY <1>1, <1>4, <1>6, Shapes, EmptySeq
  <2>2. up' \in [Conn -> Seq(UpSays)] /\ down' \in [Conn -> Seq(Says)]
    BY <1>1, <1>4, <1>6, <1>10, <2>1, Shapes
  <2> QED
    BY <1>1, <1>2, <2>2 DEF ClientsTypeOK, Says, UpSays
<1>12. TaskMoves(f)
  <2>1. pc[f] \notin Unplaced
    BY <1>1, <1>6, BridgedStage
  <2> QED
    BY <1>3, <1>6, <1>7, <1>8, <2>1 DEF TaskMoves, Quiet
<1>13. TalkInv'
  <2>1. ASSUME NEW d \in Conn \ {e} PROVE Mine(d)'
    <3>1. TaskMoves(d)
      BY <1>5, <1>8, <1>12
    <3>2. Mine(d)
      BY <1>1 DEF TalkInv, Mine
    <3> QED
      BY <1>1, <1>9, <3>1, <3>2, LastFacts, TaskMovesMine
  <2> QED
    BY <1>10, <2>1 DEF TalkInv, Mine
<1>14. AllLast
  <2>1. ASSUME NEW d \in Conn PROVE last[d] = "room full" => last'[d] = "room full"
    BY <1>3
  <2> QED
    BY <1>2, <1>9, <2>1 DEF AllLast, Lasts
<1>15. EndInv'
  <2>1. ASSUME NEW d \in Conn, alive'[d], last'[d] = "closed" PROVE (PeerGone(d))'
    <3>1. CASE d = e
      <4>1. Met(e, f)
        BY <1>5 DEF Met
      <4>2. PeerGone(e)
        BY <1>4, <1>5, <1>6, <4>1, DeadPeer
      <4> QED
        BY <1>1, <1>6, <1>14, <3>1, <4>2, CausesLast
    <3>2. CASE d # e
      <4>1. alive[d] /\ last[d] = "closed"
        BY <1>3, <1>5, <2>1, <3>2
      <4> QED
        BY <1>1, <1>14, <4>1, CausesLast DEF EndInv
    <3> QED
      BY <3>1, <3>2
  <2> QED
    BY <2>1 DEF EndInv
<1>16. FailureHasACause'
  BY <1>1, <1>2, <1>14, NobodyFails
<1> QED
  BY <1>8, <1>11, <1>13, <1>15, <1>16 DEF ClientsIInv

\* The relay pings a client that waits.
LEMMA PingNext ==
  ASSUME ClientsIInv, IInv', RelayedInv', PairsInv', BarredInv', MetLasts,
         NEW c \in Conn, Ping(c)
  PROVE  ClientsIInv'
<1>1. /\ IInv /\ ClientsTypeOK /\ TalkInv /\ RelayedInv /\ EndInv /\ CarryInv
      /\ FailureHasACause
  BY DEF ClientsIInv
<1>2. PICK f \in Conn :
        /\ last[f] \in {"ok", "ping"} /\ last' = [last EXCEPT ![f] = "ping"]
        /\ Reply(f, <<"ping">>) /\ pinged' = pinged \cup {f}
  <2>1. room[c] \in Conn /\ first[room[c]] # None
    BY <1>1 DEF Ping, KeepalivePing, IInv, TypeOK
  <2>2. first[room[c]] \in Conn /\ last[first[room[c]]] \in {"ok", "ping"}
    BY <1>1, <2>1, LastFacts
  <2> QED
    BY <2>2 DEF Ping, KeepalivePing, Tell
<1>3. /\ UNCHANGED <<secret, cl, up, said, heard, pc, alive, sender, receiver>>
      /\ pings < MaxPings /\ pings' = pings + 1
  BY DEF Ping, KeepalivePing, locals, talk
<1>4. /\ GoesOn /\ f \in pinged' /\ pings' \in 0..MaxPings /\ pinged' \subseteq Conn
  BY <1>1, <1>2, <1>3, ClientsAssumption DEF GoesOn, ClientsTypeOK
<1>5. "ping" \in Says /\ "ping" \notin PeerSays
  BY DEF Says, ServerSays, PeerSays
<1>6. Reaches(f, "ping") /\ down'[f] \in Seq(Says)
  BY <1>1, <1>2, <1>5, Told
<1>7. \A d \in Conn \ {f} : Untouched(d)
  BY <1>1, <1>2, <1>3, Shapes DEF Untouched, Reply
<1>8. last'[f] = "ping"
  BY <1>1, <1>2, Shapes
<1>9. Mine(f)'
  <2>1. Mine(f) /\ pc[f] \notin Unplaced
    BY <1>1, <1>2, LastFacts DEF TalkInv, Mine
  <2>2. HasLeft(f) \/ (secret[f] >= 4 /\ InRoom(f))
    BY <1>2, <2>1 DEF Mine, Stage, Absent, Knocking, Refused, Unplaced, Handshaking
  <2>3. (HasLeft(f) => HasLeft(f)') /\ (InRoom(f) => InRoom(f)')
    BY <1>3, <1>8 DEF HasLeft, InRoom, Silent
  <2>4. (Stage(f))'
    BY <1>3, <2>2, <2>3 DEF Stage
  <2>5. Speech(f)'
    BY <1>3, <2>1, SpeechStays DEF Mine
  <2>6. Downward(f)'
    BY <1>1, <1>2, <1>3, <1>4, <1>5, <1>6, <1>8, <2>1, DownMore DEF Mine
  <2>7. Upward(f)'
    BY <1>2, <1>3, <1>8, <2>1 DEF Upward, Mine, Unplaced
  <2> QED
    BY <2>4, <2>5, <2>6, <2>7 DEF Mine
<1>10. TalkInv'
  <2>1. ASSUME NEW d \in Conn \ {f} PROVE Mine(d)'
    <3>1. Untouched(d) /\ Mine(d)
      BY <1>1, <1>7 DEF TalkInv, Mine
    <3> QED
      BY <1>1, <1>4, <3>1, LastFacts, UntouchedMine
  <2> QED
    BY <1>9, <2>1 DEF TalkInv, Mine
<1>11. ClientsTypeOK'
  <2>1. down' \in [Conn -> Seq(Says)]
    BY <1>1, <1>2, <1>6, Shapes DEF Reply
  <2> QED
    BY <1>1, <1>3, <1>4, <2>1 DEF ClientsTypeOK, Says
<1>12. AllLast
  <2>1. ASSUME NEW d \in Conn PROVE last[d] = "room full" => last'[d] = "room full"
    BY <1>2, <1>7 DEF Untouched
  <2> QED
    BY <1>3, <1>4, <2>1 DEF AllLast, Lasts
<1>13. EndInv'
  <2>1. \A d \in Conn : alive'[d] /\ last'[d] = "closed" => alive[d] /\ last[d] = "closed"
    BY <1>3, <1>7, <1>8 DEF Untouched
  <2> QED
    BY <1>1, <1>12, <2>1, NobodyCloses
<1>14. FailureHasACause'
  BY <1>1, <1>3, <1>12, NobodyFails
<1>15. CarryInv'
  <2> SUFFICES ASSUME NEW h \in Conn, pc'[h] = "relaying",
                      NEW e \in {<<sender'[h], receiver'[h]>>, <<receiver'[h], sender'[h]>>},
                      alive'[e[1]], alive'[e[2]]
               PROVE  (Carried(e[1], e[2]))'
    BY DEF CarryInv
  <2>1. pc[h] = "relaying" /\ sender' = sender /\ receiver' = receiver
    BY <1>3
  <2>2. /\ e[1] \in Conn /\ e[2] \in Conn /\ last[e[1]] = "relayed" /\ last[e[2]] = "relayed"
    BY <1>1, <2>1, RelayPair DEF RelayedInv
  <2>3. Carried(e[1], e[2])
    BY <1>1, <1>3, <2>1 DEF CarryInv
  <2>4. Untouched(e[1]) /\ Untouched(e[2])
    BY <1>2, <1>7, <2>2
  <2> QED
    BY <2>2, <2>3, <2>4, UntouchedCarry
<1> QED
  BY <1>10, <1>11, <1>13, <1>14, <1>15 DEF ClientsIInv

\* A word crosses a bridge.
LEMMA BridgeNext ==
  ASSUME ClientsIInv, IInv', RelayedInv', PairsInv', BarredInv', MetLasts,
         NEW c \in Conn, bridge_sockets(c)
  PROVE  ClientsIInv'
<1>1. /\ IInv /\ ClientsTypeOK /\ TalkInv /\ RelayedInv /\ EndInv /\ CarryInv
      /\ FailureHasACause
  BY DEF ClientsIInv
<1>2. pc[c] = "relaying" /\ UNCHANGED <<vars, secret, cl, said, heard, pings, pinged>>
  BY DEF bridge_sockets, talk
<1>3. UNCHANGED <<pc, alive, last, sender, receiver>>
  BY <1>2 DEF vars
<1>4. /\ sender[c] \in Conn /\ receiver[c] \in Conn /\ sender[c] # receiver[c]
      /\ last[sender[c]] = "relayed" /\ last[receiver[c]] = "relayed"
  BY <1>1, <1>2, RelayPair DEF RelayedInv
<1>5. PICK a \in Conn, b \in Conn :
        /\ a # b /\ {a, b} = {sender[c], receiver[c]}
        /\ last[a] = "relayed" /\ last[b] = "relayed"
        /\ up[a] # <<>>
        /\ up' = [up EXCEPT ![a] = Tail(@)]
        /\ down' = IF alive[b] THEN [down EXCEPT ![b] = Append(@, Head(up[a]))] ELSE down
  <2>1. PICK e \in {<<sender[c], receiver[c]>>, <<receiver[c], sender[c]>>} :
          /\ up[e[1]] # <<>>
          /\ up' = [up EXCEPT ![e[1]] = Tail(@)]
          /\ down' = IF alive[e[2]] THEN [down EXCEPT ![e[2]] = Append(@, Head(up[e[1]]))]
                     ELSE down
    BY DEF bridge_sockets
  <2>2. /\ e[1] \in Conn /\ e[2] \in Conn /\ e[1] # e[2]
        /\ {e[1], e[2]} = {sender[c], receiver[c]}
        /\ last[e[1]] = "relayed" /\ last[e[2]] = "relayed"
    BY <1>4
  <2> QED
    BY <2>1, <2>2
<1>6. PICK m \in PeerSays : /\ m = Head(up[a]) /\ m \in Says /\ Tail(up[a]) \in Seq(PeerSays)
  <2>1. up[a] \in Seq(PeerSays)
    BY <1>1, <1>5 DEF TalkInv, Upward
  <2> QED
    BY <1>5, <2>1, HeadTailProperties DEF Says
<1>7. /\ up'[a] = Tail(up[a]) /\ \A d \in Conn \ {a} : up'[d] = up[d]
      /\ \A d \in Conn \ {b} : down'[d] = down[d]
      /\ alive[b] => Reaches(b, m)
      /\ ~alive[b] => down'[b] = down[b]
  <2>1. CASE alive[b]
    BY <1>1, <1>5, <1>6, <2>1, Shapes DEF Reaches
  <2>2. CASE ~alive[b]
    BY <1>1, <1>5, <2>2, Shapes
  <2> QED
    BY <2>1, <2>2
<1>8. GoesOn
  BY <1>2 DEF GoesOn
<1>9. \A d \in Conn \ {a, b} : Untouched(d)
  BY <1>2, <1>3, <1>7 DEF Untouched
<1>10. Mine(a)'
  <2>1. Mine(a) /\ pc[a] \notin Unplaced
    BY <1>1, <1>5, BridgedStage DEF TalkInv, Mine
  <2>2. HasLeft(a) \/ (secret[a] >= 4 /\ InRoom(a))
    BY <1>1, <1>5, BridgedStage
  <2>3. /\ HasLeft(a) => HasLeft(a)'
        /\ InRoom(a) => InRoom(a)'
    BY <1>2, <1>3, <1>5 DEF HasLeft, InRoom, Silent
  <2>4. (Stage(a))'
    BY <1>2, <2>2, <2>3 DEF Stage
  <2>5. Speech(a)'
    BY <1>2, <2>1, SpeechStays DEF Mine
  <2>6. Downward(a)'
    BY <1>2, <1>3, <1>5, <1>7, <1>8, <2>1, DownStays DEF Mine
  <2>7. Upward(a)'
    BY <1>3, <1>5, <1>6, <1>7, <2>1 DEF Upward, Unplaced
  <2> QED
    BY <2>4, <2>5, <2>6, <2>7 DEF Mine
<1>11. Mine(b)' /\ down'[b] \in Seq(Says)
  <2>1. Mine(b) /\ down[b] \in Seq(Says)
    BY <1>1, MessageTypes DEF TalkInv, Mine
  <2>2. CASE ~alive[b]
    <3>1. Untouched(b)
      BY <1>2, <1>3, <1>5, <1>7, <2>2 DEF Untouched
    <3>2. Mine(b)'
      BY <1>1, <1>8, <2>1, <3>1, LastFacts, UntouchedMine
    <3> QED
      BY <1>7, <2>1, <2>2, <3>2
  <2>3. CASE alive[b]
    <3>1. InRoom(b) /\ secret[b] >= 4
      BY <1>1, <1>5, <2>3, BridgedStage
    <3>2. up'[b] = up[b] /\ Reaches(b, m)
      BY <1>5, <1>7, <2>3
    <3>3. InRoom(b)'
      BY <1>2, <1>3, <3>1, <3>2 DEF InRoom, Silent
    <3>4. (Stage(b))'
      BY <1>2, <3>1, <3>3 DEF Stage
    <3>5. Speech(b)'
      BY <1>2, <2>1, SpeechStays DEF Mine
    <3>6. m \notin {"bad password", "room full", "ping"}
      BY DEF PeerSays
    <3>7. Downward(b)'
      BY <1>1, <1>2, <1>3, <1>5, <1>6, <1>8, <2>1, <3>2, <3>6, DownMore DEF Mine
    <3>8. Upward(b)'
      BY <1>2, <1>3, <2>1, <3>2 DEF Upward, Mine
    <3>9. down'[b] \in Seq(Says)
      BY <1>6, <2>1, <3>2, AppendProperties DEF Reaches
    <3> QED
      BY <3>4, <3>5, <3>7, <3>8, <3>9 DEF Mine
  <2> QED
    BY <2>2, <2>3
<1>12. TalkInv'
  <2>1. ASSUME NEW d \in Conn \ {a, b} PROVE Mine(d)'
    <3>1. Untouched(d) /\ Mine(d)
      BY <1>1, <1>9 DEF TalkInv, Mine
    <3> QED
      BY <1>1, <1>8, <3>1, LastFacts, UntouchedMine
  <2> QED
    BY <1>10, <1>11, <2>1 DEF TalkInv, Mine
<1>13. ClientsTypeOK'
  <2>1. up[a] \in Seq(UpSays)
    BY <1>1, MessageTypes
  <2>2. Tail(up[a]) \in Seq(UpSays)
    BY <1>5, <2>1, HeadTailProperties
  <2>3. up' \in [Conn -> Seq(UpSays)]
    BY <1>1, <1>5, <2>2, Shapes
  <2>4. down' \in [Conn -> Seq(Says)]
    <3>1. \A d \in Conn : down'[d] \in Seq(Says)
      BY <1>1, <1>7, <1>11, MessageTypes
    <3>2. down' = [d \in Conn |-> down'[d]]
      BY <1>1, <1>5, Shapes
    <3> QED
      BY <3>1, <3>2
  <2> QED
    BY <1>1, <1>2, <2>3, <2>4 DEF ClientsTypeOK, Says, UpSays
<1>14. AllLast
  BY <1>2, <1>3, <1>8 DEF AllLast, Lasts
<1>15. EndInv'
  BY <1>1, <1>3, <1>14, NobodyCloses
<1>16. FailureHasACause'
  BY <1>1, <1>2, <1>14, NobodyFails
<1>17. alive[b] /\ Carried(a, b) => (Carried(a, b))'
  <2> SUFFICES ASSUME alive[b], Carried(a, b) PROVE (Carried(a, b))'
    OBVIOUS
  <2>1. heard[b] \in Seq(AllSays) /\ down[b] \in Seq(AllSays) /\ up[a] \in Seq(AllSays)
    BY <1>1, PairTypes
  <2>2. Carry(said[a], heard[b], down[b], up[a])
    BY CarriedIsCarry
  <2>3. Carry(said[a], heard[b], Append(down[b], Head(up[a])), Tail(up[a]))
    BY <1>5, <2>1, <2>2, CarryBridged
  <2> QED
    BY <1>2, <1>6, <1>7, <2>3, CarriedIsCarry DEF Reaches
<1>18. Carried(b, a) => (Carried(b, a))'
  BY <1>2, <1>5, <1>7, CarriedIsCarry
<1>19. CarryInv'
  <2> SUFFICES ASSUME NEW h \in Conn, pc'[h] = "relaying",
                      NEW e \in {<<sender'[h], receiver'[h]>>, <<receiver'[h], sender'[h]>>},
                      alive'[e[1]], alive'[e[2]]
               PROVE  (Carried(e[1], e[2]))'
    BY DEF CarryInv
  <2>1. pc[h] = "relaying" /\ sender' = sender /\ receiver' = receiver /\ alive' = alive
    BY <1>3
  <2>2. Carried(e[1], e[2])
    BY <1>1, <2>1 DEF CarryInv
  <2>3. e = <<sender[h], receiver[h]>> \/ e = <<receiver[h], sender[h]>>
    BY <2>1
  <2>4. CASE h = c
    <3>1. \/ a = sender[c] /\ b = receiver[c]
          \/ a = receiver[c] /\ b = sender[c]
      BY <1>5
    <3>2. e = <<a, b>> \/ e = <<b, a>>
      BY <2>3, <2>4, <3>1
    <3>3. \/ e[1] = a /\ e[2] = b
          \/ e[1] = b /\ e[2] = a
      BY <3>2
    <3> QED
      BY <1>17, <1>18, <2>1, <2>2, <3>3
  <2>5. CASE h # c
    <3>1. /\ sender[h] \in Conn \ {a, b} /\ receiver[h] \in Conn \ {a, b}
      BY <1>1, <1>2, <1>5, <2>1, <2>5, RelayPair
    <3>2. e[1] \in Conn \ {a, b} /\ e[2] \in Conn \ {a, b}
      BY <2>3, <3>1
    <3> QED
      BY <1>9, <2>2, <3>2, UntouchedCarry
  <2> QED
    BY <2>4, <2>5
<1> QED
  BY <1>12, <1>13, <1>15, <1>16, <1>19 DEF ClientsIInv

-----------------------------------------------------------------------------
(* The invariant.                                                          *)

LEMMA ClientsInitIInv == ClientsInit => ClientsIInv
<1> SUFFICES ASSUME ClientsInit PROVE ClientsIInv
  OBVIOUS
<1>1. Init /\ IInv
  BY InitIInv DEF ClientsInit
<1>2. /\ pc = [c \in Conn |-> "off"] /\ alive = [c \in Conn |-> FALSE]
      /\ last = [c \in Conn |-> "nothing"]
  BY <1>1 DEF Init
<1>3. /\ secret \in Secrets /\ cl = [c \in Conn |-> "start"]
      /\ up = [c \in Conn |-> <<>>] /\ down = [c \in Conn |-> <<>>]
      /\ said = [c \in Conn |-> <<>>] /\ heard = [c \in Conn |-> <<>>] /\ pings = 0 /\ pinged = {}
  BY DEF ClientsInit
<1>4. ClientsTypeOK
  <2>1. /\ <<>> \in Seq({"key", "salt", "password", "room"} \cup PeerSays)
        /\ <<>> \in Seq(ServerSays \cup PeerSays) /\ <<>> \in Seq(PeerSays)
    BY EmptySeq
  <2>2. 0 \in 0..MaxPings /\ "start" \in CL
    BY ClientsAssumption DEF CL
  <2> QED
    BY <1>3, <2>1, <2>2 DEF ClientsTypeOK
<1>5. TalkInv
  <2>1. ASSUME NEW c \in Conn PROVE Mine(c)
    <3>1. /\ pc[c] = "off" /\ ~alive[c] /\ last[c] = "nothing" /\ cl[c] = "start"
          /\ up[c] = <<>> /\ down[c] = <<>> /\ said[c] = <<>> /\ heard[c] = <<>>
      BY <1>2, <1>3
    <3>2. Stage(c)
      BY <3>1 DEF Stage, Absent, Silent
    <3>3. Len(<<>>) = 0 /\ 1..0 = {}
      OBVIOUS
    <3>4. Speech(c) /\ Downward(c)
      BY <3>1, <3>3 DEF Speech, Downward
    <3>5. Upward(c)
      BY <3>1 DEF Upward
    <3> QED
      BY <3>2, <3>4, <3>5 DEF Mine
  <2> QED
    BY <2>1 DEF TalkInv, Mine
<1>6. RelayedInv /\ EndInv /\ CarryInv
  BY <1>2 DEF RelayedInv, EndInv, CarryInv
<1>8. PairsInv
  BY <1>1 DEF Init, PairsInv
<1>9. BarredInv
  BY <1>2, <1>3, ClientsAssumption, EmptySeq DEF BarredInv
<1>7. FailureHasACause
  BY <1>3 DEF FailureHasACause
<1> QED
  BY <1>1, <1>4, <1>5, <1>6, <1>7, <1>8, <1>9 DEF ClientsIInv

LEMMA ClientsNextIInv == ClientsIInv /\ [ClientsNext]_allVars => ClientsIInv'
<1> SUFFICES ASSUME ClientsIInv, [ClientsNext]_allVars PROVE ClientsIInv'
  OBVIOUS
<1>s. secret' = secret
  BY DEF ClientsNext, ClientSide, RejectSecret, SendKey, SendPassword, SendRoom, EnterRoom,
     SkipPing, HearHandshake, StartSession, HearPake, GiveUp, PanicOnSecret, Crash, Vanish,
     RelaySide, AnswerKey, AnswerPassword, TakeRoomName, AnswerRoom, Inside, clients,
     bridge_sockets, EndOfStreams, Ping, BridgeBreaks, allVars
<1>1. CASE ClientsNext
  <2>1. PICK c \in Conn :
          ClientSide(c) \/ RelaySide(c) \/ Crash(c) \/ Ping(c) \/ BridgeBreaks(c)
    BY <1>1 DEF ClientsNext
  <2>2. Next \/ UNCHANGED vars
    BY <2>1, ClientSideMaps, RelaySideMaps
  <2>3. IInv' /\ RelayedInv' /\ PairsInv' /\ BarredInv' /\ MetLasts
    BY <1>s, <2>2, NextIInv, RelayedNext, PairsNext, BarredNext DEF ClientsIInv
  <2>4. CASE OwnStep(c)
    BY <2>3, <2>4, OwnStepNext
  <2>5. CASE Inside(c)
    BY <2>3, <2>5, InsideNext, StartRelayNext DEF Inside
  <2>6. CASE Ping(c) \/ BridgeBreaks(c) \/ bridge_sockets(c) \/ EndOfStreams(c)
    BY <2>3, <2>6, PingNext, BridgeBreaksNext, BridgeNext, EndOfStreamsNext
  <2> QED
    BY <2>1, <2>4, <2>5, <2>6 DEF OwnStep, RelaySide
<1>2. CASE UNCHANGED allVars
  <2>1. UNCHANGED vars /\ UNCHANGED clients
    BY <1>2 DEF allVars
  <2>2. /\ IInv /\ ClientsTypeOK /\ TalkInv /\ RelayedInv /\ EndInv /\ CarryInv
        /\ FailureHasACause
    BY DEF ClientsIInv
  <2>3. IInv' /\ RelayedInv' /\ PairsInv' /\ BarredInv' /\ MetLasts
    BY <1>s, <2>1, <2>2, NextIInv, RelayedNext, PairsNext, BarredNext
  <2>4. ClientsTypeOK' /\ GoesOn
    BY <2>1, <2>2, SameWords
  <2>5. \A d \in Conn : Untouched(d)
    BY <2>1 DEF vars, clients, talk, Untouched
  <2>6. TalkInv'
    <3>1. \A d \in Conn : TaskMoves(d)
      BY <2>5 DEF Untouched, TaskMoves
    <3> QED
      BY <2>2, <2>4, <3>1, EveryoneMoves
  <2>7. AllLast
    BY <2>3, <2>4, <2>5 DEF AllLast, Lasts, Untouched
  <2>8. EndInv' /\ FailureHasACause'
    BY <2>2, <2>5, <2>7, NobodyCloses, NobodyFails DEF Untouched
  <2>9. CarryInv'
    <3>1. UNCHANGED <<pc, alive, sender, receiver>>
      BY <2>1 DEF vars
    <3>2. UNCHANGED <<up, down, said, heard>>
      BY <2>1 DEF clients, talk
    <3>3. \A e, f : Carried(e, f) => (Carried(e, f))'
      BY <3>2, CarriedIsCarry
    <3> QED
      BY <2>2, <3>1, <3>3 DEF CarryInv
  <2> QED
    BY <2>3, <2>4, <2>6, <2>8, <2>9 DEF ClientsIInv
<1> QED
  BY <1>1, <1>2

\* The conversation, as the invariant describes it.
THEOREM TalkInvariance == ClientsSpec => []ClientsIInv
<1> QED
  BY ClientsInitIInv, ClientsNextIInv, PTL DEF ClientsSpec

-----------------------------------------------------------------------------
(* What follows from it.                                                   *)

\* Clients and sockets have the types that RelayClients gives them: in
\* particular the relay says nothing but what server.rs:63-157 has it say, and
\* only what a peer says is said across a bridge.
THEOREM ClientsTypesCorrect == ClientsSpec => []ClientsTypeOK
<1>1. ClientsIInv => ClientsTypeOK
  BY DEF ClientsIInv
<1> QED
  BY <1>1, TalkInvariance, PTL

\* What a client says in its room waits for it to be bridged, and across the
\* bridge, whichever task runs it, nothing is lost, repeated or reordered
\* between two clients that are there (server.rs:70-74, 157-186, client.rs:69-93).
THEOREM WordsArrive == ClientsSpec => []WordsReachThePeer
<1>1. ASSUME ClientsIInv PROVE WordsReachThePeer
  <2>1. \A c \in Conn : alive[c] /\ last[c] \in {"ok", "ping"} => up[c] = said[c]
    BY <1>1 DEF ClientsIInv, TalkInv, Upward
  <2> QED
    BY <1>1, <2>1 DEF ClientsIInv, CarryInv, WordsReachThePeer
<1> QED
  BY <1>1, TalkInvariance, PTL

\* On its way to a client no ping follows a word of the peer, nor does any reach
\* one that has heard the peer, however often the relay pings (server.rs:63-88).
THEOREM PingsComeFirst == ClientsSpec => []PingsPrecedeWords
<1>1. ASSUME ClientsIInv PROVE PingsPrecedeWords
  <2>1. "ping" \notin PeerSays
    BY DEF PeerSays
  <2>2. ASSUME NEW c \in Conn
        PROVE  /\ \A i, j \in DOMAIN down[c] :
                    down[c][i] \in PeerSays /\ down[c][j] = "ping" => j < i
               /\ heard[c] # <<>> => \A j \in DOMAIN down[c] : down[c][j] # "ping"
    <3>1. Downward(c) /\ ClientsTypeOK
      BY <1>1 DEF ClientsIInv, TalkInv
    <3>2. DOMAIN down[c] = 1..Len(down[c]) /\ Len(down[c]) \in Nat
      BY <3>1, MessageTypes, LenProperties
    <3>3. ASSUME NEW i \in DOMAIN down[c], NEW j \in DOMAIN down[c],
                 down[c][i] \in PeerSays, down[c][j] = "ping"
          PROVE  j < i
      <4>1. i \in 1..Len(down[c]) /\ j \in 1..Len(down[c]) /\ i # j
        BY <2>1, <3>2, <3>3
      <4>2. ~(i < j)
        BY <2>1, <3>1, <3>3, <4>1 DEF Downward
      <4> QED
        BY <3>2, <4>1, <4>2
    <3>4. heard[c] # <<>> => \A j \in DOMAIN down[c] : down[c][j] # "ping"
      BY <2>1, <3>1, <3>2 DEF Downward
    <3> QED
      BY <3>3, <3>4
  <2> QED
    BY <2>2 DEF PingsPrecedeWords
<1> QED
  BY <1>1, TalkInvariance, PTL

\* No client fails because of a client it has not been put through to, nor any
\* sender because it is pinged: whoever fails has a short secret or a wrong
\* password, found the room full, is a receiver that was pinged, or was put
\* through to one that is to blame (client.rs:94-172, server.rs:157-187).
THEOREM FailuresAreCaused == ClientsSpec => []FailureHasACause
<1>1. ClientsIInv => FailureHasACause
  BY DEF ClientsIInv
<1> QED
  BY <1>1, TalkInvariance, PTL
=============================================================================
