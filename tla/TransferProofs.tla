--------------------------- MODULE TransferProofs ---------------------------
(***************************************************************************)
(* Proofs about the control messages of Transfer, for every offer, every   *)
(* way in which the secrets may differ and queues of any size, with all of *)
(* the faults: what is on the way between the two sessions is determined   *)
(* by where they are.                                                      *)
(***************************************************************************)
EXTENDS Transfer, SequenceTheorems, TLAPS

Message == [type : MsgType, num : 0..Len(files)]

OnlyPings(q) == \A i \in 1..Len(q) : q[i] = Msg("ping")

\* q is some pings and then the messages of words.
PingsThen(q, words) ==
  /\ Len(q) >= Len(words)
  /\ \A i \in 1..Len(q) - Len(words) : q[i] = Msg("ping")
  /\ \A i \in 1..Len(words) : q[Len(q) - Len(words) + i] = words[i]

\* q begins with the requests for the files after the one that is being served.
Requests(q) ==
  \A i \in 1..(index - serving.file) : q[i] = Ready(serving.file + i)

ToSender == inbox["sender"]
ToReceiver == inbox["receiver"]
SenderAt(at, in) == pc["sender"] \in at /\ state["sender"] = in
ReceiverAt(at, in) == pc["receiver"] \in at /\ state["receiver"] \in in

NoneRequested == index = 0 /\ serving = [file |-> 0, next |-> 0]

(***************************************************************************)
(* The stages of a conversation.                                           *)
(***************************************************************************)

\* The sender waits for the receiver, or has not come either.
Unmet ==
  /\ ReceiverAt({"connect"}, {"KeyExchange"})
  /\ SenderAt({"connect", "keepalive"}, "KeyExchange")
  /\ OnlyPings(ToSender) /\ ToReceiver = <<>>
  /\ NoneRequested

\* The receiver has connected.  It may have been pinged.
Called ==
  /\ ReceiverAt({"net"}, {"KeyExchange"})
  /\ OnlyPings(ToReceiver)
  /\ \/ /\ SenderAt({"connect", "keepalive"}, "KeyExchange")
        /\ PingsThen(ToSender, <<Msg("handshake")>>)
     \/ /\ SenderAt({"net", "recv"}, "KeyExchange")
        /\ ToSender = <<>>
  /\ NoneRequested

\* The receiver has begun its session.  It fails there when it reads a ping.
Greeted ==
  /\ ReceiverAt({"recv", "failed"}, {"KeyExchange"})
  /\ OnlyPings(ToReceiver)
  /\ \/ /\ SenderAt({"connect", "keepalive"}, "KeyExchange")
        /\ PingsThen(ToSender, <<Msg("handshake"), Msg("pake")>>)
     \/ /\ SenderAt({"net", "recv"}, "KeyExchange")
        /\ ToSender = <<Msg("pake")>>
  /\ NoneRequested

\* The sender has answered the receiver's key.
Answered ==
  /\ ReceiverAt({"recv", "failed"}, {"KeyExchange"})
  /\ SenderAt({"recv"}, "IpExchange")
  /\ ToSender = <<>> /\ PingsThen(ToReceiver, <<Msg("pake")>>)
  /\ NoneRequested

\* The receiver has the sender's key and has sent its address.
Keyed ==
  /\ ReceiverAt({"recv"}, {"IpExchange"})
  /\ SenderAt({"recv"}, "IpExchange")
  /\ ToSender = <<Msg("externalip")>> /\ ToReceiver = <<>>
  /\ NoneRequested

\* The sender has sent its address and its offer.
Offered ==
  /\ \/ /\ ReceiverAt({"recv"}, {"IpExchange"})
        /\ ToReceiver = <<Msg("externalip"), Msg("fileinfo")>>
     \/ /\ ReceiverAt({"recv"}, {"FileInfoTransfare"})
        /\ ToReceiver = <<Msg("fileinfo")>>
     \/ /\ ReceiverAt({"confirm", "failed"}, {"FileInfoTransfare"})
        /\ ToReceiver = <<>>
  /\ SenderAt({"recv"}, "FileTransfare")
  /\ ToSender = <<>>
  /\ NoneRequested

\* The user has said no.
Refused ==
  /\ refused
  /\ ReceiverAt({"failed"}, {"FileInfoTransfare"})
  /\ ToReceiver = <<>>
  /\ \/ SenderAt({"recv"}, "FileTransfare") /\ ToSender = <<Msg("error")>>
     \/ SenderAt({"panicked"}, "FileTransfare") /\ ToSender = <<>>
  /\ NoneRequested

Serving ==
  /\ SenderAt({"recv", "send_file"}, "FileTransfare")
  /\ pc["sender"] = "send_file" => serving.file > 0
  /\ serving.file <= index
  /\ ToReceiver = <<>>

\* The receiver goes through the files.
Requesting ==
  /\ ReceiverAt({"request", "receive"}, {"FileTransfare"})
  /\ pc["receiver"] = "receive" => index > 0
  /\ Serving
  /\ Len(ToSender) = index - serving.file /\ Requests(ToSender)

\* It has seen the last of them.
Finishing ==
  /\ ReceiverAt({"recv"}, {"FileTransfare", "FileTransfared"})
  /\ index = Len(files)
  /\ Serving
  /\ Len(ToSender) = index - serving.file + 1 /\ Requests(ToSender)
  /\ ToSender[index - serving.file + 1] = Msg("finished")

\* The sender has, and returns; then the receiver does, with a last word that
\* nobody reads.
Returned ==
  /\ SenderAt({"done"}, "FileTransfare")
  /\ index = Len(files) /\ serving.file = index
  /\ \/ /\ ReceiverAt({"recv"}, {"FileTransfare", "FileTransfared"})
        /\ ToSender = <<>> /\ ToReceiver = <<Msg("finished")>>
     \/ /\ ReceiverAt({"done"}, {"FileTransfare", "FileTransfared"})
        /\ ToSender = <<Msg("finished")>> /\ ToReceiver = <<>>

Exited == \A p \in Role : pc[p] = "exited"

Conversation ==
  \/ Unmet \/ Called \/ Greeted \/ Answered \/ Keyed \/ Offered \/ Refused
  \/ Requesting \/ Finishing \/ Returned \/ Exited

\* Who is in the control room.
RoomInv ==
  \/ pc["sender"] = "connect" /\ pc["receiver"] = "connect" /\ joined.control = <<>>
  \/ pc["sender"] # "connect" /\ pc["receiver"] = "connect" /\ joined.control = <<"sender">>
  \/ pc["sender"] = "connect" /\ pc["receiver"] # "connect" /\ joined.control = <<"receiver">>
  \/ pc["sender"] # "connect" /\ pc["receiver"] # "connect" /\ Len(joined.control) = 2

IInv == TypeOK /\ Conversation /\ RoomInv

-----------------------------------------------------------------------------
USE DEF Role, Peer

\* What sequences look like from their elements.
LEMMA AppendOne ==
  ASSUME NEW T, NEW q \in Seq(T), NEW m \in T
  PROVE  /\ q \o <<m>> \in Seq(T) /\ Len(q \o <<m>>) = Len(q) + 1
         /\ \A i \in 1..Len(q) : (q \o <<m>>)[i] = q[i]
         /\ (q \o <<m>>)[Len(q) + 1] = m
<1>1. <<m>> \in Seq(T) /\ Len(<<m>>) = 1 /\ <<m>>[1] = m
  OBVIOUS
<1> QED
  BY <1>1, ConcatProperties

LEMMA AppendTwo ==
  ASSUME NEW T, NEW q \in Seq(T), NEW m \in T, NEW n \in T
  PROVE  /\ q \o <<m, n>> \in Seq(T) /\ Len(q \o <<m, n>>) = Len(q) + 2
         /\ \A i \in 1..Len(q) : (q \o <<m, n>>)[i] = q[i]
         /\ (q \o <<m, n>>)[Len(q) + 1] = m /\ (q \o <<m, n>>)[Len(q) + 2] = n
<1>1. <<m, n>> \in Seq(T) /\ Len(<<m, n>>) = 2 /\ <<m, n>>[1] = m /\ <<m, n>>[2] = n
  OBVIOUS
<1> QED
  BY <1>1, ConcatProperties

LEMMA AppendNone ==
  ASSUME NEW T, NEW q \in Seq(T)
  PROVE  q \o <<>> = q
BY ConcatEmptySeq

LEMMA TakeOne ==
  ASSUME NEW T, NEW q \in Seq(T), q # <<>>
  PROVE  /\ Head(q) \in T /\ Head(q) = q[1] /\ Len(q) > 0
         /\ Tail(q) \in Seq(T) /\ Len(Tail(q)) = Len(q) - 1
         /\ \A i \in 1..Len(q) - 1 : Tail(q)[i] = q[i + 1]
BY HeadTailProperties

LEMMA MessagesAre ==
  /\ \A type \in MsgType : Msg(type) \in Message /\ Msg(type).type = type
  /\ \A i \in 1..Len(files) : Ready(i) \in Message
  /\ \A i : Ready(i).type = "recipientready" /\ Ready(i).num = i
BY DEF Msg, Message, MsgType, Ready

\* The parts of TypeOK: what is given, the control side, the loops and the data.
GivenType == offer \in Offers /\ code \in Codes
SessionType ==
  /\ pc \in [Role -> PC] /\ state \in [Role -> ClientState]
  /\ inbox \in [Role -> Seq(Message)]
  /\ joined \in [control : Seq(Role), data : Seq(Role)]
  /\ pings \in 0..MaxPings /\ refused \in BOOLEAN
LoopType ==
  /\ index \in 0..Len(files) /\ amount \in Nat
  /\ serving \in [file : 0..Len(files), next : Nat]
  /\ pinged \subseteq 1..Len(files)
DataType ==
  /\ readQ \in Seq([file : 1..Len(files), num : Nat])
  /\ encrypting \subseteq [file : 1..Len(files), num : Nat]
  /\ wire \in Seq([file : 0..Len(files), num : Nat])
  /\ dataUp \in BOOLEAN
  /\ writeQ \in Seq([into : 1..Len(files), chunk : [file : 0..Len(files), num : Nat]])
  /\ \A d \in decrypting \cup disk :
       d \in [into : 1..Len(files), chunk : [file : 0..Len(files), num : Nat]]

LEMMA TypeParts == TypeOK <=> GivenType /\ SessionType /\ LoopType /\ DataType
BY DEF TypeOK, GivenType, SessionType, LoopType, DataType, Message

\* What sending and taking messages does to the inboxes.
LEMMA Sends ==
  ASSUME TypeOK, offer' = offer, NEW p \in Role, NEW msgs \in Seq(Message), Send(p, msgs)
  PROVE  /\ inbox' \in [Role -> Seq(Message')]
         /\ inbox'[p] = inbox[p]
         /\ inbox'[Peer(p)] = inbox[Peer(p)] \o msgs
<1>1. inbox[Peer(p)] \o msgs \in Seq(Message)
  BY TypeParts, ConcatProperties DEF SessionType
<1>2. Message' = Message
  BY DEF Message, files
<1> QED
  BY <1>1, <1>2, TypeParts DEF Send, SessionType

LEMMA Answers ==
  ASSUME TypeOK, offer' = offer, NEW p \in Role, NEW type, NEW msgs \in Seq(Message),
         Answer(p, type, msgs)
  PROVE  /\ pc[p] = "recv" /\ inbox[p] # <<>> /\ inbox[p] \in Seq(Message)
         /\ inbox[p][1].type = type /\ Len(inbox[p]) > 0
         /\ inbox' \in [Role -> Seq(Message')]
         /\ inbox'[p] = Tail(inbox[p])
         /\ inbox'[Peer(p)] = inbox[Peer(p)] \o msgs
<1>1. inbox[Peer(p)] \o msgs \in Seq(Message)
  BY TypeParts, ConcatProperties DEF SessionType
<1>2. Message' = Message
  BY DEF Message, files
<1>3. inbox[p] \in Seq(Message) /\ inbox[p] # <<>>
  BY TypeParts DEF SessionType, Answer
<1>4. Tail(inbox[p]) \in Seq(Message) /\ Len(inbox[p]) > 0 /\ Head(inbox[p]) = inbox[p][1]
  BY <1>3, TakeOne
<1> QED
  BY <1>1, <1>2, <1>3, <1>4, TypeParts DEF Answer, SessionType

\* The messages that are sent.
LEMMA Messages ==
  /\ <<>> \in Seq(Message)
  /\ \A type \in MsgType : <<Msg(type)>> \in Seq(Message)
  /\ <<Msg("externalip"), Msg("fileinfo")>> \in Seq(Message)
  /\ \A i \in 1..Len(files) : <<Ready(i)>> \in Seq(Message)
<1>1. Msg("externalip") \in Message /\ Msg("fileinfo") \in Message
  BY MessagesAre DEF MsgType
<1> QED
  BY <1>1, MessagesAre

\* The steps of a session keep the types of what they do not touch.
LEMMA GivenKept ==
  ASSUME TypeOK, UNCHANGED given PROVE  GivenType'
BY TypeParts DEF GivenType, given
LEMMA LoopsKept ==
  ASSUME TypeOK, UNCHANGED <<given, loops>> PROVE  LoopType'
BY TypeParts DEF LoopType, given, loops, files
LEMMA DataKept ==
  ASSUME TypeOK, UNCHANGED <<given, pipeline>> PROVE  DataType'
BY TypeParts DEF DataType, given, pipeline, files

LEMMA TypesTogether ==
  ASSUME GivenType', SessionType', LoopType', DataType' PROVE TypeOK'
BY DEF TypeOK, GivenType, SessionType, LoopType, DataType, Message

LEMMA Joins ==
  ASSUME TypeOK, NEW p \in Role
  PROVE  /\ [joined EXCEPT !.control = Append(@, p)] \in [control : Seq(Role), data : Seq(Role)]
         /\ [joined EXCEPT !.data = Append(@, p)] \in [control : Seq(Role), data : Seq(Role)]
<1> HIDE DEF Role
<1>1. joined.control \in Seq(Role) /\ joined.data \in Seq(Role)
  BY TypeParts DEF SessionType
<1>2. Append(joined.control, p) \in Seq(Role) /\ Append(joined.data, p) \in Seq(Role)
  BY <1>1, AppendProperties
<1> QED
  BY <1>2, TypeParts DEF SessionType

LEMMA connect_TypeOK ==
  ASSUME TypeOK, NEW p \in Role, connect(p) PROVE TypeOK'
<1> USE DEF connect
<1>1. GivenType' /\ LoopType' /\ DataType'
  BY GivenKept, LoopsKept, DataKept
<1>2. inbox' \in [Role -> Seq(Message')]
  <2>1. offer' = offer /\ Send(p, IF p = "sender" THEN <<>> ELSE <<Msg("handshake")>>)
    BY DEF given
  <2> QED
    BY <2>1, Sends, Messages DEF MsgType
<1>3. joined' \in [control : Seq(Role), data : Seq(Role)]
  BY Joins
<1>4. SessionType'
  BY <1>2, <1>3, TypeParts DEF SessionType, PC, Goto
<1> QED
  BY <1>1, <1>4, TypesTogether

-----------------------------------------------------------------------------
(* Pings, and what comes after them.                                       *)

LEMMA PingsAppended ==
  ASSUME NEW q \in Seq(Message), OnlyPings(q)
  PROVE  /\ OnlyPings(q \o <<Msg("ping")>>) /\ OnlyPings(Append(q, Msg("ping")))
         /\ \A m \in Message : PingsThen(q \o <<m>>, <<m>>)
         /\ q # <<>> => Head(q) = Msg("ping") /\ OnlyPings(Tail(q))
<1>1. Msg("ping") \in Message
  BY MessagesAre DEF MsgType
<1>2. OnlyPings(q \o <<Msg("ping")>>) /\ OnlyPings(Append(q, Msg("ping")))
  BY <1>1, AppendOne, AppendProperties DEF OnlyPings
<1>3. ASSUME NEW m \in Message PROVE PingsThen(q \o <<m>>, <<m>>)
  <2>1. /\ Len(q \o <<m>>) = Len(q) + 1 /\ (q \o <<m>>)[Len(q) + 1] = m
        /\ \A i \in 1..Len(q) : (q \o <<m>>)[i] = q[i]
    BY AppendOne
  <2>2. Len(<<m>>) = 1 /\ <<m>>[1] = m /\ Len(q) \in Nat
    OBVIOUS
  <2> QED
    BY <2>1, <2>2 DEF PingsThen, OnlyPings
<1>4. q # <<>> => Head(q) = Msg("ping") /\ OnlyPings(Tail(q))
  BY TakeOne DEF OnlyPings
<1> QED
  BY <1>2, <1>3, <1>4

LEMMA WordAppended ==
  ASSUME NEW q \in Seq(Message), NEW a \in Message, NEW m \in Message,
         PingsThen(q, <<a>>)
  PROVE  PingsThen(q \o <<m>>, <<a, m>>)
<1>1. /\ Len(q \o <<m>>) = Len(q) + 1 /\ (q \o <<m>>)[Len(q) + 1] = m
      /\ \A i \in 1..Len(q) : (q \o <<m>>)[i] = q[i]
  BY AppendOne
<1>2. /\ Len(<<a>>) = 1 /\ <<a>>[1] = a /\ Len(<<a, m>>) = 2
      /\ <<a, m>>[1] = a /\ <<a, m>>[2] = m /\ Len(q) \in Nat
  OBVIOUS
<1>3. Len(q) >= 1 /\ q[Len(q)] = a /\ \A i \in 1..Len(q) - 1 : q[i] = Msg("ping")
  BY <1>2 DEF PingsThen
<1> QED
  BY <1>1, <1>2, <1>3 DEF PingsThen

LEMMA FirstOfOne ==
  ASSUME NEW q \in Seq(Message), NEW a \in Message, PingsThen(q, <<a>>)
  PROVE  /\ q # <<>>
         /\ Len(q) = 1 => Head(q) = a /\ Tail(q) = <<>>
         /\ Len(q) # 1 => Head(q) = Msg("ping") /\ PingsThen(Tail(q), <<a>>)
<1>1. Len(<<a>>) = 1 /\ <<a>>[1] = a /\ Len(q) \in Nat
  OBVIOUS
<1>2. Len(q) >= 1 /\ q[Len(q)] = a /\ \A i \in 1..Len(q) - 1 : q[i] = Msg("ping")
  BY <1>1 DEF PingsThen
<1>3. q # <<>>
  BY <1>2
<1>4. /\ Head(q) = q[1] /\ Tail(q) \in Seq(Message) /\ Len(Tail(q)) = Len(q) - 1
      /\ \A i \in 1..Len(q) - 1 : Tail(q)[i] = q[i + 1]
  BY <1>3, TakeOne
<1> QED
  BY <1>1, <1>2, <1>3, <1>4 DEF PingsThen

LEMMA FirstOfTwo ==
  ASSUME NEW q \in Seq(Message), NEW a \in Message, NEW b \in Message,
         PingsThen(q, <<a, b>>)
  PROVE  /\ q # <<>>
         /\ Len(q) = 2 => Head(q) = a /\ Tail(q) = <<b>>
         /\ Len(q) # 2 => Head(q) = Msg("ping") /\ PingsThen(Tail(q), <<a, b>>)
<1>1. Len(<<a, b>>) = 2 /\ <<a, b>>[1] = a /\ <<a, b>>[2] = b /\ Len(q) \in Nat
  OBVIOUS
<1>2. /\ Len(q) >= 2 /\ q[Len(q) - 1] = a /\ q[Len(q)] = b
      /\ \A i \in 1..Len(q) - 2 : q[i] = Msg("ping")
  BY <1>1 DEF PingsThen
<1>3. q # <<>>
  BY <1>2
<1>4. /\ Head(q) = q[1] /\ Tail(q) \in Seq(Message) /\ Len(Tail(q)) = Len(q) - 1
      /\ \A i \in 1..Len(q) - 1 : Tail(q)[i] = q[i + 1]
  BY <1>3, TakeOne
<1>5. ASSUME Len(q) = 2 PROVE Tail(q) = <<b>>
  <2>1. <<b>> \in Seq(Message) /\ Len(<<b>>) = 1 /\ <<b>>[1] = b
    OBVIOUS
  <2>2. q[2] = b
    BY <1>2, <1>5
  <2>3. Len(Tail(q)) = 1 /\ Tail(q)[1] = b
    BY <1>4, <1>5, <2>2
  <2>4. \A i \in 1..Len(Tail(q)) : Tail(q)[i] = <<b>>[i]
    BY <2>1, <2>3
  <2>5. Tail(q) \in Seq(Message) /\ Len(Tail(q)) = Len(<<b>>)
    BY <1>4, <2>1, <2>3
  <2> HIDE DEF Message
  <2> QED
    BY <2>1, <2>4, <2>5, SeqEqual, Zenon
<1>6. ASSUME Len(q) # 2 PROVE Head(q) = Msg("ping") /\ PingsThen(Tail(q), <<a, b>>)
  <2>1. Len(q) - 1 - 2 = Len(q) - 2 - 1 /\ Len(q) > 2
    BY <1>1, <1>2, <1>6
  <2>2. \A i \in 1..Len(Tail(q)) - 2 : Tail(q)[i] = Msg("ping")
    BY <1>2, <1>4, <2>1
  <2>3. Tail(q)[Len(Tail(q)) - 2 + 1] = a /\ Tail(q)[Len(Tail(q)) - 2 + 2] = b
    BY <1>1, <1>2, <1>4, <2>1
  <2>4. Head(q) = Msg("ping") /\ Len(Tail(q)) >= 2
    BY <1>1, <1>2, <1>4, <2>1
  <2> QED
    BY <1>1, <2>2, <2>3, <2>4 DEF PingsThen
<1> QED
  BY <1>1, <1>2, <1>3, <1>4, <1>5, <1>6

\* Messages that are alone, or two of them, on the way.
LEMMA FewWords ==
  ASSUME NEW m \in Message, NEW n \in Message
  PROVE  /\ <<m>> # <<>> /\ <<m>>[1] = m /\ Len(<<m>>) = 1 /\ Tail(<<m>>) = <<>>
         /\ <<>> \o <<m>> = <<m>>
         /\ <<m, n>> # <<>> /\ <<m, n>>[1] = m /\ Tail(<<m, n>>) = <<n>>
         /\ <<>> \o <<m, n>> = <<m, n>>
OBVIOUS

-----------------------------------------------------------------------------
(* What the steps keep.                                                    *)

USE DEF ToSender, ToReceiver, SenderAt, ReceiverAt

LEMMA TalkTypes ==
  ASSUME TypeOK, UNCHANGED <<given, loops, pipeline>>,
         pc' \in [Role -> PC], state' \in [Role -> ClientState],
         inbox' \in [Role -> Seq(Message')],
         joined' \in [control : Seq(Role), data : Seq(Role)],
         pings' \in 0..MaxPings, refused' \in BOOLEAN
  PROVE  TypeOK'
<1>1. GivenType' /\ LoopType' /\ DataType'
  BY GivenKept, LoopsKept, DataKept
<1>2. SessionType'
  BY DEF SessionType
<1> QED
  BY <1>1, <1>2, TypesTogether

LEMMA RoomKept ==
  ASSUME RoomInv, joined' = joined,
         \A p \in Role : pc'[p] = "connect" <=> pc[p] = "connect"
  PROVE  RoomInv'
BY DEF RoomInv

\* The data may move, and send_file() go on, without a word.
LEMMA TalkKept ==
  ASSUME TypeOK, Conversation, UNCHANGED <<offer, pc, state, inbox, refused, index>>,
         \/ serving' = serving
         \/ pc["sender"] = "send_file" /\ serving'.file = serving.file
  PROVE  Conversation'
<1>1. Unmet => Unmet'
  BY DEF Unmet, NoneRequested, OnlyPings
<1>2. Called => Called'
  BY DEF Called, NoneRequested, OnlyPings, PingsThen
<1>3. Greeted => Greeted'
  BY DEF Greeted, NoneRequested, OnlyPings, PingsThen
<1>4. Answered => Answered'
  BY DEF Answered, NoneRequested, PingsThen
<1>5. (Keyed => Keyed') /\ (Offered => Offered')
  BY DEF Keyed, Offered, NoneRequested
<1>6. Refused => Refused'
  BY DEF Refused, NoneRequested
<1>7. serving'.file = serving.file
  OBVIOUS
<1>8. Requesting => Requesting'
  BY <1>7 DEF Requesting, Serving, Requests
<1>9. Finishing => Finishing'
  BY <1>7 DEF Finishing, Serving, Requests, files
<1>10. (Returned => Returned') /\ (Exited => Exited')
  BY <1>7 DEF Returned, Exited, files
<1> QED
  BY <1>1, <1>2, <1>3, <1>4, <1>5, <1>6, <1>8, <1>9, <1>10 DEF Conversation

\* What the sender reads, and when.
LEMMA SenderReads ==
  ASSUME TypeOK, Conversation, pc["sender"] = "recv", ToSender # <<>>
  PROVE  \/ Greeted /\ ToSender = <<Msg("pake")>> /\ ToSender[1] = Msg("pake")
         \/ Keyed /\ ToSender[1] = Msg("externalip")
         \/ Refused /\ ToSender = <<Msg("error")>> /\ ToSender[1] = Msg("error")
         \/ /\ Requesting /\ index > serving.file
            /\ ToSender[1] = Ready(serving.file + 1)
         \/ /\ Finishing /\ index > serving.file
            /\ ToSender[1] = Ready(serving.file + 1)
         \/ /\ Finishing /\ index = serving.file /\ Len(ToSender) = 1
            /\ ToSender[1] = Msg("finished")
<1>1. \A m : <<m>>[1] = m
  OBVIOUS
<1>2. index \in Nat /\ serving.file \in Nat /\ Len(ToSender) \in Nat
      /\ (Len(ToSender) = 0 => ToSender = <<>>)
  BY TypeParts, EmptySeq DEF SessionType, LoopType
<1>3. ~Unmet /\ ~Called /\ ~Answered /\ ~Offered /\ ~Returned /\ ~Exited
  BY DEF Unmet, Called, Answered, Offered, Returned, Exited
<1>4. Greeted => ToSender = <<Msg("pake")>>
  BY DEF Greeted
<1>5. Keyed => ToSender = <<Msg("externalip")>>
  BY DEF Keyed
<1>6. Refused => ToSender = <<Msg("error")>>
  BY DEF Refused
<1>7. Requesting => index > serving.file /\ ToSender[1] = Ready(serving.file + 1)
  BY <1>2 DEF Requesting, Serving, Requests
<1>8. Finishing => \/ index > serving.file /\ ToSender[1] = Ready(serving.file + 1)
                   \/ index = serving.file /\ ToSender[1] = Msg("finished") /\ Len(ToSender) = 1
  BY <1>2 DEF Finishing, Serving, Requests
<1> QED
  BY <1>1, <1>3, <1>4, <1>5, <1>6, <1>7, <1>8 DEF Conversation

\* What the receiver reads, and when.
LEMMA ReceiverReads ==
  ASSUME TypeOK, Conversation, pc["receiver"] = "recv", ToReceiver # <<>>
  PROVE  \/ Greeted /\ ToReceiver[1] = Msg("ping")
         \/ Answered /\ ToReceiver[1] = Msg("ping")
         \/ Answered /\ ToReceiver[1] = Msg("pake") /\ Tail(ToReceiver) = <<>>
         \/ /\ Offered /\ state["receiver"] = "IpExchange"
            /\ ToReceiver = <<Msg("externalip"), Msg("fileinfo")>>
            /\ ToReceiver[1] = Msg("externalip")
         \/ /\ Offered /\ state["receiver"] = "FileInfoTransfare"
            /\ ToReceiver = <<Msg("fileinfo")>> /\ ToReceiver[1] = Msg("fileinfo")
         \/ /\ Returned /\ ToSender = <<>> /\ ToReceiver = <<Msg("finished")>>
            /\ ToReceiver[1] = Msg("finished")
<1>1. /\ \A m : <<m>>[1] = m
      /\ <<Msg("externalip"), Msg("fileinfo")>>[1] = Msg("externalip")
  OBVIOUS
<1>2. ToReceiver \in Seq(Message) /\ Msg("pake") \in Message
  BY TypeParts, MessagesAre DEF SessionType, MsgType
<1>3. ToReceiver[1] = Head(ToReceiver)
  OBVIOUS
<1>4. ~Unmet /\ ~Called /\ ~Keyed /\ ~Refused /\ ~Requesting /\ ~Finishing /\ ~Exited
  BY DEF Unmet, Called, Keyed, Refused, Requesting, Finishing, Serving, Exited
<1>5. Greeted => ToReceiver[1] = Msg("ping")
  BY <1>2, <1>3, PingsAppended DEF Greeted
<1>6. Answered => \/ ToReceiver[1] = Msg("ping")
                  \/ ToReceiver[1] = Msg("pake") /\ Tail(ToReceiver) = <<>>
  BY <1>2, <1>3, FirstOfOne DEF Answered
<1>7. Offered => \/ /\ state["receiver"] = "IpExchange"
                    /\ ToReceiver = <<Msg("externalip"), Msg("fileinfo")>>
                 \/ /\ state["receiver"] = "FileInfoTransfare"
                    /\ ToReceiver = <<Msg("fileinfo")>>
  BY DEF Offered
<1>8. Returned => ToSender = <<>> /\ ToReceiver = <<Msg("finished")>>
  BY DEF Returned
<1> QED
  BY <1>1, <1>4, <1>5, <1>6, <1>7, <1>8 DEF Conversation

-----------------------------------------------------------------------------
(* Every step keeps the invariant.  First the sessions meet.               *)

LEMMA connect_IInv ==
  ASSUME IInv, NEW p \in Role, connect(p) PROVE IInv'
<1>1. TypeOK /\ Conversation /\ RoomInv
  BY DEF IInv
<1>2. TypeOK'
  BY <1>1, connect_TypeOK
<1>3. /\ pc[p] = "connect" /\ pc' = [pc EXCEPT ![p] = IF p = "sender" THEN "keepalive" ELSE "net"]
      /\ offer' = offer /\ state' = state /\ NoneRequested' = NoneRequested
      /\ Send(p, IF p = "sender" THEN <<>> ELSE <<Msg("handshake")>>)
      /\ joined' = [joined EXCEPT !.control = Append(@, p)]
  BY DEF connect, Goto, given, loops, NoneRequested
<1>4. /\ pc \in [Role -> PC] /\ joined \in [control : Seq(Role), data : Seq(Role)]
      /\ \A r \in Role : inbox[r] \in Seq(Message)
      /\ Msg("handshake") \in Message
  BY <1>1, TypeParts, MessagesAre DEF SessionType, MsgType
<1>5. /\ inbox'[p] = inbox[p]
      /\ inbox'[Peer(p)] = inbox[Peer(p)] \o (IF p = "sender" THEN <<>> ELSE <<Msg("handshake")>>)
  BY <1>1, <1>3, Sends, Messages DEF MsgType
<1>6. ASSUME p = "sender" PROVE Conversation'
  <2>1. inbox'["receiver"] = inbox["receiver"] /\ inbox'["sender"] = inbox["sender"]
    BY <1>4, <1>5, <1>6, AppendNone
  <2>2. pc'["sender"] = "keepalive" /\ pc'["receiver"] = pc["receiver"]
    BY <1>3, <1>4, <1>6
  <2>3. Unmet \/ Called \/ Greeted
    BY <1>1, <1>3, <1>6 DEF Conversation, Answered, Keyed, Offered, Refused, Requesting,
       Finishing, Serving, Returned, Exited
  <2>4. Unmet => Unmet'
    BY <1>3, <1>6, <2>1, <2>2 DEF Unmet
  <2>5. Called => Called'
    BY <1>3, <1>6, <2>1, <2>2 DEF Called
  <2>6. Greeted => Greeted'
    BY <1>3, <1>6, <2>1, <2>2 DEF Greeted
  <2> QED
    BY <2>3, <2>4, <2>5, <2>6 DEF Conversation
<1>7. ASSUME p = "receiver" PROVE Conversation'
  <2>1. pc'["receiver"] = "net" /\ pc'["sender"] = pc["sender"]
    BY <1>3, <1>4, <1>7
  <2>2. Unmet
    BY <1>1, <1>3, <1>7 DEF Conversation, Called, Greeted, Answered, Keyed, Offered, Refused,
       Requesting, Finishing, Serving, Returned, Exited
  <2>3. PingsThen(inbox'["sender"], <<Msg("handshake")>>) /\ inbox'["receiver"] = <<>>
    BY <1>4, <1>5, <1>7, <2>2, PingsAppended DEF Unmet
  <2>4. OnlyPings(<<>>)
    BY DEF OnlyPings
  <2>5. Called'
    BY <1>3, <2>1, <2>2, <2>3, <2>4 DEF Unmet, Called
  <2> QED
    BY <2>5 DEF Conversation
<1>8. RoomInv'
  <2>1. joined'.control = Append(joined.control, p)
    BY <1>3, <1>4
  <2>2. joined.control = <<>> => joined'.control = <<p>>
    BY <2>1
  <2>3. \A r : joined.control = <<r>> => Len(joined'.control) = 2
    BY <2>1
  <2> QED
    BY <1>1, <1>3, <1>4, <2>2, <2>3 DEF RoomInv
<1>9. Conversation'
  BY <1>6, <1>7
<1> QED
  BY <1>2, <1>8, <1>9 DEF IInv

LEMMA handle_keepalive_IInv ==
  ASSUME IInv, NEW p \in Role, handle_keepalive(p) PROVE IInv'
<1>1. TypeOK /\ Conversation /\ RoomInv
  BY DEF IInv
<1>2. p = "sender"
  BY <1>1 DEF handle_keepalive, Conversation, Unmet, Called, Greeted, Answered, Keyed, Offered,
     Refused, Requesting, Finishing, Serving, Returned, Exited
<1>3. /\ pc["sender"] = "keepalive" /\ ToSender # <<>>
      /\ pc' = [pc EXCEPT !["sender"] =
                  CASE Head(ToSender).type = "ping" -> "keepalive"
                    [] Head(ToSender).type = "handshake" -> "net"
                    [] OTHER -> "failed"]
      /\ inbox' = [inbox EXCEPT !["sender"] = Tail(@)]
      /\ UNCHANGED <<offer, state, joined, pings, refused, given, loops, pipeline>>
      /\ NoneRequested' = NoneRequested
  BY <1>2 DEF handle_keepalive, given, loops, NoneRequested
<1>4. /\ pc \in [Role -> PC] /\ inbox \in [Role -> Seq(Message)] /\ ToSender \in Seq(Message)
      /\ Msg("handshake") \in Message /\ Msg("pake") \in Message /\ Message' = Message
      /\ Msg("handshake").type = "handshake" /\ Msg("ping").type = "ping"
  BY <1>1, <1>3, TypeParts, MessagesAre DEF SessionType, MsgType, Message, files
<1>5. /\ ToSender' = Tail(ToSender) /\ ToReceiver' = ToReceiver
      /\ pc'["receiver"] = pc["receiver"]
      /\ Head(ToSender).type = "ping" => pc'["sender"] = "keepalive"
      /\ Head(ToSender).type = "handshake" => pc'["sender"] = "net"
  BY <1>3, <1>4
<1>6. Unmet \/ Called \/ Greeted
  BY <1>1, <1>3 DEF Conversation, Answered, Keyed, Offered, Refused, Requesting,
     Finishing, Serving, Returned, Exited
<1>7. ASSUME Unmet PROVE Unmet'
  <2>1. Head(ToSender) = Msg("ping") /\ OnlyPings(Tail(ToSender))
    BY <1>3, <1>4, <1>7, PingsAppended DEF Unmet
  <2> QED
    BY <1>3, <1>4, <1>5, <1>7, <2>1 DEF Unmet
<1>8. ASSUME Called PROVE Called'
  <2>1. PingsThen(ToSender, <<Msg("handshake")>>)
    BY <1>3, <1>8 DEF Called
  <2>2. \/ Head(ToSender) = Msg("handshake") /\ Tail(ToSender) = <<>>
        \/ Head(ToSender) = Msg("ping") /\ PingsThen(Tail(ToSender), <<Msg("handshake")>>)
    BY <1>4, <2>1, FirstOfOne
  <2> QED
    BY <1>3, <1>4, <1>5, <1>8, <2>2 DEF Called
<1>9. ASSUME Greeted PROVE Greeted'
  <2>1. PingsThen(ToSender, <<Msg("handshake"), Msg("pake")>>)
    BY <1>3, <1>9 DEF Greeted
  <2>2. \/ Head(ToSender) = Msg("handshake") /\ Tail(ToSender) = <<Msg("pake")>>
        \/ /\ Head(ToSender) = Msg("ping")
           /\ PingsThen(Tail(ToSender), <<Msg("handshake"), Msg("pake")>>)
    BY <1>4, <2>1, FirstOfTwo
  <2> QED
    BY <1>3, <1>4, <1>5, <1>9, <2>2 DEF Greeted
<1>10. Conversation'
  BY <1>6, <1>7, <1>8, <1>9 DEF Conversation
<1>11. TypeOK'
  <2>1. inbox' \in [Role -> Seq(Message')]
    BY <1>3, <1>4, TakeOne
  <2>2. pc' \in [Role -> PC]
    BY <1>3, <1>4 DEF PC, Ended
  <2> QED
    BY <1>1, <1>3, <2>1, <2>2, TalkTypes, TypeParts DEF SessionType
<1>12. RoomInv'
  <2>1. pc'["sender"] # "connect"
    BY <1>3, <1>4
  <2> QED
    BY <1>1, <1>3, <1>5, <2>1, RoomKept
<1> QED
  BY <1>10, <1>11, <1>12 DEF IInv

LEMMA process_client_IInv ==
  ASSUME IInv, NEW p \in Role, process_client(p) PROVE IInv'
<1>1. TypeOK /\ Conversation /\ RoomInv
  BY DEF IInv
<1>2. /\ pc[p] = "net" /\ pc' = [pc EXCEPT ![p] = "recv"]
      /\ Send(p, IF p = "receiver" THEN <<Msg("pake")>> ELSE <<>>)
      /\ joined' = [joined EXCEPT !.data = Append(@, p)]
      /\ UNCHANGED <<offer, state, pings, refused, given, loops, pipeline>>
      /\ NoneRequested' = NoneRequested
  BY DEF process_client, start_net_task, Goto, given, loops, NoneRequested
<1>3. /\ pc \in [Role -> PC] /\ joined \in [control : Seq(Role), data : Seq(Role)]
      /\ \A r \in Role : inbox[r] \in Seq(Message)
      /\ Msg("handshake") \in Message /\ Msg("pake") \in Message
  BY <1>1, TypeParts, MessagesAre DEF SessionType, MsgType
<1>4. /\ inbox'[p] = inbox[p] /\ inbox' \in [Role -> Seq(Message')]
      /\ inbox'[Peer(p)] = inbox[Peer(p)] \o (IF p = "receiver" THEN <<Msg("pake")>> ELSE <<>>)
  BY <1>1, <1>2, Sends, Messages DEF MsgType
<1>5. ASSUME p = "sender" PROVE Conversation'
  <2>1. inbox'["receiver"] = inbox["receiver"] /\ inbox'["sender"] = inbox["sender"]
    BY <1>3, <1>4, <1>5, AppendNone
  <2>2. pc'["sender"] = "recv" /\ pc'["receiver"] = pc["receiver"]
    BY <1>2, <1>3, <1>5
  <2>3. Called \/ Greeted
    BY <1>1, <1>2, <1>5 DEF Conversation, Unmet, Answered, Keyed, Offered, Refused, Requesting,
       Finishing, Serving, Returned, Exited
  <2>4. Called => Called'
    BY <1>2, <1>5, <2>1, <2>2 DEF Called
  <2>5. Greeted => Greeted'
    BY <1>2, <1>5, <2>1, <2>2 DEF Greeted
  <2> QED
    BY <2>3, <2>4, <2>5 DEF Conversation
<1>6. ASSUME p = "receiver" PROVE Conversation'
  <2>1. pc'["receiver"] = "recv" /\ pc'["sender"] = pc["sender"]
    BY <1>2, <1>3, <1>6
  <2>2. Called
    BY <1>1, <1>2, <1>6 DEF Conversation, Unmet, Greeted, Answered, Keyed, Offered, Refused,
       Requesting, Finishing, Serving, Returned, Exited
  <2>3. inbox'["receiver"] = inbox["receiver"] /\ inbox'["sender"] = inbox["sender"] \o <<Msg("pake")>>
    BY <1>4, <1>6
  <2>4. inbox["sender"] = <<>> => inbox'["sender"] = <<Msg("pake")>>
    BY <1>3, <2>3, FewWords
  <2>5. PingsThen(inbox["sender"], <<Msg("handshake")>>)
          => PingsThen(inbox'["sender"], <<Msg("handshake"), Msg("pake")>>)
    BY <1>3, <2>3, WordAppended
  <2>6. Greeted'
    BY <1>2, <2>1, <2>2, <2>3, <2>4, <2>5 DEF Called, Greeted
  <2> QED
    BY <2>6 DEF Conversation
<1>7. RoomInv'
  BY <1>1, <1>2, <1>3 DEF RoomInv
<1>8. TypeOK'
  <2>1. joined' \in [control : Seq(Role), data : Seq(Role)]
    BY <1>1, <1>2, Joins
  <2>2. pc' \in [Role -> PC]
    BY <1>2, <1>3 DEF PC
  <2> QED
    BY <1>1, <1>2, <1>4, <2>1, <2>2, TalkTypes, TypeParts DEF SessionType
<1>9. Conversation'
  BY <1>5, <1>6
<1> QED
  BY <1>7, <1>8, <1>9 DEF IInv

LEMMA PingControl_IInv ==
  ASSUME IInv, PingControl PROVE IInv'
<1>1. TypeOK /\ Conversation /\ RoomInv
  BY DEF IInv
<1> DEFINE r == joined.control[1]
<1>2. /\ pings < MaxPings /\ Len(joined.control) = 1 /\ pings' = pings + 1
      /\ inbox' = [inbox EXCEPT ![r] = Append(@, Msg("ping"))]
      /\ UNCHANGED <<offer, pc, state, joined, refused, given, loops, pipeline>>
      /\ NoneRequested' = NoneRequested
  BY DEF PingControl, given, loops, NoneRequested
<1>3. /\ inbox \in [Role -> Seq(Message)] /\ Msg("ping") \in Message /\ Message' = Message
      /\ \A q \in Role : inbox[q] \in Seq(Message)
      /\ pc \in [Role -> PC] /\ state \in [Role -> ClientState] /\ pings \in 0..MaxPings
  BY <1>1, <1>2, TypeParts, MessagesAre DEF SessionType, MsgType, Message, files
<1>4. \/ r = "sender" /\ pc["sender"] # "connect" /\ pc["receiver"] = "connect"
      \/ r = "receiver" /\ pc["sender"] = "connect" /\ pc["receiver"] # "connect"
  BY <1>1, <1>2 DEF RoomInv
<1>5. \A q \in Role : OnlyPings(inbox[q]) => OnlyPings(Append(inbox[q], Msg("ping")))
  BY <1>3, PingsAppended
<1>6. ASSUME r = "sender" PROVE Conversation'
  <2>1. Unmet
    BY <1>1, <1>4, <1>6 DEF Conversation, Called, Greeted, Answered, Keyed, Offered, Refused,
       Requesting, Finishing, Serving, Returned, Exited
  <2>2. OnlyPings(inbox'["sender"]) /\ inbox'["receiver"] = inbox["receiver"]
    BY <1>2, <1>3, <1>5, <1>6, <2>1 DEF Unmet
  <2>3. Unmet'
    BY <1>2, <2>1, <2>2 DEF Unmet
  <2> QED
    BY <2>3 DEF Conversation
<1>7. ASSUME r = "receiver" PROVE Conversation'
  <2>1. Called \/ Greeted
    BY <1>1, <1>4, <1>7 DEF Conversation, Unmet, Answered, Keyed, Offered, Refused,
       Requesting, Finishing, Serving, Returned, Exited
  <2>2. OnlyPings(inbox'["receiver"]) /\ inbox'["sender"] = inbox["sender"]
    BY <1>2, <1>3, <1>5, <1>7, <2>1 DEF Called, Greeted
  <2>3. Called => Called'
    BY <1>2, <2>2 DEF Called
  <2>4. Greeted => Greeted'
    BY <1>2, <2>2 DEF Greeted
  <2> QED
    BY <2>1, <2>3, <2>4 DEF Conversation
<1>8. Conversation'
  BY <1>4, <1>6, <1>7
<1>9. TypeOK'
  <2>1. inbox' \in [Role -> Seq(Message')]
    BY <1>2, <1>3, <1>4, AppendProperties
  <2>2. pings' \in 0..MaxPings
    BY <1>2, <1>3, BoundsAssumption
  <2> QED
    BY <1>1, <1>2, <1>3, <2>1, <2>2, TalkTypes, TypeParts DEF SessionType
<1>10. RoomInv'
  BY <1>1, <1>2, RoomKept
<1> QED
  BY <1>8, <1>9, <1>10 DEF IInv

-----------------------------------------------------------------------------
(* The control messages.                                                   *)

LEMMA SenderTakes ==
  ASSUME TypeOK, Conversation, offer' = offer, NEW type, NEW msgs \in Seq(Message),
         Answer("sender", type, msgs)
  PROVE  /\ pc["sender"] = "recv" /\ inbox' \in [Role -> Seq(Message')]
         /\ ToSender \in Seq(Message) /\ ToSender # <<>>
         /\ ToSender' = Tail(ToSender) /\ ToReceiver' = ToReceiver \o msgs
         /\ type \in {"pake", "externalip", "error", "recipientready", "finished"}
         /\ type = "pake" => Greeted /\ ToSender' = <<>>
         /\ type = "externalip" => Keyed /\ ToSender' = <<>>
         /\ type = "error" => Refused /\ ToSender' = <<>>
         /\ type = "recipientready" =>
              /\ Requesting \/ Finishing
              /\ index > serving.file /\ Head(ToSender).num = serving.file + 1
         /\ type = "finished" => Finishing /\ index = serving.file /\ ToSender' = <<>>
<1>1. /\ pc["sender"] = "recv" /\ ToSender # <<>> /\ ToSender \in Seq(Message)
      /\ ToSender[1].type = type /\ inbox' \in [Role -> Seq(Message')]
      /\ ToSender' = Tail(ToSender) /\ ToReceiver' = ToReceiver \o msgs
  BY Answers
<1>2. /\ \A t \in MsgType : Msg(t).type = t /\ Msg(t) \in Message
      /\ \A i : Ready(i).type = "recipientready" /\ Ready(i).num = i
  BY MessagesAre
<1>3. \A m \in Message : Tail(<<m>>) = <<>>
  OBVIOUS
<1>4. Keyed => ToSender = <<Msg("externalip")>>
  BY DEF Keyed
<1>5. Len(ToSender) = 1 => Tail(ToSender) = <<>>
  <2>1. Len(ToSender) = 1 => Len(Tail(ToSender)) = 0 /\ Tail(ToSender) \in Seq(Message)
    BY <1>1, TakeOne
  <2> QED
    BY <2>1, EmptySeq
<1>6. Head(ToSender) = ToSender[1]
  OBVIOUS
<1>7. /\ type \in {"pake", "externalip", "error", "recipientready", "finished"}
      /\ type = "pake" => Greeted /\ ToSender = <<Msg("pake")>>
      /\ type = "externalip" => Keyed
      /\ type = "error" => Refused /\ ToSender = <<Msg("error")>>
      /\ type = "recipientready" =>
           /\ Requesting \/ Finishing
           /\ index > serving.file /\ ToSender[1].num = serving.file + 1
      /\ type = "finished" => Finishing /\ index = serving.file /\ Len(ToSender) = 1
  BY <1>1, <1>2, SenderReads DEF MsgType
<1> QED
  BY <1>1, <1>2, <1>3, <1>4, <1>5, <1>6, <1>7 DEF MsgType

LEMMA ReceiverTakes ==
  ASSUME TypeOK, Conversation, offer' = offer, NEW type, NEW msgs \in Seq(Message),
         Answer("receiver", type, msgs)
  PROVE  /\ pc["receiver"] = "recv" /\ inbox' \in [Role -> Seq(Message')]
         /\ ToReceiver \in Seq(Message) /\ ToReceiver # <<>>
         /\ ToReceiver' = Tail(ToReceiver) /\ ToSender' = ToSender \o msgs
         /\ type \in {"ping", "pake", "externalip", "fileinfo", "finished"}
         /\ type = "ping" => Greeted \/ Answered
         /\ type = "pake" => Answered /\ ToReceiver' = <<>>
         /\ type = "externalip" =>
              /\ Offered /\ state["receiver"] = "IpExchange"
              /\ ToReceiver' = <<Msg("fileinfo")>>
         /\ type = "fileinfo" =>
              /\ Offered /\ state["receiver"] = "FileInfoTransfare"
              /\ ToReceiver' = <<>>
         /\ type = "finished" => Returned /\ ToSender = <<>> /\ ToReceiver' = <<>>
<1>1. /\ pc["receiver"] = "recv" /\ ToReceiver # <<>> /\ ToReceiver \in Seq(Message)
      /\ ToReceiver[1].type = type /\ inbox' \in [Role -> Seq(Message')]
      /\ ToReceiver' = Tail(ToReceiver) /\ ToSender' = ToSender \o msgs
  BY Answers
<1>2. \A t \in MsgType : Msg(t).type = t /\ Msg(t) \in Message
  BY MessagesAre
<1>3. /\ \A m \in Message : Tail(<<m>>) = <<>>
      /\ \A m, n \in Message : Tail(<<m, n>>) = <<n>>
  BY FewWords
<1>4. /\ type \in {"ping", "pake", "externalip", "fileinfo", "finished"}
      /\ type = "ping" => Greeted \/ Answered
      /\ type = "pake" => Answered /\ Tail(ToReceiver) = <<>>
      /\ type = "externalip" =>
           /\ Offered /\ state["receiver"] = "IpExchange"
           /\ ToReceiver = <<Msg("externalip"), Msg("fileinfo")>>
      /\ type = "fileinfo" =>
           /\ Offered /\ state["receiver"] = "FileInfoTransfare"
           /\ ToReceiver = <<Msg("fileinfo")>>
      /\ type = "finished" =>
           Returned /\ ToSender = <<>> /\ ToReceiver = <<Msg("finished")>>
  BY <1>1, <1>2, ReceiverReads DEF MsgType
<1> QED
  BY <1>1, <1>2, <1>3, <1>4 DEF MsgType

LEMMA process_key_exchange_IInv ==
  ASSUME IInv, NEW p \in Role, process_key_exchange(p) PROVE IInv'
<1>1. TypeOK /\ Conversation /\ RoomInv
  BY DEF IInv
<1>2. /\ state' = [state EXCEPT ![p] = "IpExchange"]
      /\ UNCHANGED <<offer, pc, joined, pings, refused, given, loops, pipeline>>
      /\ NoneRequested' = NoneRequested
      /\ Answer(p, "pake", <<Msg(IF p = "sender" THEN "pake" ELSE "externalip")>>)
  BY DEF process_key_exchange, given, loops, NoneRequested
<1>3. /\ state \in [Role -> ClientState] /\ ToReceiver \in Seq(Message)
      /\ pc \in [Role -> PC] /\ Msg("pake") \in Message /\ Msg("externalip") \in Message
      /\ <<Msg("pake")>> \in Seq(Message) /\ <<Msg("externalip")>> \in Seq(Message)
  BY <1>1, TypeParts, MessagesAre DEF SessionType, MsgType
<1>4. ASSUME p = "sender" PROVE Conversation' /\ inbox' \in [Role -> Seq(Message')]
  <2>1. /\ Greeted /\ pc["sender"] = "recv" /\ ToSender' = <<>>
        /\ ToReceiver' = ToReceiver \o <<Msg("pake")>> /\ inbox' \in [Role -> Seq(Message')]
    BY <1>1, <1>2, <1>3, <1>4, SenderTakes
  <2>2. PingsThen(ToReceiver', <<Msg("pake")>>)
    BY <1>3, <2>1, PingsAppended DEF Greeted
  <2>3. Answered'
    BY <1>2, <1>3, <1>4, <2>1, <2>2 DEF Greeted, Answered
  <2> QED
    BY <2>1, <2>3 DEF Conversation
<1>5. ASSUME p = "receiver" PROVE Conversation' /\ inbox' \in [Role -> Seq(Message')]
  <2>1. /\ Answered /\ pc["receiver"] = "recv" /\ ToReceiver' = <<>>
        /\ ToSender' = ToSender \o <<Msg("externalip")>> /\ inbox' \in [Role -> Seq(Message')]
    BY <1>1, <1>2, <1>3, <1>5, ReceiverTakes
  <2>2. ToSender' = <<Msg("externalip")>>
    BY <1>3, <2>1, FewWords DEF Answered
  <2>3. Keyed'
    BY <1>2, <1>3, <1>5, <2>1, <2>2 DEF Answered, Keyed
  <2> QED
    BY <2>1, <2>3 DEF Conversation
<1>6. TypeOK'
  <2>1. state' \in [Role -> ClientState]
    BY <1>2, <1>3 DEF ClientState
  <2> QED
    BY <1>1, <1>2, <1>4, <1>5, <2>1, TalkTypes, TypeParts DEF SessionType
<1>7. RoomInv'
  BY <1>1, <1>2, RoomKept
<1> QED
  BY <1>4, <1>5, <1>6, <1>7 DEF IInv

LEMMA process_ip_exchange_IInv ==
  ASSUME IInv, NEW p \in Role, process_ip_exchange(p) PROVE IInv'
<1>1. TypeOK /\ Conversation /\ RoomInv
  BY DEF IInv
<1> DEFINE valid == state[p] = "IpExchange"
           words == IF valid /\ p = "sender" THEN <<Msg("externalip"), Msg("fileinfo")>>
                    ELSE <<>>
<1>2. /\ pc' = [pc EXCEPT ![p] = IF valid THEN @ ELSE "failed"]
      /\ state' = [state EXCEPT ![p] = IF ~valid THEN @
                                       ELSE IF p = "sender" THEN "FileTransfare"
                                       ELSE "FileInfoTransfare"]
      /\ UNCHANGED <<offer, joined, pings, refused, given, loops, pipeline>>
      /\ NoneRequested' = NoneRequested
      /\ Answer(p, "externalip", words)
  BY DEF process_ip_exchange, given, loops, NoneRequested
<1>3. /\ state \in [Role -> ClientState] /\ ToSender \in Seq(Message)
      /\ pc \in [Role -> PC] /\ Msg("externalip") \in Message /\ Msg("fileinfo") \in Message
      /\ words \in Seq(Message)
  BY <1>1, TypeParts, MessagesAre, Messages DEF SessionType, MsgType
<1> HIDE DEF words
<1>4. ASSUME p = "sender" PROVE Conversation' /\ inbox' \in [Role -> Seq(Message')]
  <2>1. /\ Keyed /\ pc["sender"] = "recv" /\ ToSender' = <<>>
        /\ ToReceiver' = ToReceiver \o words /\ inbox' \in [Role -> Seq(Message')]
    BY <1>1, <1>2, <1>3, <1>4, SenderTakes
  <2>2. valid /\ ToReceiver = <<>>
    BY <1>4, <2>1 DEF Keyed
  <2>3. ToReceiver' = <<Msg("externalip"), Msg("fileinfo")>>
    BY <1>3, <1>4, <2>1, <2>2, FewWords DEF words
  <2>4. Offered'
    BY <1>2, <1>3, <1>4, <2>1, <2>2, <2>3 DEF Keyed, Offered
  <2> QED
    BY <2>1, <2>4 DEF Conversation
<1>5. ASSUME p = "receiver" PROVE Conversation' /\ inbox' \in [Role -> Seq(Message')]
  <2>1. /\ Offered /\ pc["receiver"] = "recv" /\ ToReceiver' = <<Msg("fileinfo")>>
        /\ ToSender' = ToSender \o words /\ inbox' \in [Role -> Seq(Message')]
        /\ valid
    BY <1>1, <1>2, <1>3, <1>5, ReceiverTakes
  <2>2. ToSender' = ToSender
    BY <1>3, <1>5, <2>1, AppendNone DEF words
  <2>3. Offered'
    BY <1>2, <1>3, <1>5, <2>1, <2>2 DEF Offered
  <2> QED
    BY <2>1, <2>3 DEF Conversation
<1>6. valid
  <2>1. p = "sender" => Keyed
    BY <1>1, <1>2, <1>3, SenderTakes
  <2>2. p = "receiver" => valid
    BY <1>1, <1>2, <1>3, ReceiverTakes
  <2> QED
    BY <2>1, <2>2 DEF Keyed
<1>7. TypeOK'
  <2>1. state' \in [Role -> ClientState] /\ pc' \in [Role -> PC]
    BY <1>2, <1>3, <1>6 DEF ClientState
  <2> QED
    BY <1>1, <1>2, <1>4, <1>5, <2>1, TalkTypes, TypeParts DEF SessionType
<1>8. RoomInv'
  BY <1>1, <1>2, <1>3, <1>6, RoomKept
<1> QED
  BY <1>4, <1>5, <1>7, <1>8 DEF IInv

LEMMA recv_finished_IInv ==
  ASSUME IInv, NEW p \in Role, recv_finished(p) PROVE IInv'
<1>1. TypeOK /\ Conversation /\ RoomInv
  BY DEF IInv
<1>2. /\ pc' = [pc EXCEPT ![p] = "done"] /\ Answer(p, "finished", <<Msg("finished")>>)
      /\ UNCHANGED <<offer, state, joined, pings, refused, index, serving, given, loops, pipeline>>
  BY DEF recv_finished, given, loops
<1>3. /\ ToSender \in Seq(Message) /\ pc \in [Role -> PC] /\ Msg("finished") \in Message
      /\ <<Msg("finished")>> \in Seq(Message)
  BY <1>1, TypeParts, MessagesAre DEF SessionType, MsgType
<1>4. ASSUME p = "sender" PROVE Conversation' /\ inbox' \in [Role -> Seq(Message')]
  <2>1. /\ Finishing /\ pc["sender"] = "recv" /\ ToSender' = <<>> /\ index = serving.file
        /\ ToReceiver' = ToReceiver \o <<Msg("finished")>> /\ inbox' \in [Role -> Seq(Message')]
    BY <1>1, <1>2, <1>3, <1>4, SenderTakes
  <2>2. ToReceiver' = <<Msg("finished")>>
    BY <1>3, <2>1, FewWords DEF Finishing, Serving
  <2>3. Returned'
    BY <1>2, <1>3, <1>4, <2>1, <2>2 DEF Finishing, Serving, Returned, files
  <2> QED
    BY <2>1, <2>3 DEF Conversation
<1>5. ASSUME p = "receiver" PROVE Conversation' /\ inbox' \in [Role -> Seq(Message')]
  <2>1. /\ Returned /\ ToReceiver' = <<>> /\ ToSender = <<>> /\ pc["receiver"] = "recv"
        /\ ToSender' = ToSender \o <<Msg("finished")>> /\ inbox' \in [Role -> Seq(Message')]
    BY <1>1, <1>2, <1>3, <1>5, ReceiverTakes
  <2>2. ToSender' = <<Msg("finished")>>
    BY <1>3, <2>1, FewWords
  <2>3. Returned'
    BY <1>2, <1>3, <1>5, <2>1, <2>2 DEF Returned, files
  <2> QED
    BY <2>1, <2>3 DEF Conversation
<1>6. TypeOK'
  <2>1. pc' \in [Role -> PC]
    BY <1>2, <1>3 DEF PC, Ended
  <2> QED
    BY <1>1, <1>2, <1>4, <1>5, <2>1, TalkTypes, TypeParts DEF SessionType
<1>7. RoomInv'
  BY <1>1, <1>2, <1>3, RoomKept DEF Answer
<1> QED
  BY <1>4, <1>5, <1>6, <1>7 DEF IInv

LEMMA process_files_info_IInv ==
  ASSUME IInv, NEW p \in Role, process_files_info(p) PROVE IInv'
<1>1. TypeOK /\ Conversation /\ RoomInv
  BY DEF IInv
<1>2. /\ pc' = [pc EXCEPT ![p] = IF p = "sender" THEN "panicked"
                                 ELSE IF state[p] # "FileInfoTransfare" THEN "failed"
                                 ELSE "confirm"]
      /\ UNCHANGED <<offer, state, joined, pings, refused, given, loops, pipeline>>
      /\ NoneRequested' = NoneRequested
      /\ Answer(p, "fileinfo", <<>>)
  BY DEF process_files_info, given, loops, NoneRequested
<1>3. ToSender \in Seq(Message) /\ pc \in [Role -> PC] /\ <<>> \in Seq(Message)
  BY <1>1, TypeParts DEF SessionType
<1>4. p = "receiver"
  <2>1. ASSUME p = "sender" PROVE FALSE
    <3>1. Answer("sender", "fileinfo", <<>>) /\ offer' = offer
      BY <1>2, <2>1
    <3>2. "fileinfo" \in {"pake", "externalip", "error", "recipientready", "finished"}
      BY <1>1, <1>3, <3>1, SenderTakes
    <3> QED
      BY <3>2
  <2> QED
    BY <2>1
<1>5. /\ Offered /\ pc["receiver"] = "recv" /\ ToReceiver' = <<>> /\ ToSender' = ToSender \o <<>>
      /\ state["receiver"] = "FileInfoTransfare" /\ inbox' \in [Role -> Seq(Message')]
  BY <1>1, <1>2, <1>3, <1>4, ReceiverTakes
<1>6. ToSender' = ToSender
  BY <1>3, <1>5, AppendNone
<1>7. Offered'
  BY <1>2, <1>3, <1>4, <1>5, <1>6 DEF Offered
<1>8. TypeOK'
  <2>1. pc' \in [Role -> PC]
    BY <1>2, <1>3 DEF PC, Ended
  <2> QED
    BY <1>1, <1>2, <1>5, <2>1, TalkTypes, TypeParts DEF SessionType
<1>9. RoomInv'
  BY <1>1, <1>2, <1>3, <1>4, <1>5, RoomKept
<1> QED
  BY <1>7, <1>8, <1>9 DEF IInv, Conversation

\* Where a session is tells what it has been told.
LEMMA WhoIsAt ==
  ASSUME Conversation, NEW p \in Role
  PROVE  /\ pc[p] = "confirm" =>
              p = "receiver" /\ Offered /\ ToReceiver = <<>> /\ ToSender = <<>>
              /\ state["receiver"] = "FileInfoTransfare"
         /\ pc[p] \in {"request", "receive"} => p = "receiver" /\ Requesting
         /\ pc[p] = "send_file" => p = "sender" /\ (Requesting \/ Finishing)
BY DEF Conversation, Unmet, Called, Greeted, Answered, Keyed, Offered, Refused, Requesting,
   Finishing, Serving, Returned, Exited

LEMMA refuse_IInv ==
  ASSUME IInv, NEW p \in Role, refuse(p) PROVE IInv'
<1>1. TypeOK /\ Conversation /\ RoomInv
  BY DEF IInv
<1>2. /\ pc[p] = "confirm" /\ pc' = [pc EXCEPT ![p] = "failed"] /\ refused' = TRUE
      /\ Send(p, <<Msg("error")>>)
      /\ UNCHANGED <<offer, state, joined, pings, given, loops, pipeline>>
      /\ NoneRequested' = NoneRequested
  BY DEF refuse, Goto, given, loops, NoneRequested
<1>3. p = "receiver" /\ Offered /\ ToReceiver = <<>> /\ ToSender = <<>>
      /\ state["receiver"] = "FileInfoTransfare"
  BY <1>1, <1>2, WhoIsAt
<1>4. pc \in [Role -> PC] /\ <<Msg("error")>> \in Seq(Message) /\ Msg("error") \in Message
  BY <1>1, TypeParts, MessagesAre DEF SessionType, MsgType
<1>5. /\ ToReceiver' = <<>> /\ ToSender' = <<Msg("error")>>
      /\ inbox' \in [Role -> Seq(Message')]
  <2>1. <<>> \o <<Msg("error")>> = <<Msg("error")>>
    BY <1>4, FewWords
  <2> QED
    BY <1>1, <1>2, <1>3, <1>4, <2>1, Sends
<1>6. Refused'
  BY <1>2, <1>3, <1>4, <1>5 DEF Offered, Refused
<1>7. TypeOK'
  <2>1. pc' \in [Role -> PC]
    BY <1>2, <1>4 DEF PC, Ended
  <2> QED
    BY <1>1, <1>2, <1>5, <2>1, TalkTypes, TypeParts DEF SessionType
<1>8. RoomInv'
  BY <1>1, <1>2, <1>4, RoomKept
<1> QED
  BY <1>6, <1>7, <1>8 DEF IInv, Conversation

LEMMA create_empty_folders_IInv ==
  ASSUME IInv, NEW p \in Role, create_empty_folders(p) PROVE IInv'
<1>1. TypeOK /\ Conversation /\ RoomInv
  BY DEF IInv
<1>2. /\ pc[p] = "confirm" /\ pc' = [pc EXCEPT ![p] = "failed"]
      /\ UNCHANGED <<offer, state, inbox, joined, pings, refused, given, loops, pipeline>>
      /\ NoneRequested' = NoneRequested
  BY DEF create_empty_folders, Goto, given, loops, NoneRequested
<1>3. p = "receiver" /\ Offered /\ ToReceiver = <<>> /\ state["receiver"] = "FileInfoTransfare"
  BY <1>1, <1>2, WhoIsAt
<1>4. pc \in [Role -> PC]
  BY <1>1, TypeParts DEF SessionType
<1>5. Offered'
  BY <1>2, <1>3, <1>4 DEF Offered
<1>6. TypeOK'
  <2>1. pc' \in [Role -> PC] /\ Message' = Message
    BY <1>2, <1>4 DEF PC, Ended, Message, files
  <2> QED
    BY <1>1, <1>2, <2>1, TalkTypes, TypeParts DEF SessionType
<1>7. RoomInv'
  BY <1>1, <1>2, <1>4, RoomKept
<1> QED
  BY <1>5, <1>6, <1>7 DEF IInv, Conversation

LEMMA accept_IInv ==
  ASSUME IInv, NEW p \in Role, accept(p) PROVE IInv'
<1>1. TypeOK /\ Conversation /\ RoomInv
  BY DEF IInv
<1>2. /\ pc[p] = "confirm" /\ pc' = [pc EXCEPT ![p] = "request"]
      /\ state' = [state EXCEPT ![p] = "FileTransfare"]
      /\ UNCHANGED <<offer, inbox, joined, pings, refused, index, serving,
                     given, loops, pipeline>>
  BY DEF accept, Goto, given, loops
<1>3. p = "receiver" /\ Offered /\ ToReceiver = <<>> /\ ToSender = <<>>
  BY <1>1, <1>2, WhoIsAt
<1>4. pc \in [Role -> PC] /\ state \in [Role -> ClientState]
  BY <1>1, TypeParts DEF SessionType
<1>5. index = 0 /\ serving.file = 0
  BY <1>3 DEF Offered, NoneRequested
<1>6. Requests(ToSender)' /\ Len(ToSender') = index' - serving'.file
  <2>1. \A i \in 1..0 : FALSE
    OBVIOUS
  <2> QED
    BY <1>2, <1>3, <1>5, <2>1 DEF Requests
<1>7. Serving'
  BY <1>2, <1>3, <1>4, <1>5 DEF Serving, Offered
<1>8. Requesting'
  BY <1>2, <1>3, <1>4, <1>6, <1>7 DEF Requesting
<1>9. TypeOK'
  <2>1. /\ pc' \in [Role -> PC] /\ state' \in [Role -> ClientState] /\ Message' = Message
    BY <1>2, <1>4 DEF PC, ClientState, Message, files
  <2> QED
    BY <1>1, <1>2, <2>1, TalkTypes, TypeParts DEF SessionType
<1>10. RoomInv'
  BY <1>1, <1>2, <1>4, RoomKept
<1> QED
  BY <1>8, <1>9, <1>10 DEF IInv, Conversation

LEMMA accept_nothing_IInv ==
  ASSUME IInv, NEW p \in Role, accept_nothing(p) PROVE IInv'
<1>1. TypeOK /\ Conversation /\ RoomInv
  BY DEF IInv
<1>2. /\ pc[p] = "confirm" /\ pc' = [pc EXCEPT ![p] = "recv"]
      /\ state' = [state EXCEPT ![p] = "FileTransfared"]
      /\ Send(p, <<Msg("finished")>>) /\ ~offer.listed
      /\ UNCHANGED <<offer, joined, pings, refused, index, serving,
                     given, loops, pipeline>>
  BY DEF accept_nothing, Goto, given, loops
<1>3. p = "receiver" /\ Offered /\ ToReceiver = <<>> /\ ToSender = <<>>
  BY <1>1, <1>2, WhoIsAt
<1>4. /\ pc \in [Role -> PC] /\ state \in [Role -> ClientState]
      /\ Msg("finished") \in Message /\ <<Msg("finished")>> \in Seq(Message)
  BY <1>1, TypeParts, MessagesAre DEF SessionType, MsgType
<1>5. index = 0 /\ serving.file = 0
  BY <1>3 DEF Offered, NoneRequested
<1>6. /\ ToReceiver' = <<>> /\ ToSender' = <<Msg("finished")>>
      /\ inbox' \in [Role -> Seq(Message')]
  BY <1>1, <1>2, <1>3, <1>4, Sends, FewWords, ZenonT(40)
<1>7. /\ Requests(ToSender)' /\ Len(ToSender') = index' - serving'.file + 1
      /\ ToSender'[index' - serving'.file + 1] = Msg("finished")
  <2>1. (\A i \in 1..0 : FALSE) /\ Len(<<Msg("finished")>>) = 1
        /\ <<Msg("finished")>>[1] = Msg("finished")
    OBVIOUS
  <2> QED
    BY <1>2, <1>5, <1>6, <2>1 DEF Requests
<1>8. Serving'
  BY <1>2, <1>3, <1>4, <1>5, <1>6 DEF Serving, Offered
<1>9. index' = Len(files')
  BY <1>1, <1>2, <1>5, TypeParts, OffersAssumption DEF GivenType, files
<1>10. Finishing'
  BY <1>2, <1>3, <1>4, <1>7, <1>8, <1>9 DEF Finishing
<1>11. TypeOK'
  <2>1. pc' \in [Role -> PC] /\ state' \in [Role -> ClientState]
    BY <1>2, <1>4 DEF PC, ClientState
  <2> QED
    BY <1>1, <1>2, <1>6, <2>1, TalkTypes, TypeParts DEF SessionType
<1>12. RoomInv'
  BY <1>1, <1>2, <1>4, RoomKept
<1> QED
  BY <1>10, <1>11, <1>12 DEF IInv, Conversation

LEMMA recv_error_IInv ==
  ASSUME IInv, NEW p \in Role, recv_error(p) PROVE IInv'
<1>1. TypeOK /\ Conversation /\ RoomInv
  BY DEF IInv
<1>2. /\ pc' = [pc EXCEPT ![p] = "panicked"] /\ Answer(p, "error", <<>>)
      /\ UNCHANGED <<offer, state, joined, pings, refused, given, loops, pipeline>>
      /\ NoneRequested' = NoneRequested
  BY DEF recv_error, given, loops, NoneRequested
<1>3. ToReceiver \in Seq(Message) /\ pc \in [Role -> PC] /\ <<>> \in Seq(Message)
  BY <1>1, TypeParts DEF SessionType
<1>4. p = "sender"
  <2>1. ASSUME p = "receiver" PROVE FALSE
    <3>1. Answer("receiver", "error", <<>>) /\ offer' = offer
      BY <1>2, <2>1
    <3>2. "error" \in {"ping", "pake", "externalip", "fileinfo", "finished"}
      BY <1>1, <1>3, <3>1, ReceiverTakes
    <3> QED
      BY <3>2
  <2> QED
    BY <2>1
<1>5. /\ Refused /\ pc["sender"] = "recv" /\ ToSender' = <<>> /\ ToReceiver' = ToReceiver \o <<>>
      /\ inbox' \in [Role -> Seq(Message')]
  BY <1>1, <1>2, <1>3, <1>4, SenderTakes
<1>6. ToReceiver' = ToReceiver
  BY <1>3, <1>5, AppendNone
<1>7. Refused'
  BY <1>2, <1>3, <1>4, <1>5, <1>6 DEF Refused
<1>8. TypeOK'
  <2>1. pc' \in [Role -> PC]
    BY <1>2, <1>3 DEF PC, Ended
  <2> QED
    BY <1>1, <1>2, <1>5, <2>1, TalkTypes, TypeParts DEF SessionType
<1>9. RoomInv'
  BY <1>1, <1>2, <1>3, <1>4, <1>5, RoomKept
<1> QED
  BY <1>7, <1>8, <1>9 DEF IInv, Conversation

LEMMA recv_unparsable_IInv ==
  ASSUME IInv, NEW p \in Role, recv_unparsable(p) PROVE IInv'
<1>1. TypeOK /\ Conversation /\ RoomInv
  BY DEF IInv
<1>2. /\ pc' = [pc EXCEPT ![p] = "failed"] /\ Answer(p, "ping", <<>>)
      /\ UNCHANGED <<offer, state, joined, pings, refused, given, loops, pipeline>>
      /\ NoneRequested' = NoneRequested
  BY DEF recv_unparsable, given, loops, NoneRequested
<1>3. /\ ToSender \in Seq(Message) /\ pc \in [Role -> PC] /\ <<>> \in Seq(Message)
      /\ ToReceiver \in Seq(Message) /\ Msg("pake") \in Message
      /\ Msg("pake").type = "pake"
  BY <1>1, TypeParts, MessagesAre DEF SessionType, MsgType
<1>4. p = "receiver"
  <2>1. ASSUME p = "sender" PROVE FALSE
    <3>1. Answer("sender", "ping", <<>>) /\ offer' = offer
      BY <1>2, <2>1
    <3>2. "ping" \in {"pake", "externalip", "error", "recipientready", "finished"}
      BY <1>1, <1>3, <3>1, SenderTakes
    <3> QED
      BY <3>2
  <2> QED
    BY <2>1
<1>5. /\ Greeted \/ Answered
      /\ pc["receiver"] = "recv" /\ ToReceiver # <<>> /\ ToReceiver' = Tail(ToReceiver)
      /\ ToSender' = ToSender \o <<>> /\ inbox' \in [Role -> Seq(Message')]
  BY <1>1, <1>2, <1>3, <1>4, ReceiverTakes
<1>6. ToSender' = ToSender /\ Head(ToReceiver).type = "ping"
  BY <1>2, <1>3, <1>4, <1>5, AppendNone DEF Answer
<1>7. ASSUME Greeted PROVE Greeted'
  <2>1. OnlyPings(ToReceiver')
    BY <1>3, <1>5, <1>7, PingsAppended DEF Greeted
  <2> QED
    BY <1>2, <1>3, <1>4, <1>6, <1>7, <2>1 DEF Greeted
<1>8. ASSUME Answered PROVE Answered'
  <2>1. PingsThen(ToReceiver, <<Msg("pake")>>)
    BY <1>8 DEF Answered
  <2>2. PingsThen(ToReceiver', <<Msg("pake")>>)
    BY <1>3, <1>5, <1>6, <2>1, FirstOfOne
  <2> QED
    BY <1>2, <1>3, <1>4, <1>6, <1>8, <2>2 DEF Answered
<1>9. TypeOK'
  <2>1. pc' \in [Role -> PC]
    BY <1>2, <1>3 DEF PC, Ended
  <2> QED
    BY <1>1, <1>2, <1>5, <2>1, TalkTypes, TypeParts DEF SessionType
<1>10. RoomInv'
  BY <1>1, <1>2, <1>3, <1>4, <1>5, RoomKept
<1> QED
  BY <1>5, <1>7, <1>8, <1>9, <1>10 DEF IInv, Conversation

-----------------------------------------------------------------------------
(* The files are requested and sent.                                       *)

\* The sender takes the request for the file after the one it has served.
LEMMA RequestTaken ==
  ASSUME TypeOK, Requests(ToSender), index > serving.file,
         Len(ToSender) >= index - serving.file
  PROVE  \A i \in 1..(index - (serving.file + 1)) :
           Tail(ToSender)[i] = Ready(serving.file + 1 + i)
<1>1. /\ ToSender \in Seq(Message) /\ index \in Nat /\ serving.file \in Nat
      /\ Len(ToSender) \in Nat
  BY TypeParts DEF SessionType, LoopType
<1>2. ToSender # <<>>
  BY <1>1
<1>3. \A i \in 1..Len(ToSender) - 1 : Tail(ToSender)[i] = ToSender[i + 1]
  BY <1>1, <1>2, TakeOne
<1>4. ASSUME NEW i \in 1..(index - (serving.file + 1))
      PROVE  Tail(ToSender)[i] = Ready(serving.file + 1 + i)
  <2>1. i + 1 \in 1..(index - serving.file) /\ i \in 1..Len(ToSender) - 1
    BY <1>1
  <2>2. ToSender[i + 1] = Ready(serving.file + (i + 1))
    BY <2>1 DEF Requests
  <2>3. serving.file + (i + 1) = serving.file + 1 + i
    BY <1>1
  <2> QED
    BY <1>3, <2>1, <2>2, <2>3
<1> QED
  BY <1>4

LEMMA recv_recipientready_IInv ==
  ASSUME IInv, NEW p \in Role, recv_recipientready(p) PROVE IInv'
<1>1. TypeOK /\ Conversation /\ RoomInv
  BY DEF IInv
<1>2. /\ pc' = [pc EXCEPT ![p] = IF p = "sender" /\ state[p] = "FileTransfare"
                                 THEN "send_file" ELSE "panicked"]
      /\ serving' = [file |-> Head(inbox[p]).num, next |-> 0]
      /\ Answer(p, "recipientready", <<>>)
      /\ UNCHANGED <<offer, state, joined, pings, refused, index, amount, pinged, given,
                     pipeline>>
  BY DEF recv_recipientready, given
<1>3. /\ ToReceiver \in Seq(Message) /\ pc \in [Role -> PC] /\ <<>> \in Seq(Message)
      /\ index \in 0..Len(files) /\ serving.file \in 0..Len(files) /\ Len(ToSender) \in Nat
      /\ index \in Nat /\ serving.file \in Nat /\ Len(files) \in Nat
  BY <1>1, TypeParts, OffersAssumption DEF SessionType, LoopType, GivenType, files
<1>4. p = "sender"
  <2>1. ASSUME p = "receiver" PROVE FALSE
    <3>1. Answer("receiver", "recipientready", <<>>) /\ offer' = offer
      BY <1>2, <2>1
    <3>2. "recipientready" \in {"ping", "pake", "externalip", "fileinfo", "finished"}
      BY <1>1, <1>3, <3>1, ReceiverTakes
    <3> QED
      BY <3>2
  <2> QED
    BY <2>1
<1>5. /\ Requesting \/ Finishing
      /\ index > serving.file /\ Head(ToSender).num = serving.file + 1
      /\ pc["sender"] = "recv" /\ ToSender' = Tail(ToSender) /\ ToReceiver' = ToReceiver \o <<>>
      /\ inbox' \in [Role -> Seq(Message')] /\ ToSender \in Seq(Message) /\ ToSender # <<>>
  BY <1>1, <1>2, <1>3, <1>4, SenderTakes
<1>6. ToReceiver' = ToReceiver /\ serving' = [file |-> serving.file + 1, next |-> 0]
      /\ serving'.file = serving.file + 1
  BY <1>2, <1>3, <1>4, <1>5, AppendNone
<1>7. /\ Len(ToSender') = Len(ToSender) - 1
      /\ \A i \in 1..Len(ToSender) - 1 : ToSender'[i] = ToSender[i + 1]
  BY <1>5, TakeOne
<1>8. Requests(ToSender)'
  <2>1. Requests(ToSender) /\ Len(ToSender) >= index - serving.file
    BY <1>3, <1>5 DEF Requesting, Finishing
  <2>2. \A i \in 1..(index - (serving.file + 1)) :
           Tail(ToSender)[i] = Ready(serving.file + 1 + i)
    BY <1>1, <1>5, <2>1, RequestTaken
  <2> QED
    BY <1>2, <1>5, <1>6, <2>2 DEF Requests
<1>9. Serving' /\ pc'["receiver"] = pc["receiver"]
  <2>1. Serving
    BY <1>5 DEF Requesting, Finishing
  <2>2. pc'["sender"] = "send_file" /\ pc'["receiver"] = pc["receiver"]
    BY <1>2, <1>3, <1>4, <2>1 DEF Serving
  <2> QED
    BY <1>2, <1>3, <1>5, <1>6, <2>1, <2>2 DEF Serving
<1>10. ASSUME Requesting PROVE Requesting'
  <2>1. Len(ToSender') = index' - serving'.file
    BY <1>2, <1>3, <1>6, <1>7, <1>10 DEF Requesting
  <2> QED
    BY <1>2, <1>8, <1>9, <1>10, <2>1 DEF Requesting
<1>11. ASSUME Finishing PROVE Finishing'
  <2>1. Len(ToSender) = index - serving.file + 1
        /\ ToSender[index - serving.file + 1] = Msg("finished") /\ index = Len(files)
    BY <1>11 DEF Finishing
  <2>2. Len(ToSender') = index' - serving'.file + 1 /\ index' = Len(files')
    BY <1>2, <1>3, <1>6, <1>7, <2>1 DEF files
  <2>3. index' - serving'.file + 1 = index - serving.file
    <3>1. index' = index /\ serving'.file = serving.file + 1
      BY <1>2, <1>6
    <3>2. index - (serving.file + 1) + 1 = index - serving.file
      BY <1>3
    <3> QED
      BY <3>1, <3>2
  <2>4. ToSender'[index - serving.file] = ToSender[index - serving.file + 1]
    <3>1. index - serving.file \in 1..Len(ToSender) - 1
      <4>1. index - serving.file \in Nat \ {0}
        BY <1>3, <1>5
      <4>2. Len(ToSender) - 1 = index - serving.file
        BY <2>1, <4>1
      <4> QED
        BY <4>1, <4>2
    <3> QED
      BY <3>1, <1>7
  <2>5. ToSender'[index' - serving'.file + 1] = Msg("finished")
    BY <2>1, <2>3, <2>4
  <2> QED
    BY <1>2, <1>8, <1>9, <1>11, <2>2, <2>5 DEF Finishing
<1>12. TypeOK'
  <2>1. pc' \in [Role -> PC]
    BY <1>2, <1>3 DEF PC, Ended
  <2>2. GivenType' /\ DataType'
    BY <1>1, <1>2, GivenKept, DataKept
  <2>3. LoopType'
    BY <1>1, <1>2, <1>3, <1>5, <1>6, TypeParts, SMTT(40) DEF LoopType, files
  <2>4. SessionType'
    BY <1>1, <1>2, <1>5, <2>1, TypeParts DEF SessionType
  <2> QED
    BY <2>2, <2>3, <2>4, TypesTogether
<1>13. RoomInv'
  BY <1>1, <1>2, <1>3, <1>4, <1>5, RoomKept
<1> QED
  BY <1>5, <1>10, <1>11, <1>12, <1>13 DEF IInv, Conversation

LEMMA request_file_IInv ==
  ASSUME IInv, NEW p \in Role, request_file(p) PROVE IInv'
<1>1. TypeOK /\ Conversation /\ RoomInv
  BY DEF IInv
<1>2. /\ pc[p] = "request" /\ pc' = [pc EXCEPT ![p] = "receive"]
      /\ index < Len(files) /\ index' = index + 1 /\ amount' = 0
      /\ Send(p, <<Ready(index + 1)>>)
      /\ UNCHANGED <<offer, state, joined, pings, refused, serving, pinged, given,
                     pipeline>>
  BY DEF request_file, Goto, given
<1>3. p = "receiver" /\ Requesting
  BY <1>1, <1>2, WhoIsAt
<1>4. /\ pc \in [Role -> PC] /\ Len(files) \in Nat
      /\ index \in 0..Len(files) /\ serving.file \in 0..Len(files)
      /\ ToSender \in Seq(Message) /\ ToReceiver \in Seq(Message)
  BY <1>1, TypeParts, OffersAssumption DEF SessionType, LoopType, GivenType, files
<1>5. Ready(index + 1) \in Message /\ <<Ready(index + 1)>> \in Seq(Message)
  BY <1>2, <1>4, MessagesAre
<1>6. /\ ToReceiver' = ToReceiver /\ ToSender' = ToSender \o <<Ready(index + 1)>>
      /\ inbox' \in [Role -> Seq(Message')]
  BY <1>1, <1>2, <1>3, <1>5, Sends
<1>7. /\ Len(ToSender') = Len(ToSender) + 1 /\ ToSender'[Len(ToSender) + 1] = Ready(index + 1)
      /\ \A i \in 1..Len(ToSender) : ToSender'[i] = ToSender[i]
  BY <1>4, <1>5, <1>6, AppendOne
<1>8. /\ Len(ToSender) = index - serving.file /\ serving.file <= index
      /\ \A i \in 1..(index - serving.file) : ToSender[i] = Ready(serving.file + i)
  BY <1>3 DEF Requesting, Requests, Serving
<1>9. Requests(ToSender)' /\ Len(ToSender') = index' - serving'.file
  <2>1. ASSUME NEW i \in 1..(index + 1 - serving.file)
        PROVE  ToSender'[i] = Ready(serving.file + i)
    <3>1. CASE i = index + 1 - serving.file
      <4>1. serving.file + i = index + 1 /\ i = Len(ToSender) + 1
        BY <1>4, <1>8, <3>1
      <4> QED
        BY <1>7, <4>1
    <3>2. CASE i # index + 1 - serving.file
      <4>1. i \in 1..(index - serving.file)
        BY <1>4, <3>2, SMTT(40)
      <4> QED
        BY <1>7, <1>8, <4>1
    <3> QED
      BY <3>1, <3>2
  <2>2. Len(ToSender') = index + 1 - serving.file
    <3>1. index \in Nat /\ serving.file \in Nat
      BY <1>4
    <3> QED
      BY <1>7, <1>8, <3>1
  <2>3. index' = index + 1 /\ serving'.file = serving.file
    BY <1>2
  <2>4. index' - serving'.file = index + 1 - serving.file
    <3>1. index \in Nat /\ serving.file \in Nat
      BY <1>4
    <3> QED
      BY <2>3, <3>1
  <2>5. \A i \in 1..(index' - serving'.file) : ToSender'[i] = Ready(serving'.file + i)
    <3>1. \A i \in 1..(index + 1 - serving.file) : ToSender'[i] = Ready(serving.file + i)
      BY <2>1
    <3> QED
      BY <2>3, <2>4, <3>1
  <2> QED
    BY <2>2, <2>4, <2>5 DEF Requests
<1>10. pc'["receiver"] = "receive" /\ pc'["sender"] = pc["sender"]
  BY <1>2, <1>3, <1>4
<1>11. Serving' /\ index' > 0
  BY <1>2, <1>3, <1>4, <1>6, <1>10 DEF Requesting, Serving
<1>12. Requesting'
  BY <1>2, <1>3, <1>9, <1>10, <1>11 DEF Requesting
<1>13. TypeOK'
  <2>1. pc' \in [Role -> PC]
    BY <1>2, <1>4 DEF PC
  <2>2. GivenType' /\ DataType'
    BY <1>1, <1>2, GivenKept, DataKept
  <2>3. LoopType'
    BY <1>1, <1>2, <1>4, TypeParts DEF LoopType, files
  <2>4. SessionType'
    BY <1>1, <1>2, <1>6, <2>1, TypeParts DEF SessionType
  <2> QED
    BY <2>2, <2>3, <2>4, TypesTogether
<1>14. RoomInv'
  BY <1>1, <1>2, <1>3, <1>10, RoomKept
<1> QED
  BY <1>12, <1>13, <1>14 DEF IInv, Conversation

LEMMA file_received_IInv ==
  ASSUME IInv, NEW p \in Role, file_received(p) PROVE IInv'
<1>1. TypeOK /\ Conversation /\ RoomInv
  BY DEF IInv
<1>2. /\ pc[p] = "receive" /\ pc' = [pc EXCEPT ![p] = "request"]
      /\ UNCHANGED <<offer, state, inbox, joined, pings, refused, index, serving,
                     given, loops, pipeline>>
  BY DEF file_received, Goto, given, loops
<1>3. p = "receiver" /\ Requesting
  BY <1>1, <1>2, WhoIsAt
<1>4. pc \in [Role -> PC]
  BY <1>1, TypeParts DEF SessionType
<1>5. pc'["receiver"] = "request" /\ pc'["sender"] = pc["sender"]
  BY <1>2, <1>3, <1>4
<1>6. Requesting'
  BY <1>2, <1>3, <1>5 DEF Requesting, Serving, Requests
<1>7. TypeOK'
  <2>1. pc' \in [Role -> PC] /\ Message' = Message
    BY <1>2, <1>4 DEF PC, Message, files
  <2> QED
    BY <1>1, <1>2, <2>1, TalkTypes, TypeParts DEF SessionType
<1>8. RoomInv'
  BY <1>1, <1>2, <1>3, <1>5, RoomKept
<1> QED
  BY <1>6, <1>7, <1>8 DEF IInv, Conversation

LEMMA finish_IInv ==
  ASSUME IInv, NEW p \in Role, finish(p) PROVE IInv'
<1>1. TypeOK /\ Conversation /\ RoomInv
  BY DEF IInv
<1>2. /\ pc[p] = "request" /\ pc' = [pc EXCEPT ![p] = "recv"]
      /\ index = Len(files) /\ Send(p, <<Msg("finished")>>)
      /\ UNCHANGED <<offer, state, joined, pings, refused, index, serving, given, loops, pipeline>>
  BY DEF finish, Goto, given, loops
<1>3. p = "receiver" /\ Requesting
  BY <1>1, <1>2, WhoIsAt
<1>4. /\ pc \in [Role -> PC] /\ index \in Nat /\ serving.file \in Nat
      /\ ToSender \in Seq(Message) /\ ToReceiver \in Seq(Message)
      /\ Msg("finished") \in Message /\ <<Msg("finished")>> \in Seq(Message)
  BY <1>1, TypeParts, MessagesAre DEF SessionType, LoopType, MsgType
<1>5. /\ ToReceiver' = ToReceiver /\ ToSender' = ToSender \o <<Msg("finished")>>
      /\ inbox' \in [Role -> Seq(Message')]
  BY <1>1, <1>2, <1>3, <1>4, Sends
<1>6. /\ Len(ToSender') = Len(ToSender) + 1 /\ ToSender'[Len(ToSender) + 1] = Msg("finished")
      /\ \A i \in 1..Len(ToSender) : ToSender'[i] = ToSender[i]
  BY <1>4, <1>5, AppendOne
<1>7. Len(ToSender) = index - serving.file /\ Requests(ToSender) /\ Serving
  BY <1>3 DEF Requesting
<1>8. /\ Requests(ToSender)' /\ Len(ToSender') = index' - serving'.file + 1
      /\ ToSender'[index' - serving'.file + 1] = Msg("finished")
  BY <1>2, <1>6, <1>7 DEF Requests
<1>9. pc'["receiver"] = "recv" /\ pc'["sender"] = pc["sender"]
  BY <1>2, <1>3, <1>4
<1>10. Serving'
  BY <1>2, <1>5, <1>7, <1>9 DEF Serving
<1>11. Finishing'
  BY <1>2, <1>3, <1>8, <1>9, <1>10 DEF Requesting, Finishing, files
<1>12. TypeOK'
  <2>1. pc' \in [Role -> PC]
    BY <1>2, <1>4 DEF PC
  <2> QED
    BY <1>1, <1>2, <1>5, <2>1, TalkTypes, TypeParts DEF SessionType
<1>13. RoomInv'
  BY <1>1, <1>2, <1>3, <1>9, RoomKept
<1> QED
  BY <1>11, <1>12, <1>13 DEF IInv, Conversation

LEMMA file_sent_IInv ==
  ASSUME IInv, NEW p \in Role, file_sent(p) PROVE IInv'
<1>1. TypeOK /\ Conversation /\ RoomInv
  BY DEF IInv
<1>2. /\ pc[p] = "send_file" /\ pc' = [pc EXCEPT ![p] = "recv"]
      /\ UNCHANGED <<offer, state, inbox, joined, pings, refused, index, serving,
                     given, loops, pipeline>>
  BY DEF file_sent, Goto, given, loops
<1>3. p = "sender" /\ (Requesting \/ Finishing)
  BY <1>1, <1>2, WhoIsAt
<1>4. pc \in [Role -> PC]
  BY <1>1, TypeParts DEF SessionType
<1>5. pc'["sender"] = "recv" /\ pc'["receiver"] = pc["receiver"]
  BY <1>2, <1>3, <1>4
<1>6. Requesting => Requesting'
  BY <1>2, <1>5 DEF Requesting, Serving, Requests
<1>7. Finishing => Finishing'
  BY <1>2, <1>5 DEF Finishing, Serving, Requests, files
<1>8. TypeOK'
  <2>1. pc' \in [Role -> PC] /\ Message' = Message
    BY <1>2, <1>4 DEF PC, Message, files
  <2> QED
    BY <1>1, <1>2, <2>1, TalkTypes, TypeParts DEF SessionType
<1>9. RoomInv'
  BY <1>1, <1>2, <1>3, <1>5, RoomKept
<1> QED
  BY <1>3, <1>6, <1>7, <1>8, <1>9 DEF IInv, Conversation

-----------------------------------------------------------------------------
(* The data, and the end.                                                  *)

\* A step of the data that keeps its types keeps the invariant.
LEMMA DataStep ==
  ASSUME IInv, UNCHANGED <<given, pc, state, inbox, joined, refused, index>>,
         pings' \in 0..MaxPings, amount' \in Nat, pinged' \subseteq 1..Len(files),
         \/ serving' = serving
         \/ pc["sender"] = "send_file" /\ serving'.file = serving.file,
         serving' \in [file : 0..Len(files), next : Nat],
         DataType'
  PROVE  IInv'
<1>1. TypeOK /\ Conversation /\ RoomInv /\ offer' = offer
  BY DEF IInv, given
<1>2. TypeOK'
  <2>1. GivenType'
    BY <1>1, GivenKept
  <2>2. SessionType'
    BY <1>1, TypeParts DEF SessionType, Message, files
  <2>3. LoopType'
    BY <1>1, TypeParts DEF LoopType, files
  <2> QED
    BY <2>1, <2>2, <2>3, TypesTogether
<1>3. Conversation'
  BY <1>1, TalkKept
<1>4. RoomInv'
  BY <1>1, RoomKept
<1> QED
  BY <1>2, <1>3, <1>4 DEF IInv

LEMMA receive_chunk_IInv ==
  ASSUME IInv, NEW p \in Role, receive_chunk(p) PROVE IInv'
<1>1. TypeOK /\ Conversation
  BY DEF IInv
<1>2. /\ pc[p] = "receive" /\ wire # <<>> /\ wire' = Tail(wire)
      /\ writeQ' = Append(writeQ, [into |-> index, chunk |-> Head(wire)])
      /\ amount' = amount + 1
      /\ pinged' = IF Head(wire) = Ping THEN pinged \cup {index} ELSE pinged
      /\ UNCHANGED <<given, offer, session, pc, state, inbox, joined, pings, refused, index,
                     serving, readQ, encrypting, dataUp, decrypting, disk>>
  BY DEF receive_chunk, session, given
<1>3. p = "receiver" /\ Requesting
  BY <1>1, <1>2, WhoIsAt
<1>4. LoopType /\ DataType /\ SessionType /\ Len(files) \in Nat
  BY <1>1, TypeParts, OffersAssumption DEF GivenType, files
<1>5. index \in 1..Len(files)
  BY <1>2, <1>3, <1>4 DEF Requesting, LoopType
<1> DEFINE C == [file : 0..Len(files), num : Nat]
           D == [into : 1..Len(files), chunk : C]
<1>6. wire \in Seq(C) /\ writeQ \in Seq(D)
  BY <1>4 DEF DataType
<1>7. Head(wire) \in C /\ Tail(wire) \in Seq(C)
  <2> HIDE DEF C
  <2> QED
    BY <1>2, <1>6, TakeOne
<1>8. [into |-> index, chunk |-> Head(wire)] \in D
  BY <1>5, <1>7
<1>9. Append(writeQ, [into |-> index, chunk |-> Head(wire)]) \in Seq(D)
  <2> HIDE DEF D
  <2> QED
    BY <1>6, <1>8, AppendProperties
<1>10. DataType'
  BY <1>2, <1>4, <1>7, <1>9 DEF DataType, files
<1>11. pinged' \subseteq 1..Len(files)
  BY <1>2, <1>4, <1>5 DEF LoopType
<1> QED
  BY <1>2, <1>4, <1>10, <1>11, DataStep DEF LoopType, SessionType

LEMMA send_file_IInv ==
  ASSUME IInv, NEW p \in Role, send_file(p) PROVE IInv'
<1>1. TypeOK /\ Conversation
  BY DEF IInv
<1>2. /\ pc[p] = "send_file"
      /\ readQ' = Append(readQ, Chunk(serving.file, serving.next))
      /\ serving' = [serving EXCEPT !.next = @ + 1]
      /\ UNCHANGED <<given, offer, session, pc, state, inbox, joined, pings, refused, index,
                     amount, pinged, encrypting, wire, dataUp, writeQ, decrypting, disk>>
  BY DEF send_file, session, given
<1>3. p = "sender" /\ (Requesting \/ Finishing)
  BY <1>1, <1>2, WhoIsAt
<1>4. LoopType /\ DataType /\ SessionType /\ Len(files) \in Nat
  BY <1>1, TypeParts, OffersAssumption DEF GivenType, files
<1>5. serving.file \in 1..Len(files) /\ serving.next \in Nat
  BY <1>2, <1>3, <1>4 DEF Requesting, Finishing, Serving, LoopType
<1> DEFINE C == [file : 1..Len(files), num : Nat]
<1>6. Chunk(serving.file, serving.next) \in C
  BY <1>5 DEF Chunk
<1>7. Append(readQ, Chunk(serving.file, serving.next)) \in Seq(C)
  <2>1. readQ \in Seq(C)
    BY <1>4 DEF DataType
  <2> HIDE DEF C
  <2> QED
    BY <1>6, <2>1, AppendProperties
<1>8. DataType'
  BY <1>2, <1>4, <1>7 DEF DataType, files
<1>9. serving' \in [file : 0..Len(files), next : Nat] /\ serving'.file = serving.file
  BY <1>2, <1>4, <1>5 DEF LoopType
<1> QED
  BY <1>2, <1>3, <1>4, <1>8, <1>9, DataStep DEF LoopType, SessionType

LEMMA TaskStep_IInv ==
  ASSUME IInv, TaskStep PROVE IInv'
<1>1. /\ UNCHANGED <<given, offer, pc, state, inbox, joined, pings, refused, index, amount, serving,
                     pinged>>
  BY DEF TaskStep, fs_reader_task, encrypt_task, fs_writer_task, decrypt_task, session, loops, given
<1>2. LoopType /\ DataType /\ SessionType
  BY TypeParts DEF IInv
<1> DEFINE C == [file : 1..Len(files), num : Nat]
           W == [file : 0..Len(files), num : Nat]
           D == [into : 1..Len(files), chunk : W]
<1>3. C \subseteq W
  OBVIOUS
<1>4. readQ \in Seq(C) /\ encrypting \subseteq C /\ wire \in Seq(W) /\ writeQ \in Seq(D)
      /\ (\A d \in decrypting \cup disk : d \in D) /\ dataUp \in BOOLEAN
  BY <1>2 DEF DataType
<1> HIDE DEF C, W, D
<1>5. CASE fs_reader_task
  <2>1. Head(readQ) \in C /\ Tail(readQ) \in Seq(C)
    BY <1>4, <1>5, TakeOne DEF fs_reader_task
  <2>2. readQ' \in Seq(C) /\ encrypting' \subseteq C
        /\ UNCHANGED <<wire, dataUp, writeQ, decrypting, disk>>
    BY <1>4, <1>5, <2>1 DEF fs_reader_task
  <2>3. DataType'
    BY <1>1, <1>2, <2>2 DEF DataType, files, C
  <2> QED
    BY <1>1, <1>2, <2>3, DataStep DEF LoopType, SessionType
<1>6. CASE encrypt_task
  <2>1. PICK c \in encrypting :
          /\ encrypting' = encrypting \ {c}
          /\ wire' = Append(wire, c) \/ wire' = wire
          /\ UNCHANGED <<readQ, dataUp, writeQ, decrypting, disk>>
    BY <1>6 DEF encrypt_task
  <2>2. wire' \in Seq(W) /\ encrypting' \subseteq C
    BY <1>3, <1>4, <2>1, AppendProperties, SMTT(40)
  <2>3. DataType'
    BY <1>1, <1>2, <2>1, <2>2 DEF DataType, files, C, W
  <2> QED
    BY <1>1, <1>2, <2>3, DataStep DEF LoopType, SessionType
<1>7. CASE fs_writer_task
  <2>1. Head(writeQ) \in D /\ Tail(writeQ) \in Seq(D)
    BY <1>4, <1>7, TakeOne DEF fs_writer_task
  <2>2. /\ writeQ' \in Seq(D) /\ \A d \in decrypting' \cup disk' : d \in D
        /\ UNCHANGED <<readQ, encrypting, wire, dataUp>>
    BY <1>4, <1>7, <2>1 DEF fs_writer_task
  <2>3. DataType'
    BY <1>1, <1>2, <2>2 DEF DataType, files, W, D
  <2> QED
    BY <1>1, <1>2, <2>3, DataStep DEF LoopType, SessionType
<1>8. CASE decrypt_task
  <2>1. /\ decrypting' \cup disk' \subseteq decrypting \cup disk
        /\ UNCHANGED <<readQ, encrypting, wire, dataUp, writeQ>>
    BY <1>8 DEF decrypt_task
  <2>2. DataType'
    BY <1>1, <1>2, <2>1 DEF DataType, files
  <2> QED
    BY <1>1, <1>2, <2>2, DataStep DEF LoopType, SessionType
<1> QED
  BY <1>5, <1>6, <1>7, <1>8 DEF TaskStep

LEMMA PingData_IInv ==
  ASSUME IInv, PingData PROVE IInv'
<1>1. /\ pings < MaxPings /\ pings' = pings + 1 /\ wire' = Append(wire, Ping)
      /\ UNCHANGED <<given, offer, pc, state, inbox, joined, refused, index, amount, serving,
                     pinged, readQ, encrypting, dataUp, writeQ, decrypting, disk>>
  BY DEF PingData, loops, given
<1>2. LoopType /\ DataType /\ SessionType /\ Len(files) \in Nat
  BY TypeParts, OffersAssumption DEF IInv, GivenType, files
<1> DEFINE W == [file : 0..Len(files), num : Nat]
<1>3. Ping \in W /\ wire \in Seq(W)
  BY <1>2 DEF Ping, Chunk, DataType
<1>4. wire' \in Seq(W)
  <2> HIDE DEF W
  <2> QED
    BY <1>1, <1>3, AppendProperties
<1>5. DataType'
  BY <1>1, <1>2, <1>4 DEF DataType, files
<1>6. pings' \in 0..MaxPings
  BY <1>1, <1>2, BoundsAssumption DEF SessionType
<1> QED
  BY <1>1, <1>2, <1>5, <1>6, DataStep DEF LoopType

LEMMA data_breaks_IInv ==
  ASSUME IInv, data_breaks PROVE IInv'
<1>1. /\ dataUp' = FALSE
      /\ UNCHANGED <<given, offer, pc, state, inbox, joined, pings, refused, index, amount,
                     serving, pinged, readQ, encrypting, writeQ, decrypting, disk>>
  BY DEF data_breaks, loops, session, given
<1>2. LoopType /\ DataType /\ SessionType
  BY TypeParts DEF IInv
<1> DEFINE W == [file : 0..Len(files), num : Nat]
<1>3. wire \in Seq(W)
  BY <1>2 DEF DataType
<1>4. PICK n \in 0..Len(wire) : wire' = SubSeq(wire, 1, n)
  BY DEF data_breaks
<1>5. wire' \in Seq(W)
  <2> HIDE DEF W
  <2>1. Len(wire) \in Nat /\ \A i \in 1..n : i \in 1..Len(wire)
    BY <1>3
  <2> QED
    BY <1>3, <1>4, <2>1, SubSeqProperties
<1>6. DataType'
  BY <1>1, <1>2, <1>5 DEF DataType, files
<1> QED
  BY <1>1, <1>2, <1>6, DataStep DEF LoopType, SessionType

LEMMA exit_IInv ==
  ASSUME IInv, exit PROVE IInv'
<1>1. TypeOK /\ RoomInv
  BY DEF IInv
<1>2. /\ \A p \in Role : pc[p] \in Ended
      /\ pc' = [p \in Role |-> "exited"]
      /\ readQ' = <<>> /\ encrypting' = {} /\ wire' = <<>>
      /\ writeQ' = <<>> /\ decrypting' = {}
      /\ UNCHANGED <<given, offer, state, inbox, joined, pings, refused, loops, dataUp, disk>>
  BY DEF exit, given
<1>3. TypeOK'
  <2>1. GivenType' /\ LoopType'
    BY <1>1, <1>2, GivenKept, LoopsKept
  <2>2. SessionType'
    BY <1>1, <1>2, TypeParts DEF SessionType, PC, Message, files
  <2>3. DataType'
    BY <1>1, <1>2, TypeParts DEF DataType, files
  <2> QED
    BY <2>1, <2>2, <2>3, TypesTogether
<1>4. Exited'
  BY <1>2 DEF Exited
<1>5. RoomInv'
  BY <1>1, <1>2, RoomKept DEF Ended
<1> QED
  BY <1>3, <1>4, <1>5 DEF IInv, Conversation

-----------------------------------------------------------------------------
(* The theorems.                                                           *)

LEMMA Init_IInv == Init => IInv
<1> SUFFICES ASSUME Init PROVE IInv
  OBVIOUS
<1> USE DEF Init
<1>1. Len(files) \in Nat
  BY OffersAssumption DEF files
<1>2. TypeOK
  <2>1. GivenType
    BY DEF GivenType
  <2>2. SessionType
    <3>1. pc \in [Role -> PC] /\ state \in [Role -> ClientState]
      BY DEF PC, ClientState
    <3>2. <<>> \in Seq(Message) /\ <<>> \in Seq(Role)
      OBVIOUS
    <3>3. inbox \in [Role -> Seq(Message)]
      BY <3>2
    <3>4. joined \in [control : Seq(Role), data : Seq(Role)]
      BY <3>2
    <3>5. MaxPings \in Nat
      BY BoundsAssumption
    <3>6. pings \in 0..MaxPings
      BY <3>5
    <3>7. refused \in BOOLEAN
      OBVIOUS
    <3> QED
      BY <3>1, <3>3, <3>4, <3>6, <3>7 DEF SessionType
  <2>3. LoopType
    BY <1>1 DEF LoopType
  <2>4. DataType
    BY DEF DataType
  <2> QED
    BY <2>1, <2>2, <2>3, <2>4, TypeParts
<1>3. Unmet
  BY DEF Unmet, NoneRequested, OnlyPings
<1>4. RoomInv
  BY DEF RoomInv
<1> QED
  BY <1>2, <1>3, <1>4 DEF IInv, Conversation

LEMMA Next_IInv == IInv /\ [Next]_vars => IInv'
<1> SUFFICES ASSUME IInv, [Next]_vars PROVE IInv'
  OBVIOUS
<1>1. ASSUME NEW p \in Role, SessionStep(p) PROVE IInv'
  BY <1>1, connect_IInv, handle_keepalive_IInv, process_client_IInv, process_key_exchange_IInv,
     process_ip_exchange_IInv, recv_finished_IInv, process_files_info_IInv,
     create_empty_folders_IInv, accept_IInv, accept_nothing_IInv, recv_recipientready_IInv,
     recv_error_IInv, recv_unparsable_IInv, request_file_IInv, receive_chunk_IInv,
     file_received_IInv, finish_IInv, send_file_IInv, file_sent_IInv DEF SessionStep
<1>2. ASSUME NEW p \in Role, refuse(p) PROVE IInv'
  BY <1>2, refuse_IInv
<1>3. ASSUME UNCHANGED vars PROVE IInv'
  <2>1. UNCHANGED <<given, offer, pc, state, inbox, joined, pings, refused, index, amount, serving,
                    pinged, readQ, encrypting, wire, dataUp, writeQ, decrypting, disk>>
    BY <1>3 DEF vars, given, session, loops, pipeline
  <2>2. LoopType /\ DataType /\ SessionType
    BY TypeParts DEF IInv
  <2>3. DataType'
    BY <2>1, <2>2 DEF DataType, files
  <2> QED
    BY <2>1, <2>2, <2>3, DataStep DEF LoopType, SessionType
<1> QED
  BY <1>1, <1>2, <1>3, TaskStep_IInv, PingControl_IInv, PingData_IInv, data_breaks_IInv,
     exit_IInv DEF Next

THEOREM Invariance == Spec => []IInv
BY Init_IInv, Next_IInv, PTL DEF Spec

\* Whatever the offer, the secrets and the faults: all variables have their types,
\* and no index runs out of the list of files (client_session.rs:187-241).
THEOREM TypeCorrect == Spec => []TypeOK
<1>1. IInv => TypeOK
  BY DEF IInv
<1> QED
  BY <1>1, Invariance, PTL

\* No session panics (client_session.rs:154, 170-174, 329, 374-375) unless the user
\* has refused the files: every message arrives in a state that expects it.
THEOREM NoOtherPanic == Spec => []PanicMeansRefusal
<1>1. IInv => PanicMeansRefusal
  BY DEF IInv, Conversation, PanicMeansRefusal, Unmet, Called, Greeted, Answered, Keyed, Offered,
     Refused, Requesting, Finishing, Serving, Returned, Exited
<1> QED
  BY <1>1, Invariance, PTL

\* The sender's session returns after the receiver has gone through all the files
\* (client_session.rs:160-163, 187-241).
THEOREM SenderIsAfterTheFiles == Spec => []SenderReturnsAfterTheFiles
<1>1. IInv => SenderReturnsAfterTheFiles
  BY DEF IInv, Conversation, SenderReturnsAfterTheFiles, Unmet, Called, Greeted, Answered,
     Keyed, Offered, Refused, Requesting, Finishing, Serving, Returned, Exited
<1> QED
  BY <1>1, Invariance, PTL
=============================================================================
