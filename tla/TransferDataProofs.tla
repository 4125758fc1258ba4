------------------------- MODULE TransferDataProofs -------------------------
(***************************************************************************)
(* Proofs about the file data of Transfer, for every offer whose files     *)
(* have the sizes they are announced with, and queues of any size: where   *)
(* every chunk is, and what the receiver may conclude from counting.       *)
(***************************************************************************)
EXTENDS TransferProofs, FiniteSetTheorems

\* The sizes of the offered files are those they are announced with.
SizesKept ==
  \A o \in Offers : \A f \in DOMAIN o.files : o.files[f].announced = o.files[f].actual

\* send_file() has put chunk c in its queue.
Sent(c) ==
  \/ c.file < serving.file /\ c.num < files[c.file].actual
  \/ c.file = serving.file /\ c.num < serving.next

\* The chunks that have not left the sender are different ones, and no more than
\* those that send_file() has read.
QueueInv ==
  /\ IsFiniteSet(encrypting)
  /\ \A c \in encrypting : Sent(c)
  /\ \A i \in DOMAIN readQ : Sent(readQ[i]) /\ readQ[i] \notin encrypting
  /\ \A i, j \in DOMAIN readQ : readQ[i] = readQ[j] => i = j
  /\ serving.next <= (IF serving.file = 0 THEN 0 ELSE files[serving.file].actual)
  /\ pc["receiver"] = "exited" => readQ = <<>> /\ encrypting = {}

Behind == Cardinality(encrypting) + Len(readQ)

\* The messages on the way to the receiver's loop.
OnWire == {wire[i] : i \in DOMAIN wire}

\* The receiver has not counted a ping, and there is none on the way to it.
Clean == pinged = {} /\ Ping \notin OnWire

\* No ping is in the way of the count, and the receiver is still there.
Counting ==
  Clean /\ code # "apart" /\ pc["receiver"] \notin Ended \cup {"exited"}

\* What the receiver has counted, and what it will count, has been sent: for the
\* file it is at, or, when that one has not been served yet, not at all.
OnTheWay ==
  /\ serving.file = index => amount + Len(wire) <= serving.next
  /\ serving.file < index => wire = <<>> /\ amount = 0
  /\ pc["receiver"] # "receive" => wire = <<>>

\* While the data connection works nothing that was sent is missing, and the
\* receiver does not turn from a file before it has counted all of it.
Accounted ==
  /\ serving.file = index => amount + Len(wire) + Behind = serving.next
  /\ serving.file < index =>
       /\ Behind = 0
       /\ serving.file > 0 => serving.next = files[serving.file].actual
       /\ \A f \in serving.file + 1..index - 1 : files[f].actual = 0
  /\ pc["receiver"] # "receive" /\ index > 0 => amount >= files[index].announced
  /\ \A c \in encrypting : c.file = index
  /\ \A i \in DOMAIN readQ : readQ[i].file = index

CountInv == Counting => OnTheWay /\ (dataUp => Accounted)

\* A chunk is only where it belongs.
PlaceInv ==
  Clean =>
    /\ code = "apart" => wire = <<>>
    /\ \A i \in DOMAIN wire : wire[i].file = index /\ Sent(wire[i])
    /\ \A d \in Received : d.into = d.chunk.file /\ Sent(d.chunk)

Held(c) ==
  \/ c \in encrypting
  \/ \E i \in DOMAIN readQ : readQ[i] = c
  \/ \E i \in DOMAIN wire : wire[i] = c
  \/ \E d \in Received : d.chunk = c

\* Without any fault a chunk that was sent is somewhere.
CoverInv ==
  /\ Clean /\ code = "same" /\ dataUp
  /\ pc["receiver"] \notin {"failed", "panicked", "exited"}
  => \A w \in Wanted : Sent(w.chunk) => Held(w.chunk)

\* When the sender returns it has sent everything and nothing is on the way.
ReturnInv ==
  Clean /\ code # "apart" /\ dataUp /\ pc["sender"] = "done" =>
    /\ wire = <<>> /\ Behind = 0
    /\ \A w \in Wanted : Sent(w.chunk)

DataInv == QueueInv /\ CountInv /\ PlaceInv /\ CoverInv /\ ReturnInv

\* A chunk of one of the files.
Real(c) == c.file \in 1..Len(files) /\ c.num < files[c.file].actual

\* The files before file f are empty.
EmptyBefore(f) == \A g \in 1..f - 1 : files[g].announced = 0

\* Nothing has been taken off the data connection, nor has any file been passed
\* over that has something to take.
Untouched == Received = {} /\ amount = 0

\* The first message is a ping that the receiver has yet to count.
PingAhead ==
  /\ Untouched
  /\ wire[1] = Ping
  /\ code # "apart" =>
       /\ EmptyBefore(index)
       /\ pc["receiver"] # "receive" /\ index > 0 => files[index].announced = 0

\* Where pings are: ahead of all chunks, since the relay sends them only as long as
\* the sender is not in the data room, or in a data room that is not the sender's.
PingInv ==
  /\ pings = 0 => Clean
  /\ index = 0 => amount = 0
  /\ \A c \in OnWire : c # Ping => Real(c) /\ c.file <= index
  /\ \A d \in Received : d.chunk # Ping => Real(d.chunk) /\ d.chunk.file <= d.into
  /\ code = "apart" =>
       /\ OnWire \subseteq {Ping}
       /\ \A d \in Received : d.chunk = Ping
       /\ pinged = {} => Untouched
  /\ pinged = {} /\ Ping \in OnWire => PingAhead
  /\ code # "apart" /\ pinged # {} => \E f \in pinged : EmptyBefore(f)

-----------------------------------------------------------------------------
USE DEF Role, Peer, ToSender, ToReceiver, SenderAt, ReceiverAt

\* The files of the offer.
LEMMA FileFacts ==
  ASSUME TypeOK, SizesKept
  PROVE  /\ Len(files) \in Nat
         /\ \A f \in 1..Len(files) :
              files[f].actual \in Nat /\ files[f].announced = files[f].actual
<1>1. offer \in Offers /\ files \in Seq([announced : Nat, actual : Nat])
  BY TypeParts, OffersAssumption DEF GivenType, files
<1>2. \A f \in 1..Len(files) : files[f] \in [announced : Nat, actual : Nat] /\ f \in DOMAIN files
  BY <1>1, ElementOfSeq, LenProperties
<1> QED
  BY <1>1, <1>2 DEF SizesKept, files

LEMMA LoopFacts ==
  ASSUME TypeOK
  PROVE  /\ Len(files) \in Nat /\ index \in 0..Len(files) /\ amount \in Nat
         /\ serving \in [file : 0..Len(files), next : Nat]
         /\ serving.file \in 0..Len(files) /\ serving.next \in Nat
         /\ index \in Nat /\ serving.file \in Nat
<1>1. Len(files) \in Nat
  BY TypeParts, OffersAssumption DEF GivenType, files
<1> QED
  BY <1>1, TypeParts DEF LoopType

\* The sender's queues.
LEMMA BehindFacts ==
  ASSUME TypeOK, QueueInv
  PROVE  /\ Behind \in Nat /\ Cardinality(encrypting) \in Nat /\ Len(readQ) \in Nat
         /\ Behind = 0 => encrypting = {} /\ readQ = <<>>
         /\ readQ # <<>> => Len(readQ) > 0
         /\ encrypting # {} => Behind > 0
<1>1. /\ readQ \in Seq([file : 1..Len(files), num : Nat]) /\ IsFiniteSet(encrypting)
  BY TypeParts DEF DataType, QueueInv
<1>2. /\ Cardinality(encrypting) \in Nat /\ (Cardinality(encrypting) = 0 <=> encrypting = {})
  BY <1>1, FS_CardinalityType, FS_EmptySet
<1>3. Len(readQ) \in Nat /\ (Len(readQ) = 0 <=> readQ = <<>>)
  BY <1>1, EmptySeq
<1> QED
  BY <1>2, <1>3 DEF Behind

\* The wire.
LEMMA WireFacts ==
  ASSUME TypeOK
  PROVE  /\ wire \in Seq([file : 0..Len(files), num : Nat])
         /\ Len(wire) \in Nat /\ DOMAIN wire = 1..Len(wire)
         /\ Len(wire) = 0 <=> wire = <<>>
<1>1. wire \in Seq([file : 0..Len(files), num : Nat])
  BY TypeParts DEF DataType
<1> QED
  BY <1>1, EmptySeq, LenProperties

\* The chunks, wherever they are.
LEMMA ChunkFacts ==
  ASSUME TypeOK
  PROVE  /\ \A c \in encrypting : c.file \in Nat /\ c.file > 0 /\ c.num \in Nat
         /\ \A i \in DOMAIN readQ :
              readQ[i].file \in Nat /\ readQ[i].file > 0 /\ readQ[i].num \in Nat
         /\ \A i \in DOMAIN wire : wire[i].file \in Nat /\ wire[i].num \in Nat
         /\ \A d \in Received :
              d.into \in Nat /\ d.into > 0 /\ d.chunk.file \in Nat /\ d.chunk.num \in Nat
<1>1. Len(files) \in Nat /\ DataType
  BY TypeParts, LoopFacts
<1> DEFINE C == [file : 1..Len(files), num : Nat]
           W == [file : 0..Len(files), num : Nat]
           D == [into : 1..Len(files), chunk : W]
<1>2. readQ \in Seq(C) /\ wire \in Seq(W) /\ writeQ \in Seq(D) /\ encrypting \subseteq C
      /\ \A d \in decrypting \cup disk : d \in D
  BY <1>1 DEF DataType
<1>3. /\ \A i \in DOMAIN readQ : readQ[i] \in C
      /\ \A i \in DOMAIN wire : wire[i] \in W
      /\ \A i \in DOMAIN writeQ : writeQ[i] \in D
  <2> HIDE DEF C, W, D
  <2> QED
    BY <1>2, ElementOfSeq, LenProperties
<1>4. \A d \in Received : d \in D
  BY <1>2, <1>3 DEF Received
<1> QED
  BY <1>1, <1>2, <1>3, <1>4

\* The elements of Wanted.
LEMMA WantedAre ==
  ASSUME TypeOK, SizesKept
  PROVE  /\ \A w \in Wanted :
              /\ w.into = w.chunk.file /\ w.chunk.file \in 1..Len(files)
              /\ w.chunk = Chunk(w.chunk.file, w.chunk.num)
              /\ w = [into |-> w.chunk.file, chunk |-> w.chunk]
              /\ w.chunk.num \in Nat /\ w.chunk.num < files[w.chunk.file].actual
         /\ \A f \in 1..Len(files), k \in Nat :
              k < files[f].actual => [into |-> f, chunk |-> Chunk(f, k)] \in Wanted
<1>1. /\ DOMAIN files = 1..Len(files) /\ Len(files) \in Nat
      /\ \A f \in 1..Len(files) : files[f].actual \in Nat
  <2>1. files \in Seq([announced : Nat, actual : Nat])
    BY TypeParts, OffersAssumption DEF GivenType, files
  <2> QED
    BY <2>1, FileFacts, LenProperties
<1>2. ASSUME NEW w \in Wanted
      PROVE  /\ w.into = w.chunk.file /\ w.chunk.file \in 1..Len(files)
             /\ w.chunk = Chunk(w.chunk.file, w.chunk.num)
             /\ w = [into |-> w.chunk.file, chunk |-> w.chunk]
             /\ w.chunk.num \in Nat /\ w.chunk.num < files[w.chunk.file].actual
  <2>1. PICK f \in DOMAIN files : \E k \in 0..(files[f].actual - 1) :
          w = [into |-> f, chunk |-> Chunk(f, k)]
    BY DEF Wanted
  <2>2. PICK k \in 0..(files[f].actual - 1) : w = [into |-> f, chunk |-> Chunk(f, k)]
    BY <2>1
  <2>3. k \in Nat /\ k < files[f].actual /\ f \in 1..Len(files)
    BY <1>1, <2>2
  <2>4. w.into = f /\ w.chunk = Chunk(f, k) /\ Chunk(f, k).file = f /\ Chunk(f, k).num = k
    BY <2>2 DEF Chunk
  <2> QED
    BY <2>2, <2>3, <2>4
<1>3. ASSUME NEW f \in 1..Len(files), NEW k \in Nat, k < files[f].actual
      PROVE  [into |-> f, chunk |-> Chunk(f, k)] \in Wanted
  <2>1. k \in 0..(files[f].actual - 1) /\ f \in DOMAIN files
    BY <1>1, <1>3
  <2> QED
    BY <2>1 DEF Wanted
<1> QED
  BY <1>2, <1>3

-----------------------------------------------------------------------------
(* What the steps keep.                                                    *)

DataSame ==
  UNCHANGED <<given, loops, pipeline>>

\* A session that neither begins nor ends to count, and the sender not returning,
\* change nothing of where the data is.
LEMMA SessionOnly ==
  ASSUME DataInv, DataSame,
         pc'["receiver"] = "receive" <=> pc["receiver"] = "receive",
         pc["receiver"] \in Ended \cup {"exited"} => pc'["receiver"] = pc["receiver"],
         pc'["receiver"] # "exited",
         pc'["sender"] = "done" => pc["sender"] = "done"
  PROVE  DataInv'
<1>1. /\ UNCHANGED <<offer, code, index, amount, serving, readQ, encrypting, wire, dataUp,
                     writeQ, decrypting, disk>>
      /\ UNCHANGED <<files, Behind, Received, Wanted>> /\ (Clean' <=> Clean)
  BY DEF DataSame, given, loops, pipeline, files, Behind, Received, Wanted, Clean, OnWire
<1>2. \A c : (Sent(c) <=> Sent(c)') /\ (Held(c) <=> Held(c)')
  BY <1>1 DEF Sent, Held
<1>3. QueueInv'
  BY <1>1, <1>2 DEF DataInv, QueueInv
<1>4. Counting' => Counting
  BY <1>1 DEF Counting, Ended
<1>5. CountInv'
  BY <1>1, <1>4 DEF DataInv, CountInv, OnTheWay, Accounted
<1>6. PlaceInv'
  BY <1>1, <1>2 DEF DataInv, PlaceInv
<1>7. CoverInv'
  BY <1>1, <1>2 DEF DataInv, CoverInv, Ended
<1>8. ReturnInv'
  BY <1>1, <1>2 DEF DataInv, ReturnInv
<1> QED
  BY <1>3, <1>5, <1>6, <1>7, <1>8 DEF DataInv

LEMMA BothExit ==
  ASSUME Conversation
  PROVE  pc["receiver"] = "exited" <=> pc["sender"] = "exited"
<1>1. Exited => pc["receiver"] = "exited" /\ pc["sender"] = "exited"
  BY DEF Exited
<1>2. Exited \/ pc["receiver"] # "exited"
  BY DEF Conversation, Unmet, Called, Greeted, Answered, Keyed, Offered, Refused, Requesting,
     Finishing, Returned
<1>3. Exited \/ pc["sender"] # "exited"
  BY DEF Conversation, Unmet, Called, Greeted, Answered, Keyed, Offered, Refused, Requesting,
     Finishing, Serving, Returned
<1> QED
  BY <1>1, <1>2, <1>3

\* Steps that leave the sessions where they are and the data as well: stuttering, and
\* the pings of the control connection.
LEMMA DataStays ==
  ASSUME IInv, DataInv, UNCHANGED <<given, pc, loops, pipeline>> PROVE DataInv'
<1>1. DataSame
  BY DEF DataSame
<1>2. CASE pc["receiver"] # "exited"
  BY <1>1, <1>2, SessionOnly
<1>3. CASE pc["receiver"] = "exited"
  <2>1. /\ UNCHANGED <<offer, code, index, amount, serving, readQ, encrypting, wire, dataUp,
                       writeQ, decrypting, disk, files, Received>> /\ (Clean' <=> Clean)
    BY <1>1 DEF DataSame, given, loops, pipeline, files, Received, Clean, OnWire
  <2>2. \A c : Sent(c) <=> Sent(c)'
    BY <2>1 DEF Sent
  <2>3. QueueInv'
    BY <2>1, <2>2 DEF DataInv, QueueInv
  <2>4. PlaceInv'
    BY <2>1, <2>2 DEF DataInv, PlaceInv
  <2>5. CountInv' /\ CoverInv'
    BY <1>3 DEF CountInv, Counting, CoverInv
  <2>6. ReturnInv'
    <3>1. pc["sender"] = "exited"
      BY <1>3, BothExit DEF IInv
    <3> QED
      BY <3>1 DEF ReturnInv
  <2> QED
    BY <2>3, <2>4, <2>5, <2>6 DEF DataInv
<1> QED
  BY <1>2, <1>3

\* The steps of a session that leave the data alone and go on, or fail.
Talk(p) ==
  \/ connect(p) \/ handle_keepalive(p) \/ process_client(p)
  \/ process_key_exchange(p) \/ process_ip_exchange(p)
  \/ process_files_info(p) \/ create_empty_folders(p) \/ accept(p)
  \/ accept_nothing(p) \/ recv_error(p) \/ recv_unparsable(p)
  \/ finish(p) \/ file_sent(p) \/ refuse(p)

LEMMA TalkMoves ==
  ASSUME TypeOK, NEW p \in Role, Talk(p)
  PROVE  /\ DataSame /\ pings' = pings
         /\ pc' = [pc EXCEPT ![p] = pc'[p]]
         /\ pc'[p] \notin {"receive", "exited", "done"}
         /\ pc[p] \notin Ended \cup {"receive", "exited"}
<1>1. pc \in [Role -> PC]
  BY TypeParts DEF SessionType
<1>2. DataSame /\ pings' = pings
  BY DEF Talk, connect, handle_keepalive, process_client, process_key_exchange,
     process_ip_exchange, process_files_info, create_empty_folders, accept, accept_nothing,
     recv_error, recv_unparsable, finish, file_sent, refuse, DataSame, loops, pipeline, given
<1>3. pc' = [pc EXCEPT ![p] = pc'[p]] /\ pc'[p] \notin {"receive", "exited", "done"}
  <2>1. CASE connect(p) \/ process_client(p) \/ create_empty_folders(p) \/ accept(p)
             \/ accept_nothing(p) \/ finish(p) \/ file_sent(p) \/ refuse(p)
    BY <1>1, <2>1 DEF connect, process_client, create_empty_folders, accept, accept_nothing,
       finish, file_sent, refuse, Goto
  <2>2. CASE handle_keepalive(p)
    BY <1>1, <2>2 DEF handle_keepalive
  <2>3. CASE process_key_exchange(p)
    BY <1>1, <2>3 DEF process_key_exchange, Answer
  <2>4. CASE process_ip_exchange(p)
    BY <1>1, <2>4 DEF process_ip_exchange, Answer
  <2>5. CASE process_files_info(p)
    BY <1>1, <2>5 DEF process_files_info
  <2>6. CASE recv_error(p) \/ recv_unparsable(p)
    BY <1>1, <2>6 DEF recv_error, recv_unparsable
  <2> QED
    BY <2>1, <2>2, <2>3, <2>4, <2>5, <2>6 DEF Talk
<1>4. pc[p] \notin Ended \cup {"receive", "exited"}
  BY DEF Talk, connect, handle_keepalive, process_client, process_key_exchange,
     process_ip_exchange, process_files_info, create_empty_folders, accept, accept_nothing,
     recv_error, recv_unparsable, finish, file_sent, refuse, Goto, Answer, Ended
<1> QED
  BY <1>2, <1>3, <1>4

LEMMA TalkSteps ==
  ASSUME IInv, DataInv, NEW p \in Role, Talk(p) \/ (p = "receiver" /\ recv_finished(p))
  PROVE  DataInv'
<1>1. TypeOK /\ pc \in [Role -> PC]
  BY TypeParts DEF IInv, SessionType
<1>2. /\ DataSame /\ pings' = pings
      /\ pc' = [pc EXCEPT ![p] = pc'[p]]
      /\ pc'[p] \notin {"receive", "exited"} /\ (p = "sender" => pc'[p] # "done")
      /\ pc[p] \notin Ended \cup {"receive", "exited"}
  <2>1. CASE Talk(p)
    BY <1>1, <2>1, TalkMoves
  <2>2. CASE p = "receiver" /\ recv_finished(p)
    BY <1>1, <2>2 DEF recv_finished, Answer, DataSame, loops, pipeline, given, Ended
  <2> QED
    BY <2>1, <2>2
<1>3. pc["receiver"] # "exited" /\ pc["sender"] # "exited"
  <2>1. pc["receiver"] = "exited" <=> pc["sender"] = "exited"
    BY BothExit DEF IInv
  <2> QED
    BY <1>2, <2>1
<1>4. /\ pc'["receiver"] = "receive" <=> pc["receiver"] = "receive"
      /\ pc["receiver"] \in Ended \cup {"exited"} => pc'["receiver"] = pc["receiver"]
      /\ pc'["receiver"] # "exited"
  BY <1>1, <1>2, <1>3
<1>5. pc'["sender"] = "done" => pc["sender"] = "done"
  BY <1>1, <1>2
<1> QED
  BY <1>2, <1>4, <1>5, SessionOnly

-----------------------------------------------------------------------------
(* The control messages that move the files on.                            *)

\* The sender returns: the receiver has counted all that was sent for the last
\* file, so that nothing is left.
LEMMA recv_finished_DataInv ==
  ASSUME SizesKept, IInv, DataInv, recv_finished("sender") PROVE DataInv'
<1>1. TypeOK /\ Conversation
  BY DEF IInv
<1>2. /\ UNCHANGED <<offer, code, index, amount, serving, readQ, encrypting, wire, dataUp,
                     writeQ, decrypting, disk>>
      /\ UNCHANGED <<files, Behind, Received, Wanted>> /\ (Clean' <=> Clean)
      /\ pc' = [pc EXCEPT !["sender"] = "done"]
  BY DEF recv_finished, given, loops, pipeline, files, Behind, Received, Wanted, Clean, OnWire
<1>3. Finishing /\ index = serving.file
  <2>1. Msg("finished") \in Message /\ <<Msg("finished")>> \in Seq(Message)
    BY MessagesAre DEF MsgType
  <2>2. Answer("sender", "finished", <<Msg("finished")>>) /\ offer' = offer
    BY <1>2 DEF recv_finished
  <2> QED
    BY <1>1, <2>1, <2>2, SenderTakes
<1>4. pc \in [Role -> PC] /\ pc'["receiver"] = pc["receiver"]
  BY <1>1, <1>2, TypeParts DEF SessionType
<1>5. \A c : (Sent(c) <=> Sent(c)') /\ (Held(c) <=> Held(c)')
  BY <1>2 DEF Sent, Held
<1>6. QueueInv' /\ CountInv' /\ PlaceInv' /\ CoverInv'
  <2>1. QueueInv'
    BY <1>2, <1>4, <1>5 DEF DataInv, QueueInv
  <2>2. CountInv'
    BY <1>2, <1>4 DEF DataInv, CountInv, Counting, OnTheWay, Accounted
  <2>3. PlaceInv'
    BY <1>2, <1>5 DEF DataInv, PlaceInv
  <2>4. CoverInv'
    BY <1>2, <1>4, <1>5 DEF DataInv, CoverInv
  <2> QED
    BY <2>1, <2>2, <2>3, <2>4
<1>7. ReturnInv'
  <2>1. SUFFICES ASSUME Clean, code # "apart", dataUp
                 PROVE  wire = <<>> /\ Behind = 0 /\ \A w \in Wanted : Sent(w.chunk)
    BY <1>2, <1>5 DEF ReturnInv
  <2>2. pc["receiver"] = "recv" /\ index = Len(files)
    BY <1>3 DEF Finishing
  <2>3. OnTheWay /\ Accounted
    BY <2>1, <2>2 DEF DataInv, CountInv, Counting, Ended
  <2>4. wire = <<>> /\ Len(wire) = 0
    BY <2>2, <2>3 DEF OnTheWay
  <2>5. /\ Len(files) \in Nat /\ amount \in Nat /\ serving.next \in Nat /\ Behind \in Nat
        /\ \A f \in 1..Len(files) :
              files[f].actual \in Nat /\ files[f].announced = files[f].actual
    BY <1>1, FileFacts, LoopFacts, BehindFacts DEF DataInv
  <2>6. amount + Len(wire) + Behind = serving.next
    BY <1>3, <2>3 DEF Accounted
  <2>7. serving.next <= (IF index = 0 THEN 0 ELSE files[index].actual)
    BY <1>3 DEF DataInv, QueueInv
  <2>8. index > 0 => amount >= files[index].actual
    <3>1. index > 0 => amount >= files[index].announced
      BY <2>2, <2>3 DEF Accounted
    <3>2. index > 0 => index \in 1..Len(files)
      BY <2>2, <2>5
    <3> QED
      BY <2>5, <3>1, <3>2
  <2>9. /\ Behind = 0
        /\ index > 0 => serving.next = files[index].actual
    <3>1. index > 0 => files[index].actual \in Nat
      BY <2>2, <2>5
    <3>2. index \in Nat
      BY <2>2, <2>5
    <3>3. CASE index = 0
      BY <2>4, <2>5, <2>6, <2>7, <3>3
    <3>4. CASE index > 0
      BY <2>4, <2>5, <2>6, <2>7, <2>8, <3>1, <3>4
    <3> QED
      BY <3>2, <3>3, <3>4
  <2>10. ASSUME NEW w \in Wanted PROVE Sent(w.chunk)
    <3>1. w.chunk.file \in 1..Len(files) /\ w.chunk.num < files[w.chunk.file].actual
      BY <1>1, WantedAre
    <3>2. index > 0 /\ (w.chunk.file < index \/ w.chunk.file = index)
      BY <2>2, <2>5, <3>1
    <3> QED
      BY <1>3, <2>9, <3>1, <3>2 DEF Sent
  <2> QED
    BY <2>4, <2>9, <2>10
<1> QED
  BY <1>6, <1>7 DEF DataInv

\* The sender takes the next request: it has sent all of the file before.
LEMMA recv_recipientready_DataInv ==
  ASSUME SizesKept, IInv, DataInv, NEW p \in Role, recv_recipientready(p) PROVE DataInv'
<1>1. TypeOK /\ Conversation /\ ToReceiver \in Seq(Message) /\ <<>> \in Seq(Message)
  BY TypeParts DEF IInv, SessionType
<1>2. /\ UNCHANGED <<offer, code, index, amount, readQ, encrypting, wire, dataUp,
                     writeQ, decrypting, disk>>
      /\ UNCHANGED <<files, Behind, Received, Wanted>> /\ (Clean' <=> Clean)
      /\ Answer(p, "recipientready", <<>>)
      /\ serving' = [file |-> Head(inbox[p]).num, next |-> 0]
      /\ pc' = [pc EXCEPT ![p] = IF p = "sender" /\ state[p] = "FileTransfare"
                                 THEN "send_file" ELSE "panicked"]
  BY DEF recv_recipientready, given, pipeline, files, Behind, Received, Wanted, loops, Clean, OnWire
<1>3. p = "sender"
  <2>1. ASSUME p = "receiver" PROVE FALSE
    <3>1. Answer("receiver", "recipientready", <<>>) /\ offer' = offer
      BY <1>2, <2>1
    <3>2. "recipientready" \in {"ping", "pake", "externalip", "fileinfo", "finished"}
      BY <1>1, <3>1, ReceiverTakes
    <3> QED
      BY <3>2
  <2> QED
    BY <2>1
<1>4. /\ Requesting \/ Finishing
      /\ index > serving.file /\ Head(ToSender).num = serving.file + 1
  BY <1>1, <1>2, <1>3, SenderTakes
<1>5. serving'.file = serving.file + 1 /\ serving'.next = 0
  BY <1>2, <1>3, <1>4
<1>6. /\ pc \in [Role -> PC] /\ pc'["receiver"] = pc["receiver"]
      /\ pc'["sender"] \in {"send_file", "panicked"}
      /\ pc["receiver"] \notin Ended \cup {"exited"}
  BY <1>1, <1>2, <1>3, <1>4, TypeParts DEF SessionType, Requesting, Finishing, Ended
<1>7. /\ Len(files) \in Nat /\ index \in 0..Len(files) /\ index \in Nat /\ serving.file \in Nat
      /\ serving.next \in Nat /\ amount \in Nat
      /\ \A f \in 1..Len(files) :
            files[f].actual \in Nat /\ files[f].announced = files[f].actual
  BY <1>1, FileFacts, LoopFacts
<1>8. /\ serving.next <= (IF serving.file = 0 THEN 0 ELSE files[serving.file].actual)
  BY DEF DataInv, QueueInv
<1>9. ASSUME NEW c, c.file \in Nat, c.num \in Nat, Sent(c) PROVE Sent(c)'
  <2>1. CASE c.file < serving.file /\ c.num < files[c.file].actual
    <3>1. c.file < serving.file + 1
      BY <1>7, <1>9, <2>1
    <3> QED
      BY <1>2, <1>5, <2>1, <3>1 DEF Sent
  <2>2. CASE c.file = serving.file /\ c.num < serving.next
    <3>1. c.file < serving.file + 1 /\ c.file # 0
      BY <1>7, <1>8, <1>9, <2>2
    <3>2. c.file \in 1..Len(files)
      BY <1>4, <1>7, <2>2, <3>1
    <3>3. c.num < files[c.file].actual
      BY <1>7, <1>8, <1>9, <2>2, <3>1, <3>2
    <3> QED
      BY <1>2, <1>5, <3>1, <3>3 DEF Sent
  <2> QED
    BY <1>9, <2>1, <2>2 DEF Sent
<1>10. QueueInv'
  <2>1. \A c \in encrypting : Sent(c)'
    BY <1>1, <1>9, ChunkFacts DEF DataInv, QueueInv
  <2>2. \A i \in DOMAIN readQ : Sent(readQ[i])'
    BY <1>1, <1>2, <1>9, ChunkFacts DEF DataInv, QueueInv
  <2>3. serving'.next <= (IF serving'.file = 0 THEN 0 ELSE files'[serving'.file].actual)
    <3>1. serving.file + 1 \in 1..Len(files) /\ serving.file + 1 # 0
      BY <1>4, <1>7
    <3> QED
      BY <1>2, <1>5, <1>7, <3>1
  <2> QED
    BY <1>2, <1>6, <2>1, <2>2, <2>3 DEF DataInv, QueueInv, Ended
<1>11. CountInv'
  <2>1. SUFFICES ASSUME Counting PROVE OnTheWay' /\ (dataUp => Accounted')
    BY <1>2, <1>6 DEF CountInv, Counting
  <2>2. OnTheWay /\ (dataUp => Accounted)
    BY <2>1 DEF DataInv, CountInv
  <2>3. wire = <<>> /\ amount = 0 /\ Len(wire) = 0
    BY <1>4, <2>2 DEF OnTheWay
  <2>4. OnTheWay'
    BY <1>2, <1>5, <1>6, <2>2, <2>3 DEF OnTheWay
  <2>5. ASSUME dataUp PROVE Accounted'
    <3>1. /\ Behind = 0 /\ \A f \in serving.file + 1..index - 1 : files[f].actual = 0
          /\ pc["receiver"] # "receive" /\ index > 0 => amount >= files[index].announced
          /\ \A c \in encrypting : c.file = index
          /\ \A i \in DOMAIN readQ : readQ[i].file = index
      BY <1>4, <2>2, <2>5 DEF Accounted
    <3>2. serving.file + 1 < index => files[serving.file + 1].actual = 0
      <4>1. serving.file + 1 < index => serving.file + 1 \in serving.file + 1..index - 1
        BY <1>7
      <4> QED
        BY <3>1, <4>1
    <3>3. \A f \in (serving.file + 1) + 1..index - 1 : f \in serving.file + 1..index - 1
      BY <1>7
    <3> QED
      BY <1>2, <1>5, <1>6, <1>7, <2>3, <3>1, <3>2, <3>3 DEF Accounted
  <2> QED
    BY <2>4, <2>5
<1>12. PlaceInv'
  <2>1. ASSUME Clean
        PROVE  \A i \in DOMAIN wire : wire[i].file = index /\ Sent(wire[i])'
    BY <1>1, <1>2, <1>9, <2>1, ChunkFacts DEF DataInv, PlaceInv
  <2>2. ASSUME Clean
        PROVE  \A d \in Received : d.into = d.chunk.file /\ Sent(d.chunk)'
    BY <1>1, <1>9, <2>2, ChunkFacts DEF DataInv, PlaceInv
  <2> QED
    BY <1>2, <2>1, <2>2 DEF DataInv, PlaceInv
<1>13. CoverInv'
  <2>1. SUFFICES ASSUME Clean, code = "same", dataUp, NEW w \in Wanted, Sent(w.chunk)'
                 PROVE  Held(w.chunk)
    BY <1>2 DEF CoverInv, Held
  <2>2. /\ OnTheWay /\ Accounted
        /\ \A v \in Wanted : Sent(v.chunk) => Held(v.chunk)
    BY <1>6, <2>1 DEF DataInv, CountInv, Counting, CoverInv, Ended
  <2>3. w.chunk.file \in 1..Len(files) /\ w.chunk.num \in Nat
        /\ w.chunk.num < files[w.chunk.file].actual
    BY <1>1, WantedAre
  <2>4. serving.file > 0 => serving.next = files[serving.file].actual
    BY <1>4, <2>2 DEF Accounted
  <2>5. w.chunk.file < serving.file + 1
    BY <1>5, <2>1, <2>3 DEF Sent
  <2>6. CASE w.chunk.file < serving.file
    BY <2>2, <2>3, <2>6 DEF Sent
  <2>7. CASE w.chunk.file = serving.file
    <3>1. w.chunk.num < serving.next
      BY <2>3, <2>4, <2>7
    <3> QED
      BY <2>2, <2>7, <3>1 DEF Sent
  <2> QED
    BY <1>7, <2>3, <2>5, <2>6, <2>7
<1>14. ReturnInv'
  BY <1>6 DEF ReturnInv
<1> QED
  BY <1>10, <1>11, <1>12, <1>13, <1>14 DEF DataInv

-----------------------------------------------------------------------------
(* The loops of the two sessions over files and chunks.                    *)

\* The receiver turns to the next file: it has counted all of this one.
LEMMA request_file_DataInv ==
  ASSUME SizesKept, IInv, DataInv, NEW p \in Role, request_file(p) PROVE DataInv'
<1>1. TypeOK /\ Conversation
  BY DEF IInv
<1>2. /\ UNCHANGED <<offer, code, serving, readQ, encrypting, wire, dataUp,
                     writeQ, decrypting, disk>>
      /\ UNCHANGED <<files, Behind, Received, Wanted>> /\ (Clean' <=> Clean)
      /\ pc[p] = "request" /\ pc' = [pc EXCEPT ![p] = "receive"]
      /\ index < Len(files) /\ index' = index + 1 /\ amount' = 0
  BY DEF request_file, Goto, given, pipeline, files, Behind, Received, Wanted, loops, Clean, OnWire
<1>3. p = "receiver" /\ Requesting
  BY <1>1, <1>2, WhoIsAt
<1>4. /\ pc["receiver"] = "request" /\ pc'["receiver"] = "receive"
      /\ pc'["sender"] = pc["sender"] /\ pc["sender"] # "done"
      /\ serving.file <= index
  BY <1>1, <1>2, <1>3, TypeParts DEF SessionType, Requesting, Serving
<1>5. \A c : (Sent(c) <=> Sent(c)') /\ (Held(c) <=> Held(c)')
  BY <1>2 DEF Sent, Held
<1>6. /\ Len(files) \in Nat /\ index \in Nat /\ serving.file \in Nat
      /\ serving.next \in Nat /\ amount \in Nat /\ Behind \in Nat
      /\ Behind = 0 => encrypting = {} /\ readQ = <<>>
      /\ \A f \in 1..Len(files) :
            files[f].actual \in Nat /\ files[f].announced = files[f].actual
      /\ Len(wire) \in Nat /\ DOMAIN wire = 1..Len(wire) /\ (wire = <<>> => Len(wire) = 0)
  BY <1>1, FileFacts, LoopFacts, BehindFacts, WireFacts DEF DataInv
<1>7. QueueInv'
  BY <1>2, <1>4, <1>5 DEF DataInv, QueueInv
<1>8. CountInv'
  <2>1. SUFFICES ASSUME Counting PROVE OnTheWay' /\ (dataUp => Accounted')
    BY <1>2, <1>4 DEF CountInv, Counting, Ended
  <2>2. OnTheWay /\ (dataUp => Accounted) /\ wire = <<>>
    BY <1>4, <2>1 DEF DataInv, CountInv, OnTheWay
  <2>3. serving.file # index + 1
    BY <1>4, <1>6
  <2>4. OnTheWay'
    BY <1>2, <1>4, <2>2, <2>3 DEF OnTheWay
  <2>5. ASSUME dataUp PROVE Accounted'
    <3>1. Accounted
      BY <2>2, <2>5
    <3>2. index > 0 => index \in 1..Len(files)
      BY <1>2, <1>6
    <3>3. index > 0 => amount >= files[index].actual /\ files[index].actual \in Nat
      BY <1>4, <1>6, <3>1, <3>2 DEF Accounted
    <3>4. serving.next <= (IF serving.file = 0 THEN 0 ELSE files[serving.file].actual)
      BY DEF DataInv, QueueInv
    <3>5. Behind = 0 /\ (serving.file > 0 => serving.next = files[serving.file].actual)
      <4>1. CASE serving.file = index
        <5>1. amount + Behind = serving.next
          BY <1>6, <2>2, <3>1, <4>1 DEF Accounted
        <5>2. CASE index = 0
          BY <1>6, <3>4, <4>1, <5>1, <5>2
        <5>3. CASE index > 0
          BY <1>6, <3>3, <3>4, <4>1, <5>1, <5>3
        <5> QED
          BY <1>6, <5>2, <5>3
      <4>2. CASE serving.file < index
        BY <3>1, <4>2 DEF Accounted
      <4> QED
        BY <1>4, <1>6, <4>1, <4>2
    <3>6. \A f \in serving.file + 1..index : files[f].actual = 0
      <4>1. SUFFICES ASSUME NEW f \in serving.file + 1..index PROVE files[f].actual = 0
        OBVIOUS
      <4>2. serving.file < index /\ index > 0 /\ (f = index \/ f \in serving.file + 1..index - 1)
        BY <1>6, <4>1
      <4>3. amount = 0
        BY <2>2, <4>2 DEF OnTheWay
      <4>4. files[index].actual = 0
        BY <3>3, <4>2, <4>3
      <4> QED
        BY <3>1, <4>2, <4>4 DEF Accounted
    <3>7. index' - 1 = index
      BY <1>2, <1>6
    <3>8. encrypting = {} /\ readQ = <<>>
      BY <1>6, <3>5
    <3>9. /\ Behind' = 0
          /\ serving'.file > 0 => serving'.next = files'[serving'.file].actual
          /\ \A f \in serving'.file + 1..index' - 1 : files'[f].actual = 0
      <4>1. \A f \in serving.file + 1..index' - 1 : files[f].actual = 0
        BY <3>6, <3>7
      <4> QED
        BY <1>2, <3>5, <4>1
    <3>10. serving'.file # index' /\ pc'["receiver"] = "receive" /\ encrypting' = {} /\ readQ' = <<>>
      BY <1>2, <1>4, <2>3, <3>8
    <3> QED
      BY <3>9, <3>10 DEF Accounted
  <2> QED
    BY <2>4, <2>5
<1>9. PlaceInv'
  <2>1. SUFFICES ASSUME Clean
                 PROVE /\ code = "apart" => wire = <<>>
                       /\ \A i \in DOMAIN wire : wire[i].file = index + 1 /\ Sent(wire[i])
                       /\ \A d \in Received : d.into = d.chunk.file /\ Sent(d.chunk)
    BY <1>2, <1>5 DEF PlaceInv
  <2>2. wire = <<>>
    <3>1. code = "apart" => wire = <<>>
      BY <2>1 DEF DataInv, PlaceInv
    <3>2. code # "apart" => wire = <<>>
      BY <1>4, <2>1 DEF DataInv, CountInv, Counting, OnTheWay, Ended
    <3> QED
      BY <3>1, <3>2
  <2> QED
    BY <2>1, <2>2 DEF DataInv, PlaceInv
<1>10. CoverInv' /\ ReturnInv'
  BY <1>2, <1>4, <1>5 DEF DataInv, CoverInv, ReturnInv
<1> QED
  BY <1>7, <1>8, <1>9, <1>10 DEF DataInv

\* The loop over the chunks ends: there is none of this file on the wire.
LEMMA file_received_DataInv ==
  ASSUME SizesKept, IInv, DataInv, NEW p \in Role, file_received(p) PROVE DataInv'
<1>1. TypeOK /\ Conversation
  BY DEF IInv
<1>2. /\ UNCHANGED <<offer, code, index, amount, serving, readQ, encrypting, wire, dataUp,
                     writeQ, decrypting, disk>>
      /\ UNCHANGED <<files, Behind, Received, Wanted>> /\ (Clean' <=> Clean)
      /\ pc[p] = "receive" /\ pc' = [pc EXCEPT ![p] = "request"]
      /\ amount >= files[index].announced \/ (wire = <<>> /\ ~dataUp)
  BY DEF file_received, Goto, given, loops, pipeline, files, Behind, Received, Wanted, Clean, OnWire
<1>3. p = "receiver" /\ Requesting
  BY <1>1, <1>2, WhoIsAt
<1>4. /\ pc["receiver"] = "receive" /\ pc'["receiver"] = "request"
      /\ pc'["sender"] = pc["sender"] /\ index > 0 /\ serving.file <= index
  BY <1>1, <1>2, <1>3, TypeParts DEF SessionType, Requesting, Serving
<1>5. \A c : (Sent(c) <=> Sent(c)') /\ (Held(c) <=> Held(c)')
  BY <1>2 DEF Sent, Held
<1>6. QueueInv'
  BY <1>2, <1>4, <1>5 DEF DataInv, QueueInv
<1>7. CountInv'
  <2>1. SUFFICES ASSUME Counting PROVE OnTheWay' /\ (dataUp => Accounted')
    BY <1>2, <1>4 DEF CountInv, Counting, Ended
  <2>2. OnTheWay /\ (dataUp => Accounted)
    BY <2>1 DEF DataInv, CountInv
  <2>3. /\ Len(files) \in Nat /\ index \in 0..Len(files) /\ serving.file \in Nat
        /\ serving.next \in Nat /\ amount \in Nat /\ Len(wire) \in Nat
        /\ Len(wire) = 0 => wire = <<>>
        /\ \A f \in 1..Len(files) :
              files[f].actual \in Nat /\ files[f].announced = files[f].actual
    BY <1>1, FileFacts, LoopFacts, WireFacts
  <2>4. wire = <<>>
    <3>1. CASE serving.file < index
      BY <2>2, <3>1 DEF OnTheWay
    <3>2. CASE serving.file = index /\ amount >= files[index].announced
      <4>1. index \in 1..Len(files) /\ serving.file # 0
        BY <1>4, <2>3, <3>2
      <4>2. files[index].actual \in Nat /\ files[index].announced = files[index].actual
        BY <2>3, <4>1
      <4>3. serving.next <= files[index].actual
        BY <3>2, <4>1 DEF DataInv, QueueInv
      <4>4. amount + Len(wire) <= serving.next
        BY <2>2, <3>2 DEF OnTheWay
      <4>5. amount >= files[index].actual
        BY <3>2, <4>2
      <4>6. Len(wire) = 0
        BY <2>3, <4>2, <4>3, <4>4, <4>5
      <4> QED
        BY <2>3, <4>6
    <3>3. serving.file < index \/ serving.file = index
      BY <1>4, <2>3
    <3>4. wire = <<>> \/ amount >= files[index].announced
      BY <1>2
    <3> QED
      BY <3>1, <3>2, <3>3, <3>4
  <2>5. OnTheWay'
    BY <1>2, <2>2, <2>4 DEF OnTheWay
  <2>6. ASSUME dataUp PROVE Accounted'
    BY <1>2, <2>2, <2>6 DEF Accounted
  <2> QED
    BY <2>5, <2>6
<1>8. PlaceInv' /\ CoverInv' /\ ReturnInv'
  BY <1>2, <1>4, <1>5 DEF DataInv, PlaceInv, CoverInv, ReturnInv
<1> QED
  BY <1>6, <1>7, <1>8 DEF DataInv

\* The sender reads a chunk.
LEMMA send_file_DataInv ==
  ASSUME SizesKept, IInv, DataInv, NEW p \in Role, send_file(p) PROVE DataInv'
<1>1. TypeOK /\ Conversation
  BY DEF IInv
<1>0. PICK new : new = Chunk(serving.file, serving.next)
  OBVIOUS
<1>2. /\ UNCHANGED <<offer, code, pc, index, amount, encrypting, wire, dataUp,
                     writeQ, decrypting, disk>>
      /\ UNCHANGED <<files, Received, Wanted>> /\ (Clean' <=> Clean)
      /\ pc[p] = "send_file" /\ serving.next < files[serving.file].actual
      /\ readQ' = Append(readQ, new)
      /\ serving' = [serving EXCEPT !.next = @ + 1]
  BY <1>0 DEF send_file, given, session, files, Received, Wanted, loops, Clean, OnWire
<1>3. p = "sender" /\ (Requesting \/ Finishing)
  BY <1>1, <1>2, WhoIsAt
<1>4. /\ pc["sender"] = "send_file" /\ pc["receiver"] \notin Ended \cup {"exited"}
      /\ serving.file > 0 /\ serving.file <= index
  BY <1>2, <1>3 DEF Requesting, Finishing, Serving, Ended
<1>5. /\ Len(files) \in Nat /\ index \in Nat /\ serving.file \in 0..Len(files)
      /\ serving.next \in Nat /\ amount \in Nat /\ Len(wire) \in Nat
      /\ Cardinality(encrypting) \in Nat /\ Len(readQ) \in Nat /\ Behind \in Nat
      /\ \A f \in 1..Len(files) :
            files[f].actual \in Nat /\ files[f].announced = files[f].actual
  BY <1>1, FileFacts, LoopFacts, BehindFacts, WireFacts DEF DataInv
<1>6. serving'.file = serving.file /\ serving'.next = serving.next + 1
  BY <1>1, <1>2, LoopFacts
<1>7. /\ Len(readQ') = Len(readQ) + 1 /\ readQ'[Len(readQ) + 1] = new
      /\ \A i \in 1..Len(readQ) : readQ'[i] = readQ[i]
      /\ DOMAIN readQ = 1..Len(readQ) /\ DOMAIN readQ' = 1..Len(readQ) + 1
  <2>1. readQ \in Seq([file : 1..Len(files), num : Nat])
    BY <1>1, TypeParts DEF DataType
  <2>2. new \in [file : 1..Len(files), num : Nat]
    BY <1>0, <1>4, <1>5 DEF Chunk
  <2>3. Append(readQ, new) \in Seq([file : 1..Len(files), num : Nat])
    BY <2>1, <2>2, AppendProperties
  <2> QED
    BY <1>2, <2>1, <2>2, <2>3, AppendProperties, LenProperties
<1>8. new.file = serving.file /\ new.num = serving.next
  BY <1>0 DEF Chunk
<1>9. \A c : c.num \in Nat /\ Sent(c) => Sent(c)'
  BY <1>2, <1>5, <1>6 DEF Sent
<1>10. Sent(new)' /\ ~Sent(new)
  BY <1>2, <1>5, <1>6, <1>8 DEF Sent
<1>11. QueueInv'
  <2>1. QueueInv
    BY DEF DataInv
  <2>2. IsFiniteSet(encrypting') /\ \A c \in encrypting' : Sent(c)'
    BY <1>1, <1>2, <1>9, <2>1, ChunkFacts DEF QueueInv
  <2>3. ASSUME NEW i \in DOMAIN readQ' PROVE (Sent(readQ[i]) /\ readQ[i] \notin encrypting)'
    <3>1. CASE i \in 1..Len(readQ)
      <4>1. readQ'[i] = readQ[i] /\ Sent(readQ[i]) /\ readQ[i].num \in Nat
            /\ readQ[i] \notin encrypting
        BY <1>1, <1>7, <2>1, <3>1, ChunkFacts DEF QueueInv
      <4>2. \A c : c = readQ[i] => Sent(c)'
        BY <1>9, <4>1
      <4> QED
        BY <1>2, <4>1, <4>2
    <3>2. CASE i = Len(readQ) + 1
      <4>1. readQ'[i] = new /\ new \notin encrypting
        BY <1>7, <1>10, <2>1, <3>2 DEF QueueInv
      <4>2. \A c : c = new => Sent(c)'
        BY <1>2, <1>5, <1>6, <1>8 DEF Sent
      <4> QED
        BY <1>2, <4>1, <4>2
    <3> QED
      BY <1>5, <1>7, <3>1, <3>2
  <2>4. ASSUME NEW i \in DOMAIN readQ', NEW j \in DOMAIN readQ', readQ'[i] = readQ'[j]
        PROVE  i = j
    <3>1. \A k \in 1..Len(readQ) : readQ'[k] # new
      BY <1>7, <1>10, <2>1 DEF QueueInv
    <3>2. CASE i \in 1..Len(readQ) /\ j \in 1..Len(readQ)
      BY <1>7, <2>1, <2>4, <3>2 DEF QueueInv
    <3>3. CASE i = Len(readQ) + 1 \/ j = Len(readQ) + 1
      BY <1>5, <1>7, <2>4, <3>1, <3>3
    <3> QED
      BY <1>5, <1>7, <3>2, <3>3
  <2>5. serving'.next <= (IF serving'.file = 0 THEN 0 ELSE files'[serving'.file].actual)
    <3>1. serving.file \in 1..Len(files) /\ files[serving.file].actual \in Nat
      BY <1>4, <1>5
    <3> QED
      BY <1>2, <1>4, <1>5, <1>6, <3>1, SMTT(40)
  <2>6. pc'["receiver"] # "exited"
    BY <1>2, <1>4
  <2> QED
    BY <2>2, <2>3, <2>4, <2>5, <2>6 DEF QueueInv
<1>12. Behind' = Behind + 1
  BY <1>2, <1>5, <1>7 DEF Behind
<1>13. CountInv'
  <2>1. SUFFICES ASSUME Counting PROVE OnTheWay' /\ (dataUp => Accounted')
    BY <1>2 DEF CountInv, Counting
  <2>2. OnTheWay /\ (dataUp => Accounted)
    BY <2>1 DEF DataInv, CountInv
  <2>3. OnTheWay'
    BY <1>2, <1>5, <1>6, <2>2 DEF OnTheWay
  <2>4. ASSUME dataUp PROVE Accounted'
    <3>1. Accounted
      BY <2>2, <2>4
    <3>2. serving.file = index
      <4>1. serving.file < index => serving.next = files[serving.file].actual
        BY <1>4, <3>1 DEF Accounted
      <4>2. files[serving.file].actual \in Nat
        BY <1>4, <1>5
      <4>3. ~(serving.file < index)
        BY <1>2, <1>5, <4>1, <4>2
      <4> QED
        BY <1>4, <1>5, <4>3
    <3>3. amount + Len(wire) + Behind = serving.next
      BY <3>1, <3>2 DEF Accounted
    <3>4. amount' + Len(wire') + Behind' = serving'.next
      BY <1>2, <1>5, <1>6, <1>12, <3>3, SMTT(40)
    <3>5. \A i \in DOMAIN readQ' : readQ'[i].file = index'
      <4>1. \A i \in DOMAIN readQ : readQ[i].file = index
        BY <3>1 DEF Accounted
      <4> QED
        BY <1>2, <1>5, <1>7, <1>8, <3>2, <4>1
    <3>6. ~(serving'.file < index')
      BY <1>2, <1>5, <1>6, <3>2
    <3>7. /\ pc'["receiver"] # "receive" /\ index' > 0 => amount' >= files'[index'].announced
          /\ \A c \in encrypting' : c.file = index'
      BY <1>2, <3>1 DEF Accounted
    <3> QED
      BY <3>4, <3>5, <3>6, <3>7 DEF Accounted
  <2> QED
    BY <2>3, <2>4
<1>14. PlaceInv'
  <2>1. SUFFICES ASSUME Clean PROVE PlaceInv'
    BY <1>2 DEF PlaceInv
  <2>2. /\ code = "apart" => wire = <<>>
        /\ \A i \in DOMAIN wire : wire[i].file = index /\ Sent(wire[i])
        /\ \A d \in Received : d.into = d.chunk.file /\ Sent(d.chunk)
    BY <2>1 DEF DataInv, PlaceInv
  <2>3. \A i \in DOMAIN wire : \A c : c = wire[i] => Sent(c)'
    BY <1>1, <1>9, <2>2, ChunkFacts
  <2>4. \A d \in Received : Sent(d.chunk)'
    BY <1>1, <1>9, <2>2, ChunkFacts
  <2> QED
    BY <1>2, <2>2, <2>3, <2>4 DEF PlaceInv
<1>15. CoverInv'
  <2>1. SUFFICES ASSUME Clean, code = "same", dataUp,
                        NEW w \in Wanted, Sent(w.chunk)'
                 PROVE  Held(w.chunk)'
    BY <1>2 DEF CoverInv
  <2>2. CASE Sent(w.chunk)
    <3>1. Held(w.chunk)
      BY <1>4, <2>1, <2>2 DEF DataInv, CoverInv, Ended
    <3>2. (\E i \in DOMAIN readQ : readQ[i] = w.chunk) => \E i \in DOMAIN readQ' : readQ'[i] = w.chunk
      BY <1>5, <1>7
    <3> QED
      BY <1>2, <3>1, <3>2 DEF Held
  <2>3. CASE ~Sent(w.chunk)
    <3>1. w.chunk = Chunk(w.chunk.file, w.chunk.num) /\ w.chunk.num \in Nat
      BY <1>1, WantedAre
    <3>2. w.chunk.file = serving.file /\ w.chunk.num = serving.next
      BY <1>2, <1>5, <1>6, <2>1, <2>3, <3>1 DEF Sent
    <3>3. w.chunk = new
      BY <1>0, <3>1, <3>2
    <3> QED
      BY <1>5, <1>7, <3>3 DEF Held
  <2> QED
    BY <2>2, <2>3
<1>16. ReturnInv'
  BY <1>2, <1>4 DEF ReturnInv
<1> QED
  BY <1>11, <1>13, <1>14, <1>15, <1>16 DEF DataInv

-----------------------------------------------------------------------------
(* The tasks: chunks move from one place to the next.                      *)

\* What a queue holds when something is put into it or taken out.
LEMMA PutIn ==
  ASSUME NEW T, NEW q \in Seq(T), NEW x \in T
  PROVE  /\ Append(q, x) \in Seq(T) /\ Len(Append(q, x)) = Len(q) + 1 /\ Len(q) \in Nat
         /\ {Append(q, x)[i] : i \in DOMAIN Append(q, x)} = {q[i] : i \in DOMAIN q} \cup {x}
<1>1. /\ Append(q, x) \in Seq(T) /\ Len(Append(q, x)) = Len(q) + 1
      /\ \A i \in 1..Len(q) : Append(q, x)[i] = q[i]
      /\ Append(q, x)[Len(q) + 1] = x
  BY AppendProperties
<1>2. Len(q) \in Nat /\ DOMAIN q = 1..Len(q) /\ DOMAIN Append(q, x) = 1..Len(q) + 1
  BY <1>1, LenProperties
<1>3. {Append(q, x)[i] : i \in 1..Len(q) + 1} = {q[i] : i \in 1..Len(q)} \cup {x}
  <2>1. ASSUME NEW i \in 1..Len(q) + 1
        PROVE  Append(q, x)[i] \in {q[j] : j \in 1..Len(q)} \cup {x}
    <3>1. i \in 1..Len(q) \/ i = Len(q) + 1
      BY <1>2
    <3> QED
      BY <1>1, <3>1
  <2>2. \A i \in 1..Len(q) : i \in 1..Len(q) + 1 /\ Append(q, x)[i] = q[i]
    BY <1>1, <1>2
  <2>3. Len(q) + 1 \in 1..Len(q) + 1 /\ Append(q, x)[Len(q) + 1] = x
    BY <1>1, <1>2
  <2> QED
    BY <2>1, <2>2, <2>3
<1> QED
  BY <1>1, <1>2, <1>3

LEMMA TakenOut ==
  ASSUME NEW T, NEW q \in Seq(T), q # <<>>
  PROVE  /\ Tail(q) \in Seq(T) /\ Len(Tail(q)) = Len(q) - 1 /\ Len(q) \in Nat /\ Len(q) > 0
         /\ Head(q) \in T /\ Head(q) = q[1]
         /\ {q[i] : i \in DOMAIN q} = {Tail(q)[i] : i \in DOMAIN Tail(q)} \cup {Head(q)}
<1>1. /\ Head(q) \in T /\ Head(q) = q[1] /\ Len(q) > 0 /\ Len(q) \in Nat
      /\ Tail(q) \in Seq(T) /\ Len(Tail(q)) = Len(q) - 1
      /\ \A i \in 1..Len(q) - 1 : Tail(q)[i] = q[i + 1]
  BY TakeOne
<1>2. DOMAIN q = 1..Len(q) /\ DOMAIN Tail(q) = 1..Len(q) - 1
  BY <1>1, LenProperties
<1>3. {q[i] : i \in 1..Len(q)} = {Tail(q)[i] : i \in 1..Len(q) - 1} \cup {Head(q)}
  <2>1. ASSUME NEW i \in 1..Len(q)
        PROVE  q[i] \in {Tail(q)[j] : j \in 1..Len(q) - 1} \cup {Head(q)}
    <3>1. CASE i = 1
      BY <1>1, <3>1
    <3>2. CASE i # 1
      <4>1. i - 1 \in 1..Len(q) - 1 /\ (i - 1) + 1 = i
        BY <1>1, <3>2
      <4>2. Tail(q)[i - 1] = q[i]
        BY <1>1, <4>1
      <4> QED
        BY <4>1, <4>2
    <3> QED
      BY <3>1, <3>2
  <2>2. \A i \in 1..Len(q) - 1 : i + 1 \in 1..Len(q) /\ Tail(q)[i] = q[i + 1]
    BY <1>1
  <2>3. 1 \in 1..Len(q) /\ Head(q) = q[1]
    BY <1>1
  <2> QED
    BY <2>1, <2>2, <2>3
<1> QED
  BY <1>1, <1>2, <1>3

\* The chunks of the sender's queue.
InReadQ == {readQ[i] : i \in DOMAIN readQ}

LEMMA Places ==
  /\ PlaceInv <=> (Clean =>
       /\ code = "apart" => wire = <<>>
       /\ \A c \in OnWire : c.file = index /\ Sent(c)
       /\ \A d \in Received : d.into = d.chunk.file /\ Sent(d.chunk))
  /\ \A c : Held(c) <=> c \in encrypting \cup InReadQ \cup OnWire
                        \/ \E d \in Received : d.chunk = c
<1>1. PlaceInv <=> (Clean =>
       /\ code = "apart" => wire = <<>>
       /\ \A c \in OnWire : c.file = index /\ Sent(c)
       /\ \A d \in Received : d.into = d.chunk.file /\ Sent(d.chunk))
  BY DEF PlaceInv, OnWire
<1>2. \A c : Held(c) <=> c \in encrypting \cup InReadQ \cup OnWire
                        \/ \E d \in Received : d.chunk = c
  BY DEF Held, OnWire, InReadQ
<1> QED
  BY <1>1, <1>2

LEMMA PlacesNext ==
  PlaceInv' <=> (Clean' =>
    /\ code' = "apart" => wire' = <<>>
    /\ \A c \in OnWire' : c.file = index' /\ Sent(c)'
    /\ \A d \in Received' : d.into = d.chunk.file /\ Sent(d.chunk)')
BY DEF PlaceInv, OnWire

LEMMA receive_chunk_DataInv ==
  ASSUME SizesKept, IInv, DataInv, NEW p \in Role, receive_chunk(p) PROVE DataInv'
<1>1. TypeOK /\ Conversation
  BY DEF IInv
<1>2. /\ UNCHANGED <<offer, code, pc, index, serving, readQ, encrypting, dataUp,
                     decrypting, disk>>
      /\ UNCHANGED <<files, Behind, Wanted, InReadQ>>
      /\ pc[p] = "receive" /\ amount' = amount + 1 /\ wire # <<>> /\ wire' = Tail(wire)
      /\ pinged' = (IF Head(wire) = Ping THEN pinged \cup {index} ELSE pinged)
      /\ writeQ' = Append(writeQ, [into |-> index, chunk |-> Head(wire)])
  BY DEF receive_chunk, given, session, files, Behind, Wanted, InReadQ
<1>3. p = "receiver" /\ Requesting
  BY <1>1, <1>2, WhoIsAt
<1>4. pc["receiver"] = "receive" /\ pc["sender"] # "done" /\ index > 0 /\ serving.file <= index
  BY <1>2, <1>3 DEF Requesting, Serving
<1>5. /\ Len(files) \in Nat /\ index \in 0..Len(files) /\ serving.file \in Nat
      /\ serving.next \in Nat /\ amount \in Nat /\ Behind \in Nat
  BY <1>1, LoopFacts, BehindFacts DEF DataInv
<1> DEFINE W == [file : 0..Len(files), num : Nat]
           D == [into : 1..Len(files), chunk : W]
<1>6. /\ wire \in Seq(W) /\ writeQ \in Seq(D)
  BY <1>1, TypeParts DEF DataType
<1>7. /\ Len(wire') = Len(wire) - 1 /\ Len(wire) \in Nat /\ Head(wire) \in W
      /\ OnWire = OnWire' \cup {Head(wire)}
  <2> HIDE DEF W
  <2> QED
    BY <1>2, <1>6, TakenOut DEF OnWire
<1>7a. Clean' => Clean
  <2>1. Clean' => Head(wire) # Ping /\ pinged = {}
    BY <1>2 DEF Clean
  <2> QED
    BY <1>7, <2>1 DEF Clean
<1>8. PICK d : d = [into |-> index, chunk |-> Head(wire)]
  OBVIOUS
<1>9. d \in D /\ d.into = index /\ d.chunk = Head(wire)
  <2>1. index \in 1..Len(files)
    BY <1>4, <1>5
  <2> QED
    BY <1>7, <1>8, <2>1
<1>10. Received' = Received \cup {d}
  <2> HIDE DEF D
  <2>1. {writeQ'[i] : i \in DOMAIN writeQ'} = {writeQ[i] : i \in DOMAIN writeQ} \cup {d}
    <3>1. writeQ' = Append(writeQ, d) /\ writeQ \in Seq(D) /\ d \in D
      BY <1>2, <1>6, <1>8, <1>9
    <3> QED
      BY <3>1, PutIn
  <2> QED
    BY <1>2, <2>1 DEF Received
<1>11. \A c : Sent(c) <=> Sent(c)'
  BY <1>2 DEF Sent
<1>12. QueueInv'
  BY <1>2, <1>4, <1>11 DEF DataInv, QueueInv
<1>13. CountInv'
  <2>1. SUFFICES ASSUME Counting PROVE OnTheWay' /\ (dataUp => Accounted')
    BY <1>2, <1>7a DEF CountInv, Counting
  <2>2. OnTheWay /\ (dataUp => Accounted)
    BY <2>1 DEF DataInv, CountInv
  <2>3. serving.file = index
    BY <1>2, <1>4, <1>5, <2>2 DEF OnTheWay
  <2>4. amount' + Len(wire') = amount + Len(wire)
    BY <1>2, <1>5, <1>7
  <2>5. OnTheWay'
    BY <1>2, <1>4, <1>5, <2>2, <2>3, <2>4 DEF OnTheWay
  <2>6. ASSUME dataUp PROVE Accounted'
    BY <1>2, <1>4, <1>5, <2>2, <2>3, <2>4, <2>6 DEF Accounted
  <2> QED
    BY <2>5, <2>6
<1>14. PlaceInv'
  <2>1. SUFFICES ASSUME Clean
                 PROVE  /\ code = "apart" => wire' = <<>>
                        /\ \A c \in OnWire' : c.file = index /\ Sent(c)
                        /\ \A e \in Received' : e.into = e.chunk.file /\ Sent(e.chunk)
    BY <1>2, <1>7a, <1>11, PlacesNext
  <2>2. /\ code # "apart" /\ \A c \in OnWire : c.file = index /\ Sent(c)
        /\ \A e \in Received : e.into = e.chunk.file /\ Sent(e.chunk)
    BY <1>2, <2>1, Places DEF DataInv
  <2> QED
    BY <1>7, <1>9, <1>10, <2>2
<1>15. CoverInv'
  <2>1. ASSUME NEW c, Held(c) PROVE Held(c)'
    <3>1. c \in encrypting \cup InReadQ \cup OnWire' \/ \E e \in Received' : e.chunk = c
      BY <1>7, <1>9, <1>10, <2>1, Places
    <3> QED
      BY <1>2, <3>1 DEF Held, OnWire, InReadQ
  <2> QED
    BY <1>2, <1>7a, <1>11, <2>1 DEF DataInv, CoverInv
<1>16. ReturnInv'
  BY <1>2, <1>4 DEF ReturnInv
<1> QED
  BY <1>12, <1>13, <1>14, <1>15, <1>16 DEF DataInv

LEMMA fs_reader_task_DataInv ==
  ASSUME SizesKept, IInv, DataInv, fs_reader_task PROVE DataInv'
<1>1. TypeOK
  BY DEF IInv
<1>2. /\ UNCHANGED <<offer, code, pc, index, amount, serving, wire, dataUp,
                     writeQ, decrypting, disk>>
      /\ UNCHANGED <<files, Received, Wanted, OnWire>> /\ (Clean' <=> Clean)
      /\ readQ # <<>> /\ readQ' = Tail(readQ) /\ encrypting' = encrypting \cup {Head(readQ)}
  BY DEF fs_reader_task, given, session, loops, files, Received, Wanted, OnWire, Clean
<1> DEFINE C == [file : 1..Len(files), num : Nat]
<1>3. readQ \in Seq(C) /\ QueueInv
  BY <1>1, TypeParts DEF DataType, DataInv
<1> HIDE DEF C
<1>4. /\ Len(readQ') = Len(readQ) - 1 /\ Len(readQ) \in Nat /\ Head(readQ) = readQ[1]
      /\ InReadQ = InReadQ' \cup {Head(readQ)} /\ Len(readQ) > 0
      /\ \A i \in 1..Len(readQ) - 1 : readQ'[i] = readQ[i + 1]
      /\ DOMAIN readQ = 1..Len(readQ) /\ DOMAIN readQ' = 1..Len(readQ) - 1
  <2>1. /\ Len(Tail(readQ)) = Len(readQ) - 1 /\ Len(readQ) \in Nat /\ Head(readQ) = readQ[1]
        /\ InReadQ = InReadQ' \cup {Head(readQ)} /\ Len(readQ) > 0 /\ Tail(readQ) \in Seq(C)
    BY <1>2, <1>3, TakenOut DEF InReadQ
  <2>2. \A i \in 1..Len(readQ) - 1 : Tail(readQ)[i] = readQ[i + 1]
    BY <1>2, <1>3, TakeOne
  <2> QED
    BY <1>2, <1>3, <2>1, <2>2, LenProperties
<1>5. Head(readQ) \notin encrypting /\ Sent(Head(readQ))
  BY <1>3, <1>4 DEF QueueInv
<1>6. Behind' = Behind /\ IsFiniteSet(encrypting')
  <2>1. IsFiniteSet(encrypting) /\ Cardinality(encrypting) \in Nat
    BY <1>1, <1>3, BehindFacts DEF QueueInv
  <2>2. /\ Cardinality(encrypting \cup {Head(readQ)}) = Cardinality(encrypting) + 1
        /\ IsFiniteSet(encrypting \cup {Head(readQ)})
    BY <1>5, <2>1, FS_AddElement
  <2>3. Behind' = (Cardinality(encrypting) + 1) + (Len(readQ) - 1)
    BY <1>2, <1>4, <2>2 DEF Behind
  <2> QED
    BY <1>2, <1>4, <2>1, <2>2, <2>3 DEF Behind
<1>7. \A c : Sent(c) <=> Sent(c)'
  BY <1>2 DEF Sent
<1>8. \A c : Held(c) => Held(c)'
  <2>1. \A c : Held(c) => \/ c \in encrypting' \cup InReadQ' \cup OnWire
                          \/ \E d \in Received : d.chunk = c
    BY <1>2, <1>4, Places
  <2> QED
    BY <1>2, <2>1 DEF Held, InReadQ, OnWire
<1>9. QueueInv'
  <2>1. \A c \in encrypting' : Sent(c)'
    BY <1>2, <1>3, <1>5, <1>7 DEF QueueInv
  <2>2. ASSUME NEW i \in DOMAIN readQ' PROVE (Sent(readQ[i]) /\ readQ[i] \notin encrypting)'
    <3>1. i + 1 \in DOMAIN readQ /\ i + 1 # 1 /\ 1 \in DOMAIN readQ /\ readQ'[i] = readQ[i + 1]
      BY <1>4
    <3>2. readQ[i + 1] # readQ[1] /\ readQ[i + 1] \notin encrypting /\ Sent(readQ[i + 1])
      BY <1>3, <3>1 DEF QueueInv
    <3>3. \A c : c = readQ[i + 1] => Sent(c)'
      BY <1>7, <3>2
    <3> QED
      BY <1>2, <1>4, <3>1, <3>2, <3>3
  <2>3. ASSUME NEW i \in DOMAIN readQ', NEW j \in DOMAIN readQ', readQ'[i] = readQ'[j]
        PROVE  i = j
    <3>1. /\ i + 1 \in DOMAIN readQ /\ readQ'[i] = readQ[i + 1]
          /\ j + 1 \in DOMAIN readQ /\ readQ'[j] = readQ[j + 1] /\ i \in Nat /\ j \in Nat
      BY <1>4
    <3>2. i + 1 = j + 1
      BY <1>3, <2>3, <3>1 DEF QueueInv
    <3> QED
      BY <3>1, <3>2
  <2> QED
    BY <1>2, <1>3, <1>6, <2>1, <2>2, <2>3 DEF QueueInv
<1>10. CountInv'
  <2>1. ASSUME Accounted PROVE Accounted'
    <3>1. /\ \A c \in encrypting : c.file = index
          /\ \A i \in DOMAIN readQ : readQ[i].file = index
      BY <2>1 DEF Accounted
    <3>2. \A c \in encrypting' : c.file = index'
      BY <1>2, <1>4, <3>1
    <3>3. \A i \in DOMAIN readQ' : readQ'[i].file = index'
      <4>1. \A i \in 1..Len(readQ) - 1 : i + 1 \in 1..Len(readQ)
        BY <1>4
      <4> QED
        BY <1>2, <1>4, <3>1, <4>1
    <3> QED
      BY <1>2, <1>6, <2>1, <3>2, <3>3 DEF Accounted
  <2> QED
    BY <1>2, <2>1 DEF DataInv, CountInv, Counting, OnTheWay
<1>11. PlaceInv'
  BY <1>2, <1>7, Places, PlacesNext DEF DataInv
<1>12. CoverInv' /\ ReturnInv'
  BY <1>2, <1>6, <1>7, <1>8 DEF DataInv, CoverInv, ReturnInv
<1> QED
  BY <1>9, <1>10, <1>11, <1>12 DEF DataInv

LEMMA DoneAfter ==
  ASSUME Conversation PROVE pc["receiver"] = "done" => pc["sender"] = "done"
BY DEF Conversation, Unmet, Called, Greeted, Answered, Keyed, Offered, Refused, Requesting,
   Finishing, Returned, Exited

LEMMA ServedIsRequested ==
  ASSUME TypeOK, Conversation PROVE Exited \/ serving.file <= index
<1>1. NoneRequested => serving.file <= index
  BY DEF NoneRequested
<1>2. Returned => serving.file <= index
  BY LoopFacts DEF Returned
<1> QED
  BY <1>1, <1>2 DEF Conversation, Unmet, Called, Greeted, Answered, Keyed, Offered, Refused,
     Requesting, Finishing, Serving

\* A chunk that is put on the way is one of the file the receiver is at; one is
\* dropped only when it is too late for it, or the connection is down.
LEMMA encrypt_task_DataInv ==
  ASSUME SizesKept, IInv, DataInv, encrypt_task PROVE DataInv'
<1>1. TypeOK /\ Conversation
  BY DEF IInv
<1>2. PICK c \in encrypting :
        /\ encrypting' = encrypting \ {c}
        /\ IF dataUp /\ code # "apart" /\ pc["receiver"] \notin Ended
           THEN Len(wire) < WireCap /\ wire' = Append(wire, c)
           ELSE wire' = wire
        /\ UNCHANGED <<given, session, loops, readQ, dataUp, writeQ, decrypting, disk>>
  BY DEF encrypt_task
<1>2a. OnWire \subseteq OnWire'
  <2> DEFINE W == [file : 0..Len(files), num : Nat]
  <2>1. c \in W /\ wire \in Seq(W)
    BY <1>1, <1>2, WireFacts, TypeParts DEF DataType
  <2> HIDE DEF W
  <2>2. wire' = Append(wire, c) => OnWire' = OnWire \cup {c}
    BY <2>1, PutIn DEF OnWire
  <2> QED
    BY <1>2, <2>2 DEF OnWire
<1>3. /\ UNCHANGED <<offer, code, pc, index, amount, serving, readQ, dataUp,
                     writeQ, decrypting, disk>>
      /\ UNCHANGED <<files, Received, Wanted, InReadQ>> /\ (Clean' => Clean)
  BY <1>2, <1>2a DEF given, session, loops, files, Received, Wanted, InReadQ, Clean
<1>4. QueueInv /\ pc["receiver"] # "exited"
  BY <1>2 DEF DataInv, QueueInv
<1>5. /\ Behind \in Nat /\ Behind > 0 /\ Cardinality(encrypting) \in Nat /\ Len(readQ) \in Nat
      /\ Len(wire) \in Nat /\ amount \in Nat /\ serving.next \in Nat
      /\ index \in Nat /\ serving.file \in Nat /\ Len(files) \in Nat /\ index \in 0..Len(files)
      /\ \A f \in 1..Len(files) :
            files[f].actual \in Nat /\ files[f].announced = files[f].actual
  BY <1>1, <1>2, <1>4, BehindFacts, LoopFacts, WireFacts, FileFacts
<1>6. IsFiniteSet(encrypting') /\ Behind' = Behind - 1
  <2>1. /\ Cardinality(encrypting \ {c}) = Cardinality(encrypting) - 1
        /\ IsFiniteSet(encrypting \ {c})
    BY <1>2, <1>4, FS_RemoveElement DEF QueueInv
  <2>2. Behind' = (Cardinality(encrypting) - 1) + Len(readQ)
    BY <1>2, <1>3, <2>1 DEF Behind
  <2> QED
    BY <1>2, <1>5, <2>1, <2>2 DEF Behind
<1>7. \A x : Sent(x) <=> Sent(x)'
  BY <1>3 DEF Sent
<1>8. QueueInv'
  BY <1>2, <1>3, <1>4, <1>6, <1>7 DEF QueueInv
<1>9. ASSUME Clean, code # "apart", dataUp PROVE pc["sender"] # "done"
  <2>1. pc["sender"] = "done" => Behind = 0
    BY <1>9 DEF DataInv, ReturnInv
  <2> QED
    BY <1>5, <2>1
<1>10. ReturnInv'
  BY <1>3, <1>9 DEF ReturnInv
<1>11. CASE dataUp /\ code # "apart" /\ pc["receiver"] \notin Ended
  <2>1. wire' = Append(wire, c)
    BY <1>2, <1>11
  <2>2. Len(wire') = Len(wire) + 1 /\ OnWire' = OnWire \cup {c}
    <3> DEFINE W == [file : 0..Len(files), num : Nat]
    <3>1. c \in W
      BY <1>1, <1>2, TypeParts DEF DataType
    <3>2. wire \in Seq(W)
      BY <1>1, WireFacts
    <3> HIDE DEF W
    <3> QED
      BY <2>1, <3>1, <3>2, PutIn DEF OnWire
  <2>3. ASSUME Clean PROVE Counting /\ OnTheWay /\ Accounted
    BY <1>4, <1>11, <2>3 DEF DataInv, CountInv, Counting
  <2>4. ASSUME Clean
        PROVE  /\ serving.file = index /\ c.file = index
               /\ amount + Len(wire) + Behind = serving.next
               /\ pc["receiver"] = "receive"
    <3>1. Accounted /\ OnTheWay
      BY <2>3, <2>4
    <3>2. serving.file = index
      <4>1. ~(serving.file < index)
        <5>1. serving.file < index => Behind = 0
          BY <3>1 DEF Accounted
        <5> QED
          BY <1>5, <5>1
      <4>2. serving.file <= index
        BY <1>1, <1>4, ServedIsRequested DEF Exited
      <4> QED
        BY <1>5, <4>1, <4>2
    <3>3. amount + Len(wire) + Behind = serving.next
      BY <3>1, <3>2 DEF Accounted
    <3>4. c.file = index
      BY <1>2, <3>1 DEF Accounted
    <3>5. pc["receiver"] = "receive"
      <4>1. SUFFICES ASSUME pc["receiver"] # "receive" PROVE FALSE
        OBVIOUS
      <4>2. serving.next <= (IF index = 0 THEN 0 ELSE files[index].actual)
        BY <1>4, <3>2 DEF QueueInv
      <4>3. CASE index = 0
        BY <1>5, <3>3, <4>2, <4>3
      <4>4. CASE index > 0
        <5>1. index \in 1..Len(files)
          BY <1>5, <4>4
        <5>2. amount >= files[index].actual /\ files[index].actual \in Nat
          BY <1>5, <3>1, <4>1, <4>4, <5>1 DEF Accounted
        <5>3. serving.next <= files[index].actual
          BY <4>2, <4>4
        <5> QED
          BY <1>5, <3>3, <5>2, <5>3
      <4> QED
        BY <1>5, <4>3, <4>4
    <3> QED
      BY <3>2, <3>3, <3>4, <3>5
  <2>5. CountInv'
    <3>1. SUFFICES ASSUME Counting PROVE OnTheWay' /\ Accounted'
      BY <1>3 DEF CountInv, Counting
    <3>2. /\ serving.file = index /\ amount + Len(wire) + Behind = serving.next
          /\ pc["receiver"] = "receive" /\ Accounted
      BY <2>3, <2>4, <3>1 DEF Counting
    <3>3. /\ amount' + Len(wire') + Behind' = serving'.next
          /\ amount' + Len(wire') <= serving'.next
      BY <1>3, <1>5, <1>6, <2>2, <3>2
    <3>4. OnTheWay'
      BY <1>3, <1>5, <3>2, <3>3 DEF OnTheWay
    <3>5. Accounted'
      BY <1>2, <1>3, <1>5, <3>2, <3>3 DEF Accounted
    <3> QED
      BY <3>4, <3>5
  <2>6. PlaceInv'
    <3>1. SUFFICES ASSUME Clean
                   PROVE  /\ \A x \in OnWire' : x.file = index /\ Sent(x)
                          /\ \A d \in Received : d.into = d.chunk.file /\ Sent(d.chunk)
      BY <1>3, <1>7, <1>11, PlacesNext
    <3>2. /\ \A x \in OnWire : x.file = index /\ Sent(x)
          /\ \A d \in Received : d.into = d.chunk.file /\ Sent(d.chunk)
      BY <3>1, Places DEF DataInv
    <3>3. c.file = index /\ Sent(c)
      BY <1>2, <1>4, <2>4, <3>1 DEF QueueInv
    <3> QED
      BY <2>2, <3>2, <3>3
  <2>7. CoverInv'
    <3>1. ASSUME NEW x, Held(x) PROVE Held(x)'
      <4>1. x \in encrypting' \cup InReadQ \cup OnWire' \/ \E d \in Received : d.chunk = x
        BY <1>2, <2>2, <3>1, Places
      <4> QED
        BY <1>3, <4>1 DEF Held, OnWire, InReadQ
    <3> QED
      BY <1>3, <1>7, <3>1 DEF DataInv, CoverInv
  <2> QED
    BY <1>8, <1>10, <2>5, <2>6, <2>7 DEF DataInv
<1>12. CASE ~(dataUp /\ code # "apart" /\ pc["receiver"] \notin Ended)
  <2>1. wire' = wire /\ OnWire' = OnWire
    BY <1>2, <1>12 DEF OnWire
  <2>2. CountInv'
    <3>1. SUFFICES ASSUME Counting PROVE OnTheWay' /\ ~dataUp'
      BY <1>3 DEF CountInv, Counting
    <3>2. ~dataUp'
      BY <1>3, <1>12, <3>1 DEF Counting
    <3>3. OnTheWay
      BY <3>1 DEF DataInv, CountInv
    <3> QED
      BY <1>3, <2>1, <3>2, <3>3 DEF OnTheWay
  <2>3. PlaceInv'
    BY <1>3, <1>7, <2>1, Places, PlacesNext DEF DataInv
  <2>4. CoverInv'
    <3>1. Clean /\ code = "same" /\ dataUp => pc["receiver"] \in {"failed", "panicked"}
      BY <1>1, <1>9, <1>12, DoneAfter DEF Ended
    <3> QED
      BY <1>3, <3>1 DEF CoverInv
  <2> QED
    BY <1>8, <1>10, <2>2, <2>3, <2>4 DEF DataInv
<1> QED
  BY <1>11, <1>12

LEMMA fs_writer_task_DataInv ==
  ASSUME IInv, DataInv, fs_writer_task PROVE DataInv'
<1>1. TypeOK
  BY DEF IInv
<1>2. /\ UNCHANGED <<offer, code, pc, index, amount, serving, readQ, encrypting, wire,
                     dataUp, disk>>
      /\ UNCHANGED <<files, Behind, Wanted>> /\ (Clean' <=> Clean)
      /\ writeQ # <<>> /\ writeQ' = Tail(writeQ) /\ decrypting' = decrypting \cup {Head(writeQ)}
  BY DEF fs_writer_task, given, session, loops, files, Behind, Wanted, Clean, OnWire
<1>3. Received' = Received
  <2> DEFINE D == [into : 1..Len(files), chunk : [file : 0..Len(files), num : Nat]]
  <2>1. writeQ \in Seq(D)
    BY <1>1, TypeParts DEF DataType
  <2> HIDE DEF D
  <2>2. {writeQ[i] : i \in DOMAIN writeQ} = {writeQ'[i] : i \in DOMAIN writeQ'} \cup {Head(writeQ)}
    BY <1>2, <2>1, TakenOut
  <2> QED
    BY <1>2, <2>2 DEF Received
<1>4. \A c : (Sent(c) <=> Sent(c)') /\ (Held(c) <=> Held(c)')
  BY <1>2, <1>3 DEF Sent, Held
<1>5. QueueInv'
  BY <1>2, <1>4 DEF DataInv, QueueInv
<1>6. CountInv'
  BY <1>2 DEF DataInv, CountInv, Counting, OnTheWay, Accounted
<1>7. PlaceInv'
  BY <1>2, <1>3, <1>4 DEF DataInv, PlaceInv
<1>8. CoverInv' /\ ReturnInv'
  BY <1>2, <1>4 DEF DataInv, CoverInv, ReturnInv
<1> QED
  BY <1>5, <1>6, <1>7, <1>8 DEF DataInv

\* A chunk that is in its place can be decrypted by one who has the key.
LEMMA decrypt_task_DataInv ==
  ASSUME IInv, DataInv, decrypt_task PROVE DataInv'
<1>1. TypeOK
  BY DEF IInv
<1>2. PICK d \in decrypting :
        /\ decrypting' = decrypting \ {d}
        /\ disk' = IF decrypt(d.chunk) THEN disk \cup {d} ELSE disk
        /\ UNCHANGED <<given, session, loops, readQ, encrypting, wire, dataUp, writeQ>>
  BY DEF decrypt_task
<1>3. /\ UNCHANGED <<offer, code, pc, index, amount, serving, readQ, encrypting, wire,
                     dataUp, writeQ>>
      /\ UNCHANGED <<files, Behind, Wanted>> /\ (Clean' <=> Clean)
  BY <1>2 DEF given, session, loops, files, Behind, Wanted, Clean, OnWire
<1>4. Received' \subseteq Received /\ (decrypt(d.chunk) => Received' = Received)
  BY <1>2, <1>3 DEF Received
<1>5. \A c : Sent(c) <=> Sent(c)'
  BY <1>3 DEF Sent
<1>6. QueueInv'
  BY <1>3, <1>5 DEF DataInv, QueueInv
<1>7. CountInv'
  BY <1>3 DEF DataInv, CountInv, Counting, OnTheWay, Accounted
<1>8. PlaceInv'
  BY <1>3, <1>4, <1>5 DEF DataInv, PlaceInv
<1>9. CoverInv'
  <2>1. ASSUME Clean, code = "same" PROVE Received' = Received
    <3>1. d \in Received
      BY <1>2 DEF Received
    <3>2. d.into = d.chunk.file /\ d.into \in Nat /\ d.into > 0
      BY <1>1, <2>1, <3>1, ChunkFacts DEF DataInv, PlaceInv
    <3>3. d.chunk # Ping
      BY <3>2 DEF Ping, Chunk
    <3> QED
      BY <1>4, <2>1, <3>3 DEF decrypt
  <2>2. ASSUME Received' = Received PROVE \A c : Held(c) <=> Held(c)'
    BY <1>3, <2>2 DEF Held
  <2> QED
    BY <1>3, <1>5, <2>1, <2>2 DEF DataInv, CoverInv
<1>10. ReturnInv'
  BY <1>3, <1>5 DEF DataInv, ReturnInv
<1> QED
  BY <1>6, <1>7, <1>8, <1>9, <1>10 DEF DataInv

-----------------------------------------------------------------------------
(* The faults, and the end.                                                *)

LEMMA data_breaks_DataInv ==
  ASSUME IInv, DataInv, PingInv, data_breaks PROVE DataInv'
<1>1. TypeOK
  BY DEF IInv
<1>2. /\ UNCHANGED <<offer, code, pc, index, amount, serving, readQ, encrypting,
                     writeQ, decrypting, disk>>
      /\ UNCHANGED <<files, Behind, Received, Wanted>>
      /\ dataUp' = FALSE /\ pinged' = pinged
  BY DEF data_breaks, given, session, loops, files, Behind, Received, Wanted
<1>3. PICK n \in 0..Len(wire) : wire' = SubSeq(wire, 1, n)
  BY DEF data_breaks
<1>4. /\ Len(wire') = n /\ Len(wire) \in Nat /\ n \in Nat /\ n <= Len(wire)
      /\ \A i \in 1..n : wire'[i] = wire[i]
      /\ DOMAIN wire' = 1..n /\ DOMAIN wire = 1..Len(wire)
      /\ wire = <<>> => wire' = <<>>
  <2> DEFINE W == [file : 0..Len(files), num : Nat]
  <2>1. wire \in Seq(W) /\ Len(wire) \in Nat /\ (wire = <<>> => Len(wire) = 0)
        /\ DOMAIN wire = 1..Len(wire)
    BY <1>1, WireFacts
  <2> HIDE DEF W
  <2>2. \A i \in 1..n : i \in 1..Len(wire)
    BY <2>1
  <2>3. wire' \in Seq(W) /\ Len(wire') = n /\ \A i \in 1..n : wire'[i] = wire[i]
    BY <1>3, <2>1, <2>2, SubSeqProperties
  <2>4. wire = <<>> => wire' = <<>>
    BY <2>1, <2>3, EmptySeq
  <2> QED
    BY <2>1, <2>3, <2>4, LenProperties
<1>5. OnWire' \subseteq OnWire
  BY <1>4 DEF OnWire
<1>5a. Clean' => Clean \/ (wire' = <<>> /\ OnWire' = {} /\ Untouched)
  <2>1. SUFFICES ASSUME Clean', ~Clean PROVE wire' = <<>> /\ OnWire' = {} /\ Untouched
    OBVIOUS
  <2>2. Untouched /\ wire[1] = Ping
    BY <1>2, <2>1 DEF Clean, PingInv, PingAhead
  <2>3. n = 0
    <3>1. n > 0 => 1 \in 1..n
      BY <1>4
    <3>2. 1 \in 1..n => Ping \in OnWire'
      BY <1>4, <2>2 DEF OnWire
    <3> QED
      BY <1>4, <2>1, <3>1, <3>2 DEF Clean
  <2>4. DOMAIN wire' = {} /\ wire' = <<>>
    BY <1>3, <1>4, <2>3
  <2> QED
    BY <2>2, <2>4 DEF OnWire
<1>6. \A c : Sent(c) <=> Sent(c)'
  BY <1>2 DEF Sent
<1>7. QueueInv'
  BY <1>2, <1>6 DEF DataInv, QueueInv
<1>8. CountInv'
  <2>1. SUFFICES ASSUME Counting' PROVE OnTheWay'
    BY <1>2 DEF CountInv
  <2>2. amount \in Nat /\ serving.next \in Nat
    BY <1>1, LoopFacts
  <2>3. CASE ~Clean
    <3>1. wire' = <<>> /\ Len(wire') = 0 /\ amount = 0
      BY <1>5a, <2>1, <2>3 DEF Counting, Untouched
    <3> QED
      BY <1>2, <2>2, <3>1 DEF OnTheWay
  <2>4. CASE Clean
    <3>1. OnTheWay
      BY <1>2, <2>1, <2>4 DEF DataInv, CountInv, Counting
    <3>2. serving.file = index => amount + n <= serving.next
      BY <1>4, <2>2, <3>1 DEF OnTheWay
    <3> QED
      BY <1>2, <1>4, <3>1, <3>2 DEF OnTheWay
  <2> QED
    BY <2>3, <2>4
<1>9. PlaceInv'
  <2>1. CASE Clean
    BY <1>2, <1>4, <1>5, <1>6, <2>1, Places, PlacesNext DEF DataInv
  <2>2. CASE ~Clean
    BY <1>2, <1>5a, <2>2, PlacesNext DEF Untouched
  <2> QED
    BY <2>1, <2>2
<1>10. CoverInv' /\ ReturnInv'
  BY <1>2 DEF CoverInv, ReturnInv
<1> QED
  BY <1>7, <1>8, <1>9, <1>10 DEF DataInv

LEMMA exit_DataInv ==
  ASSUME IInv, DataInv, PingInv, exit PROVE DataInv'
<1>1. TypeOK
  BY DEF IInv
<1>2. /\ UNCHANGED <<offer, code, index, amount, serving, disk, files>>
      /\ pc' = [p \in Role |-> "exited"]
      /\ readQ' = <<>> /\ encrypting' = {} /\ wire' = <<>> /\ writeQ' = <<>> /\ decrypting' = {}
      /\ pinged' = pinged
  BY DEF exit, given, loops, files
<1>3. \A c : Sent(c) <=> Sent(c)'
  BY <1>2 DEF Sent
<1>4. Received' \subseteq Received /\ OnWire' = {}
  BY <1>2 DEF Received, OnWire
<1>5. QueueInv'
  <2>1. IsFiniteSet(encrypting')
    BY <1>2, FS_EmptySet
  <2>2. serving.next <= (IF serving.file = 0 THEN 0 ELSE files[serving.file].actual)
    BY DEF DataInv, QueueInv
  <2>3. DOMAIN readQ' = {}
    BY <1>2
  <2> QED
    BY <1>2, <2>1, <2>2, <2>3 DEF QueueInv
<1>6. PlaceInv'
  <2>1. CASE Clean
    BY <1>2, <1>3, <1>4, <2>1, Places, PlacesNext DEF DataInv
  <2>2. CASE ~Clean
    <3>1. pinged' = {} => Received = {}
      BY <1>2, <2>2 DEF Clean, PingInv, PingAhead, Untouched
    <3> QED
      BY <1>2, <1>4, <3>1, PlacesNext DEF Clean
  <2> QED
    BY <2>1, <2>2
<1>7. CountInv' /\ CoverInv' /\ ReturnInv'
  BY <1>2 DEF CountInv, Counting, CoverInv, ReturnInv
<1> QED
  BY <1>5, <1>6, <1>7 DEF DataInv

-----------------------------------------------------------------------------
(* Where the pings are.                                                    *)

\* The sender has entered the data room when its session has begun.
InRoom ==
  pc["sender"] \notin {"connect", "keepalive", "net"} =>
    \E i \in DOMAIN joined.data : joined.data[i] = "sender"

LEMMA InRoomNext ==
  ASSUME IInv, IInv', InRoom, [Next]_vars PROVE InRoom'
<1>1. /\ pc \in [Role -> PC] /\ joined.data \in Seq(Role)
      /\ joined \in [control : Seq(Role), data : Seq(Role)]
  BY TypeParts DEF IInv, SessionType
<1>2. ASSUME joined'.data = joined.data,
             pc["sender"] \in {"connect", "keepalive", "net"} =>
               pc'["sender"] \in {"connect", "keepalive", "net"}
      PROVE  InRoom'
  BY <1>2 DEF InRoom
<1>3. ASSUME NEW p \in Role, process_client(p) PROVE InRoom'
  <2>1. joined'.data = Append(joined.data, p)
    BY <1>1, <1>3 DEF process_client, start_net_task
  <2>2. /\ DOMAIN joined.data = 1..Len(joined.data) /\ Len(joined.data) \in Nat
        /\ DOMAIN joined'.data = 1..Len(joined.data) + 1
        /\ \A i \in 1..Len(joined.data) : joined'.data[i] = joined.data[i]
        /\ joined'.data[Len(joined.data) + 1] = p
    BY <1>1, <2>1, AppendProperties, LenProperties
  <2>3. CASE p = "sender"
    BY <2>2, <2>3 DEF InRoom
  <2>4. CASE p = "receiver"
    <3>1. pc'["sender"] = pc["sender"]
      BY <1>1, <1>3, <2>4 DEF process_client, Goto
    <3>2. \A i \in DOMAIN joined.data : i \in DOMAIN joined'.data /\ joined'.data[i] = joined.data[i]
      BY <2>2
    <3> QED
      BY <3>1, <3>2 DEF InRoom
  <2> QED
    BY <2>3, <2>4
<1>4. ASSUME NEW p \in Role, connect(p) PROVE InRoom'
  <2>1. joined'.data = joined.data
    BY <1>1, <1>4 DEF connect
  <2>2. pc["sender"] \in {"connect", "keepalive", "net"} =>
          pc'["sender"] \in {"connect", "keepalive", "net"}
    BY <1>1, <1>4 DEF connect, Goto
  <2> QED
    BY <1>2, <2>1, <2>2
<1>5. ASSUME NEW p \in Role, handle_keepalive(p) PROVE InRoom'
  <2>1. joined' = joined /\ pc' = [pc EXCEPT ![p] = pc'[p]]
        /\ pc'[p] \in {"keepalive", "net", "failed"}
    BY <1>1, <1>5 DEF handle_keepalive
  <2>2. pc'["sender"] # "failed"
    BY DEF IInv, Conversation, Unmet, Called, Greeted, Answered, Keyed, Offered, Refused,
       Requesting, Finishing, Serving, Returned, Exited
  <2>3. pc["sender"] \in {"connect", "keepalive", "net"} =>
          pc'["sender"] \in {"connect", "keepalive", "net"}
    BY <1>1, <2>1, <2>2
  <2> QED
    BY <1>2, <2>1, <2>3
<1>6. ASSUME NEW p \in Role, SessionStep(p) \/ refuse(p),
             ~process_client(p), ~connect(p), ~handle_keepalive(p)
      PROVE  InRoom'
  <2>1. joined' = joined
    BY <1>6 DEF SessionStep, process_key_exchange, process_ip_exchange, recv_finished,
       process_files_info, create_empty_folders, accept, accept_nothing, recv_recipientready,
       recv_error, recv_unparsable, request_file, receive_chunk, file_received, finish,
       send_file, file_sent, refuse, session
  <2>2. pc[p] \notin {"connect", "keepalive", "net"} /\ (\A q \in Role : q # p => pc'[q] = pc[q])
    BY <1>1, <1>6 DEF SessionStep, process_key_exchange, process_ip_exchange, recv_finished,
       process_files_info, create_empty_folders, accept, accept_nothing, recv_recipientready,
       recv_error, recv_unparsable, request_file, receive_chunk, file_received, finish,
       send_file, file_sent, refuse, session, Goto, Answer
  <2> QED
    BY <1>2, <2>1, <2>2
<1>7. ASSUME TaskStep \/ PingControl \/ PingData \/ data_breaks \/ UNCHANGED vars PROVE InRoom'
  BY <1>2, <1>7 DEF TaskStep, fs_reader_task, encrypt_task, fs_writer_task, decrypt_task,
     PingControl, PingData, data_breaks, session, vars
<1>8. ASSUME exit PROVE InRoom'
  BY <1>2, <1>8 DEF exit, Ended
<1> QED
  BY <1>3, <1>4, <1>5, <1>6, <1>7, <1>8 DEF Next

\* A step that puts nothing on the way, keeps what comes first on it, and takes
\* nothing off it, while the receiver goes on with its file.
LEMMA PingsStay ==
  ASSUME PingInv, UNCHANGED <<offer, code, index, amount, pinged>>,
         Received' \subseteq Received, OnWire' \subseteq OnWire,
         pings' = 0 => pings = 0,
         Ping \in OnWire' => wire'[1] = wire[1],
         Ping \in OnWire' /\ pc["receiver"] = "receive" => pc'["receiver"] = "receive"
  PROVE  PingInv'
<1>1. files' = files /\ \A c : Real(c) <=> Real(c)'
  BY DEF files, Real
<1>2. \A f : EmptyBefore(f) <=> EmptyBefore(f)'
  BY <1>1 DEF EmptyBefore
<1>3. (pings = 0 => Clean)'
  BY DEF PingInv, Clean
<1>4. \A c \in OnWire' : c # Ping => Real(c)' /\ c.file <= index'
  BY <1>1 DEF PingInv
<1>5. \A d \in Received' : d.chunk # Ping => Real(d.chunk)' /\ d.chunk.file <= d.into
  BY <1>1 DEF PingInv
<1>6. Untouched => Untouched'
  BY DEF Untouched
<1>7. (code = "apart" =>
         /\ OnWire \subseteq {Ping}
         /\ \A d \in Received : d.chunk = Ping
         /\ pinged = {} => Untouched)'
  BY <1>6 DEF PingInv
<1>8. (pinged = {} /\ Ping \in OnWire => PingAhead)'
  <2>1. SUFFICES ASSUME pinged = {}, Ping \in OnWire' PROVE PingAhead'
    OBVIOUS
  <2>2. PingAhead
    BY <2>1 DEF PingInv
  <2> QED
    BY <1>1, <1>2, <1>6, <2>1, <2>2 DEF PingAhead
<1>9. (code # "apart" /\ pinged # {} => \E f \in pinged : EmptyBefore(f))'
  BY <1>2 DEF PingInv
<1> QED
  BY <1>3, <1>4, <1>5, <1>7, <1>8, <1>9 DEF PingInv

\* The sender's chunks are of files that have been requested.
LEMMA SentIsReal ==
  ASSUME SizesKept, TypeOK, QueueInv, serving.file <= index, NEW c, Sent(c),
         c.file \in Nat, c.file > 0, c.num \in Nat
  PROVE  Real(c) /\ c.file <= index /\ c # Ping
<1>1. /\ Len(files) \in Nat /\ index \in Nat /\ serving.file \in 0..Len(files)
      /\ serving.next \in Nat
      /\ \A g \in 1..Len(files) :
            files[g].actual \in Nat /\ files[g].announced = files[g].actual
  BY FileFacts, LoopFacts
<1>2. c.file \in 1..Len(files) /\ c.file <= serving.file
  BY <1>1 DEF Sent
<1>3. serving.next <= (IF serving.file = 0 THEN 0 ELSE files[serving.file].actual)
  BY DEF QueueInv
<1>4. CASE c.file < serving.file
  BY <1>1, <1>2, <1>4 DEF Sent, Real, Ping, Chunk
<1>5. CASE c.file = serving.file
  <2>1. c.num < serving.next /\ serving.next <= files[c.file].actual
    BY <1>1, <1>2, <1>3, <1>5 DEF Sent
  <2>2. files[c.file].actual \in Nat
    BY <1>1, <1>2
  <2>3. c.num < files[c.file].actual
    BY <1>1, <2>1, <2>2
  <2> QED
    BY <1>1, <1>2, <2>3 DEF Real, Ping, Chunk
<1> QED
  BY <1>1, <1>2, <1>4, <1>5

\* The receiver requests the next file: a ping ahead of everything has let it pass
\* only files that have nothing to take.
LEMMA request_file_PingInv ==
  ASSUME SizesKept, IInv, PingInv, NEW p \in Role, request_file(p) PROVE PingInv'
<1>1. TypeOK /\ Conversation
  BY DEF IInv
<1>2. /\ UNCHANGED <<offer, code, wire, pings, pinged, files, Received, OnWire>>
      /\ (Clean' <=> Clean)
      /\ pc[p] = "request" /\ index' = index + 1 /\ amount' = 0
  BY DEF request_file, Goto, given, pipeline, files, Received, OnWire, Clean
<1>3. /\ p = "receiver" /\ pc["receiver"] = "request" /\ index \in Nat /\ Len(files) \in Nat
      /\ pc'["receiver"] = "receive"
  <2>1. pc \in [Role -> PC]
    BY <1>1, TypeParts DEF SessionType
  <2> QED
    BY <1>1, <1>2, <2>1, WhoIsAt, LoopFacts DEF request_file, Goto
<1>4. \A c : (Real(c) <=> Real(c)')
  BY <1>2 DEF Real
<1>5. \A f : EmptyBefore(f) <=> EmptyBefore(f)'
  BY <1>2 DEF EmptyBefore
<1>6. \A c \in OnWire : c # Ping => Real(c)' /\ c.file <= index'
  <2>1. \A c \in OnWire : c # Ping => Real(c) /\ c.file <= index
    BY DEF PingInv
  <2>2. \A c : Real(c) => c.file \in Nat
    BY <1>3 DEF Real
  <2> QED
    BY <1>2, <1>3, <1>4, <2>1, <2>2
<1>7. \A d \in Received : d.chunk # Ping => Real(d.chunk)' /\ d.chunk.file <= d.into
  BY <1>4 DEF PingInv
<1>8. Untouched => Untouched'
  BY <1>2 DEF Untouched
<1>9. ASSUME pinged = {}, Ping \in OnWire PROVE PingAhead'
  <2>1. PingAhead
    BY <1>9 DEF PingInv
  <2>2. ASSUME code # "apart", NEW g \in 1..index' - 1 PROVE files[g].announced = 0
    <3>1. g = index \/ g \in 1..index - 1
      BY <1>2, <1>3
    <3>2. index > 0
      BY <1>2, <1>3
    <3> QED
      BY <1>3, <2>1, <2>2, <3>1, <3>2 DEF PingAhead, EmptyBefore
  <2>3. code # "apart" => EmptyBefore(index)'
    BY <1>2, <2>2 DEF EmptyBefore
  <2> QED
    BY <1>2, <1>3, <1>8, <2>1, <2>3 DEF PingAhead
<1>10. index' # 0
  BY <1>2, <1>3
<1>11. code # "apart" /\ pinged # {} => \E f \in pinged : EmptyBefore(f)'
  BY <1>5 DEF PingInv
<1>12. (code = "apart" =>
         /\ OnWire \subseteq {Ping}
         /\ \A d \in Received : d.chunk = Ping
         /\ pinged = {} => Untouched)'
  BY <1>2, <1>8 DEF PingInv
<1>13. pings' = 0 => Clean'
  BY <1>2 DEF PingInv
<1> QED
  BY <1>2, <1>6, <1>7, <1>9, <1>10, <1>11, <1>12, <1>13 DEF PingInv

\* It turns from a file with a ping ahead of it only when there is nothing to take.
LEMMA file_received_PingInv ==
  ASSUME SizesKept, IInv, PingInv, NEW p \in Role, file_received(p) PROVE PingInv'
<1>1. TypeOK /\ Conversation
  BY DEF IInv
<1>2. /\ UNCHANGED <<offer, code, index, amount, wire, pings, pinged, files, Received, OnWire>>
      /\ (Clean' <=> Clean)
      /\ pc[p] = "receive"
      /\ amount >= files[index].announced \/ (wire = <<>> /\ ~dataUp)
  BY DEF file_received, Goto, given, loops, pipeline, files, Received, OnWire, Clean
<1>3. index > 0 /\ index \in 1..Len(files)
  <2>1. Requesting /\ p = "receiver"
    BY <1>1, <1>2, WhoIsAt
  <2> QED
    BY <1>1, <1>2, <2>1, LoopFacts DEF Requesting
<1>4. \A c : (Real(c) <=> Real(c)')
  BY <1>2 DEF Real
<1>5. \A f : EmptyBefore(f) <=> EmptyBefore(f)'
  BY <1>2 DEF EmptyBefore
<1>6. Untouched <=> Untouched'
  BY <1>2 DEF Untouched
<1>7. ASSUME pinged = {}, Ping \in OnWire PROVE PingAhead'
  <2>1. PingAhead
    BY <1>7 DEF PingInv
  <2>2. wire # <<>>
    BY <1>7 DEF OnWire
  <2>3. files[index].announced = 0
    <3>1. files[index].announced \in Nat
      <4>1. files[index].actual \in Nat /\ files[index].announced = files[index].actual
        BY <1>1, <1>3, FileFacts
      <4> QED
        BY <4>1
    <3>2. amount = 0 /\ amount >= files[index].announced
      BY <1>2, <2>1, <2>2 DEF PingAhead, Untouched
    <3> QED
      BY <3>1, <3>2
  <2> QED
    BY <1>2, <1>5, <1>6, <2>1, <2>3 DEF PingAhead
<1>8. pings' = 0 => Clean'
  BY <1>2 DEF PingInv
<1>9. /\ \A c \in OnWire' : c # Ping => Real(c)' /\ c.file <= index'
      /\ \A d \in Received' : d.chunk # Ping => Real(d.chunk)' /\ d.chunk.file <= d.into
  BY <1>2, <1>4 DEF PingInv
<1>10. (code = "apart" =>
         /\ OnWire \subseteq {Ping}
         /\ \A d \in Received : d.chunk = Ping
         /\ pinged = {} => Untouched)'
  BY <1>2, <1>6 DEF PingInv
<1>11. (code # "apart" /\ pinged # {} => \E f \in pinged : EmptyBefore(f))'
  BY <1>2, <1>5 DEF PingInv
<1>12. index' = 0 => amount' = 0
  BY <1>2 DEF PingInv
<1> QED
  BY <1>2, <1>7, <1>8, <1>9, <1>10, <1>11, <1>12 DEF PingInv

\* The first ping is counted for the first file that has anything to take.
LEMMA receive_chunk_PingInv ==
  ASSUME IInv, PingInv, NEW p \in Role, receive_chunk(p) PROVE PingInv'
<1>1. TypeOK /\ Conversation
  BY DEF IInv
<1>2. /\ UNCHANGED <<offer, code, pc, index, decrypting, disk, pings, files>>
      /\ pc[p] = "receive" /\ wire # <<>> /\ wire' = Tail(wire)
      /\ pinged' = (IF Head(wire) = Ping THEN pinged \cup {index} ELSE pinged)
      /\ writeQ' = Append(writeQ, [into |-> index, chunk |-> Head(wire)])
  BY DEF receive_chunk, given, session, files
<1>3. index > 0 /\ index \in 1..Len(files)
  <2>1. Requesting /\ p = "receiver"
    BY <1>1, <1>2, WhoIsAt
  <2> QED
    BY <1>1, <1>2, <2>1, LoopFacts DEF Requesting
<1> DEFINE W == [file : 0..Len(files), num : Nat]
           D == [into : 1..Len(files), chunk : W]
<1>4. wire \in Seq(W) /\ writeQ \in Seq(D)
  BY <1>1, TypeParts DEF DataType
<1>5. Head(wire) \in W /\ Head(wire) = wire[1] /\ OnWire = OnWire' \cup {Head(wire)}
  <2> HIDE DEF W
  <2> QED
    BY <1>2, <1>4, TakenOut DEF OnWire
<1>6. PICK d : d = [into |-> index, chunk |-> Head(wire)]
  OBVIOUS
<1>7. d \in D /\ d.into = index /\ d.chunk = Head(wire)
  BY <1>3, <1>5, <1>6
<1>8. Received' = Received \cup {d}
  <2> HIDE DEF D
  <2>1. writeQ' = Append(writeQ, d) /\ writeQ \in Seq(D) /\ d \in D
    BY <1>2, <1>4, <1>6, <1>7
  <2>2. {writeQ'[i] : i \in DOMAIN writeQ'} = {writeQ[i] : i \in DOMAIN writeQ} \cup {d}
    BY <2>1, PutIn
  <2> QED
    BY <1>2, <2>2 DEF Received
<1>9. \A c : (Real(c) <=> Real(c)')
  BY <1>2 DEF Real
<1>10. \A f : EmptyBefore(f) <=> EmptyBefore(f)'
  BY <1>2 DEF EmptyBefore
<1>11. pings' = 0 => Clean'
  <2>1. pings' = 0 => Clean
    BY <1>2 DEF PingInv
  <2> QED
    BY <1>2, <1>5, <2>1 DEF Clean
<1>12. /\ \A c \in OnWire' : c # Ping => Real(c)' /\ c.file <= index'
       /\ \A e \in Received' : e.chunk # Ping => Real(e.chunk)' /\ e.chunk.file <= e.into
  <2>1. /\ \A c \in OnWire : c # Ping => Real(c) /\ c.file <= index
        /\ \A e \in Received : e.chunk # Ping => Real(e.chunk) /\ e.chunk.file <= e.into
    BY DEF PingInv
  <2>2. d.chunk # Ping => Real(d.chunk) /\ d.chunk.file <= d.into
    BY <1>5, <1>7, <2>1
  <2> QED
    BY <1>2, <1>5, <1>8, <1>9, <2>1, <2>2
<1>13. ASSUME code = "apart"
       PROVE  /\ OnWire' \subseteq {Ping} /\ pinged' # {}
              /\ \A e \in Received' : e.chunk = Ping
  <2>1. OnWire \subseteq {Ping} /\ \A e \in Received : e.chunk = Ping
    BY <1>13 DEF PingInv
  <2> QED
    BY <1>2, <1>5, <1>7, <1>8, <2>1
<1>14. ~(pinged' = {} /\ Ping \in OnWire')
  <2>1. SUFFICES ASSUME pinged' = {}, Ping \in OnWire' PROVE FALSE
    OBVIOUS
  <2>2. pinged = {} /\ Head(wire) # Ping /\ Ping \in OnWire
    BY <1>2, <1>5, <2>1
  <2> QED
    BY <1>5, <2>2 DEF PingInv, PingAhead
<1>15. ASSUME code # "apart", pinged' # {} PROVE \E f \in pinged' : EmptyBefore(f)'
  <2>1. CASE pinged # {}
    BY <1>2, <1>10, <1>15, <2>1 DEF PingInv
  <2>2. CASE pinged = {}
    <3>1. Head(wire) = Ping /\ index \in pinged'
      BY <1>2, <1>15, <2>2
    <3>2. EmptyBefore(index)
      BY <1>5, <1>15, <2>2, <3>1 DEF PingInv, PingAhead
    <3> QED
      BY <1>10, <3>1, <3>2
  <2> QED
    BY <2>1, <2>2
<1>16. index' # 0
  BY <1>2, <1>3
<1> QED
  BY <1>2, <1>11, <1>12, <1>13, <1>14, <1>15, <1>16 DEF PingInv

\* A chunk comes to stand behind the pings.
LEMMA encrypt_task_PingInv ==
  ASSUME SizesKept, IInv, DataInv, PingInv, encrypt_task PROVE PingInv'
<1>1. TypeOK /\ Conversation /\ QueueInv
  BY DEF IInv, DataInv
<1>2. PICK c \in encrypting :
        /\ encrypting' = encrypting \ {c}
        /\ IF dataUp /\ code # "apart" /\ pc["receiver"] \notin Ended
           THEN wire' = Append(wire, c)
           ELSE wire' = wire
        /\ UNCHANGED <<given, session, loops, readQ, dataUp, writeQ, decrypting, disk>>
  BY DEF encrypt_task
<1>3. UNCHANGED <<offer, code, pc, index, amount, pinged, pings, files, Received>>
  BY <1>2 DEF given, session, loops, files, Received
<1>4. CASE wire' = wire
  <2>1. OnWire' = OnWire
    BY <1>4 DEF OnWire
  <2> QED
    BY <1>3, <1>4, <2>1, PingsStay
<1>5. CASE wire' = Append(wire, c) /\ code # "apart"
  <2> DEFINE W == [file : 0..Len(files), num : Nat]
  <2>1. c \in W /\ wire \in Seq(W) /\ (wire = <<>> => Len(wire) = 0) /\ Len(wire) \in Nat
    BY <1>1, <1>2, WireFacts, TypeParts DEF DataType
  <2>2. OnWire' = OnWire \cup {c} /\ (wire # <<>> => wire'[1] = wire[1])
    <3> HIDE DEF W
    <3>1. OnWire' = OnWire \cup {c}
      BY <1>5, <2>1, PutIn DEF OnWire
    <3>2. wire # <<>> => 1 \in 1..Len(wire)
      BY <2>1, EmptySeq
    <3>3. \A i \in 1..Len(wire) : Append(wire, c)[i] = wire[i]
      BY <2>1, AppendProperties
    <3> QED
      BY <1>5, <3>1, <3>2, <3>3
  <2>3. Real(c) /\ c.file <= index /\ c # Ping
    <3>1. Sent(c) /\ c.file \in Nat /\ c.file > 0 /\ c.num \in Nat
      BY <1>1, <1>2, ChunkFacts DEF QueueInv
    <3>2. serving.file <= index
      <4>1. pc["receiver"] # "exited"
        BY <1>1, <1>2 DEF QueueInv
      <4> QED
        BY <1>1, <4>1, ServedIsRequested DEF Exited
    <3> QED
      BY <1>1, <3>1, <3>2, SentIsReal
  <2>4. (\A x : (Real(x) <=> Real(x)')) /\ (\A f : EmptyBefore(f) <=> EmptyBefore(f)')
    BY <1>3 DEF Real, EmptyBefore
  <2>5. pings' = 0 => Clean'
    BY <1>3, <2>2, <2>3 DEF PingInv, Clean
  <2>6. /\ \A x \in OnWire' : x # Ping => Real(x)' /\ x.file <= index'
        /\ \A d \in Received' : d.chunk # Ping => Real(d.chunk)' /\ d.chunk.file <= d.into
    BY <1>3, <2>2, <2>3, <2>4 DEF PingInv
  <2>7. ASSUME pinged' = {}, Ping \in OnWire' PROVE PingAhead'
    <3>0. Ping \in OnWire
      BY <2>2, <2>3, <2>7
    <3>1. PingAhead /\ wire # <<>>
      <4>1. PingAhead
        BY <1>3, <2>7, <3>0 DEF PingInv
      <4>2. wire # <<>>
        BY <3>0 DEF OnWire
      <4> QED
        BY <4>1, <4>2
    <3> QED
      BY <1>3, <2>2, <2>4, <3>1 DEF PingAhead, Untouched
  <2>8. (code # "apart" /\ pinged # {} => \E f \in pinged : EmptyBefore(f))'
    BY <1>3, <2>4 DEF PingInv
  <2> QED
    BY <1>3, <1>5, <2>5, <2>6, <2>7, <2>8 DEF PingInv
<1> QED
  BY <1>2, <1>4, <1>5

\* A receiver that is alone in its data room has requested nothing.
LEMMA AloneInData ==
  ASSUME IInv, InRoom, PingData, code # "apart" PROVE NoneRequested
<1>1. SUFFICES ASSUME ~NoneRequested PROVE FALSE
  OBVIOUS
<1>2. pc["sender"] \notin {"connect", "keepalive", "net"}
  BY <1>1 DEF IInv, Conversation, Unmet, Called, Greeted, Answered, Keyed, Offered, Refused,
     Requesting, Finishing, Serving, Returned, Exited
<1>3. /\ Len(joined.data) = 1 /\ DOMAIN joined.data = 1..1
      /\ \E i \in DOMAIN joined.data : joined.data[i] = "receiver"
      /\ \E i \in DOMAIN joined.data : joined.data[i] = "sender"
  <2>1. joined.data \in Seq(Role) /\ Len(joined.data) = 1
    BY TypeParts DEF IInv, SessionType, PingData
  <2>2. DOMAIN joined.data = 1..1
    BY <2>1, LenProperties
  <2> QED
    BY <1>2, <2>1, <2>2 DEF InRoom, PingData
<1>4. joined.data[1] = "receiver" /\ joined.data[1] = "sender"
  BY <1>3
<1> QED
  BY <1>4

\* The relay pings a receiver whose peer is not in the data room, or in another one.
LEMMA PingData_PingInv ==
  ASSUME SizesKept, IInv, InRoom, DataInv, PingInv, PingData PROVE PingInv'
<1>1. TypeOK
  BY DEF IInv
<1>2. /\ UNCHANGED <<offer, code, pc, index, amount, serving, pinged, files, Received>>
      /\ wire' = Append(wire, Ping) /\ pings' = pings + 1
  BY DEF PingData, given, loops, files, Received
<1> DEFINE W == [file : 0..Len(files), num : Nat]
<1>3. /\ wire \in Seq(W) /\ Len(wire) \in Nat /\ (wire = <<>> <=> Len(wire) = 0)
      /\ Len(files) \in Nat /\ Ping \in W
  BY <1>1, WireFacts, LoopFacts DEF Ping, Chunk
<1>4. /\ OnWire' = OnWire \cup {Ping}
      /\ wire # <<>> => wire'[1] = wire[1] /\ wire[1] \in OnWire
      /\ wire = <<>> => wire'[1] = Ping
  <2> HIDE DEF W
  <2>1. OnWire' = OnWire \cup {Ping}
    BY <1>2, <1>3, PutIn DEF OnWire
  <2>2. wire # <<>> => 1 \in 1..Len(wire)
    BY <1>3
  <2>3. /\ \A i \in 1..Len(wire) : Append(wire, Ping)[i] = wire[i]
        /\ Append(wire, Ping)[Len(wire) + 1] = Ping
    BY <1>3, AppendProperties
  <2>4. DOMAIN wire = 1..Len(wire)
    BY <1>3, LenProperties
  <2>5. wire = <<>> => Len(wire) + 1 = 1
    BY <1>3
  <2> QED
    BY <1>2, <2>1, <2>2, <2>3, <2>4, <2>5 DEF OnWire
<1>5. (\A x : (Real(x) <=> Real(x)')) /\ (\A f : EmptyBefore(f) <=> EmptyBefore(f)')
  BY <1>2 DEF Real, EmptyBefore
<1>6. pings' # 0
  BY <1>1, <1>2, TypeParts, BoundsAssumption DEF SessionType
<1>7. /\ \A x \in OnWire' : x # Ping => Real(x)' /\ x.file <= index'
      /\ \A d \in Received' : d.chunk # Ping => Real(d.chunk)' /\ d.chunk.file <= d.into
  BY <1>2, <1>4, <1>5 DEF PingInv
<1>8. (code = "apart" =>
         /\ OnWire \subseteq {Ping}
         /\ \A d \in Received : d.chunk = Ping
         /\ pinged = {} => Untouched)'
  BY <1>2, <1>4 DEF PingInv, Untouched
<1>9. ASSUME pinged' = {} PROVE PingAhead'
  <2>1. CASE Ping \in OnWire
    <3>1. PingAhead /\ wire # <<>>
      BY <1>2, <1>9, <2>1 DEF PingInv, OnWire
    <3> QED
      BY <1>2, <1>4, <1>5, <3>1 DEF PingAhead, Untouched
  <2>2. CASE Ping \notin OnWire /\ code = "apart"
    <3>1. OnWire = {} /\ Untouched
      BY <1>2, <1>9, <2>2 DEF PingInv
    <3>2. wire = <<>>
      BY <1>4, <3>1
    <3> QED
      BY <1>2, <1>4, <2>2, <3>1, <3>2 DEF PingAhead, Untouched
  <2>3. CASE Ping \notin OnWire /\ code # "apart"
    <3>1. index = 0 /\ serving.file = 0 /\ serving.next = 0 /\ amount = 0
      BY <2>3, AloneInData DEF NoneRequested, PingInv
    <3>2. Clean
      BY <1>2, <1>9, <2>3 DEF Clean
    <3>3. Received = {}
      <4>1. \A d \in Received : d.chunk.file > 0 /\ d.chunk.file \in Nat /\ Sent(d.chunk)
        BY <1>1, <3>2, ChunkFacts DEF DataInv, PlaceInv
      <4> QED
        BY <3>1, <4>1 DEF Sent
    <3>4. wire = <<>>
      <4>1. \A i \in DOMAIN wire : Sent(wire[i]) /\ wire[i].file \in Nat /\ wire[i].num \in Nat
        BY <1>1, <3>2, ChunkFacts DEF DataInv, PlaceInv
      <4>2. \A i \in DOMAIN wire : FALSE
        BY <3>1, <4>1 DEF Sent
      <4> QED
        BY <1>4, <4>2 DEF OnWire
    <3> QED
      BY <1>2, <1>4, <3>1, <3>3, <3>4 DEF PingAhead, Untouched, EmptyBefore
  <2> QED
    BY <2>1, <2>2, <2>3
<1>10. (code # "apart" /\ pinged # {} => \E f \in pinged : EmptyBefore(f))'
  BY <1>2, <1>5 DEF PingInv
<1>11. index' = 0 => amount' = 0
  BY <1>2 DEF PingInv
<1> QED
  BY <1>2, <1>6, <1>7, <1>8, <1>9, <1>10, <1>11 DEF PingInv

\* The other steps leave the pings where they are, or take them away.
LEMMA OtherSteps_PingInv ==
  ASSUME SizesKept, IInv, PingInv,
         \/ \E p \in Role : \/ Talk(p) \/ recv_finished(p) \/ recv_recipientready(p)
                            \/ send_file(p)
         \/ fs_reader_task \/ fs_writer_task \/ decrypt_task \/ PingControl
         \/ data_breaks \/ exit \/ UNCHANGED vars
  PROVE  PingInv'
<1>1. TypeOK /\ pc \in [Role -> PC] /\ Conversation /\ pings \in Nat
  BY TypeParts, BoundsAssumption DEF IInv, SessionType
<1>2. ASSUME UNCHANGED <<given, index, amount, pinged, wire, writeQ, decrypting, disk>>,
             pings' = 0 => pings = 0,
             pc["receiver"] = "receive" => pc'["receiver"] = "receive"
      PROVE  PingInv'
  <2>1. UNCHANGED <<offer, code, index, amount, pinged, wire, Received, OnWire>>
    BY <1>2 DEF given, Received, OnWire
  <2> QED
    BY <1>2, <2>1, PingsStay
<1>3. ASSUME NEW p \in Role, Talk(p) PROVE PingInv'
  <2>1. UNCHANGED <<given, index, amount, pinged, wire, writeQ, decrypting, disk>> /\ pings' = pings
    BY <1>1, <1>3, TalkMoves DEF DataSame, given, loops, pipeline
  <2>2. pc["receiver"] = "receive" => pc'["receiver"] = "receive"
    BY <1>1, <1>3, TalkMoves
  <2> QED
    BY <1>2, <2>1, <2>2
<1>4. ASSUME NEW p \in Role, recv_finished(p) \/ recv_recipientready(p) PROVE PingInv'
  <2>1. UNCHANGED <<given, index, amount, pinged, wire, writeQ, decrypting, disk>> /\ pings' = pings
    BY <1>4 DEF recv_finished, recv_recipientready, given, loops, pipeline
  <2>2. pc["receiver"] = "receive" => pc'["receiver"] = "receive"
    BY <1>1, <1>4 DEF recv_finished, recv_recipientready, Answer
  <2> QED
    BY <1>2, <2>1, <2>2
<1>5. ASSUME (\E p \in Role : send_file(p)) \/ fs_reader_task \/ PingControl \/ UNCHANGED vars
      PROVE  PingInv'
  <2>1. /\ UNCHANGED <<given, pc, index, amount, pinged, wire, writeQ, decrypting, disk>>
        /\ pings' = pings \/ pings' = pings + 1
    BY <1>5 DEF send_file, fs_reader_task, PingControl, vars, given, session, loops, pipeline
  <2> QED
    BY <1>1, <1>2, <2>1
<1>6. ASSUME fs_writer_task \/ decrypt_task PROVE PingInv'
  <2>1. UNCHANGED <<offer, code, pc, pings, index, amount, pinged, wire, OnWire>>
    BY <1>6 DEF fs_writer_task, decrypt_task, given, session, loops, OnWire
  <2>2. Received' \subseteq Received
    <3>1. CASE fs_writer_task
      <4> DEFINE D == [into : 1..Len(files), chunk : [file : 0..Len(files), num : Nat]]
      <4>1. writeQ \in Seq(D) /\ writeQ # <<>> /\ writeQ' = Tail(writeQ)
            /\ decrypting' = decrypting \cup {Head(writeQ)} /\ disk' = disk
        BY <1>1, <3>1, TypeParts DEF DataType, fs_writer_task
      <4> HIDE DEF D
      <4>2. {writeQ[i] : i \in DOMAIN writeQ}
              = {Tail(writeQ)[i] : i \in DOMAIN Tail(writeQ)} \cup {Head(writeQ)}
        BY <4>1, TakenOut
      <4> QED
        BY <4>1, <4>2 DEF Received
    <3>2. CASE decrypt_task
      BY <3>2 DEF decrypt_task, Received
    <3> QED
      BY <1>6, <3>1, <3>2
  <2> QED
    BY <2>1, <2>2, PingsStay
<1>7. ASSUME data_breaks PROVE PingInv'
  <2>1. UNCHANGED <<offer, code, pc, pings, index, amount, pinged, Received>>
    BY <1>7 DEF data_breaks, given, session, loops, Received
  <2>2. PICK n \in 0..Len(wire) : wire' = SubSeq(wire, 1, n)
    BY <1>7 DEF data_breaks
  <2> DEFINE W == [file : 0..Len(files), num : Nat]
  <2>3. wire \in Seq(W) /\ Len(wire) \in Nat /\ DOMAIN wire = 1..Len(wire)
    BY <1>1, WireFacts
  <2>4. DOMAIN wire' = 1..n /\ \A i \in 1..n : i \in DOMAIN wire /\ wire'[i] = wire[i]
    <3> HIDE DEF W
    <3>1. \A i \in 1..n : i \in 1..Len(wire)
      BY <2>3
    <3>2. wire' \in Seq(W) /\ Len(wire') = n /\ \A i \in 1..n : wire'[i] = wire[i]
      BY <2>2, <2>3, <3>1, SubSeqProperties
    <3> QED
      BY <2>3, <3>1, <3>2, LenProperties
  <2>5. OnWire' \subseteq OnWire /\ (Ping \in OnWire' => wire'[1] = wire[1])
    <3>1. OnWire' \subseteq OnWire
      BY <2>4 DEF OnWire
    <3>2. n \in Nat /\ (Ping \in OnWire' => 1 \in 1..n)
      BY <2>3, <2>4 DEF OnWire
    <3> QED
      BY <2>4, <3>1, <3>2
  <2> QED
    BY <2>1, <2>5, PingsStay
<1>8. ASSUME exit PROVE PingInv'
  <2>1. /\ UNCHANGED <<offer, code, index, amount, pings, pinged>>
        /\ OnWire' = {} /\ Received' \subseteq Received
    BY <1>8 DEF exit, given, loops, OnWire, Received
  <2> QED
    BY <2>1, PingsStay
<1> QED
  BY <1>3, <1>4, <1>5, <1>6, <1>7, <1>8

-----------------------------------------------------------------------------
(* The theorems.                                                           *)

LEMMA Init_DataInv == SizesKept /\ Init => DataInv /\ PingInv
<1> SUFFICES ASSUME SizesKept, Init PROVE DataInv /\ PingInv
  OBVIOUS
<1>1. /\ encrypting = {} /\ readQ = <<>> /\ wire = <<>> /\ writeQ = <<>> /\ decrypting = {}
      /\ disk = {} /\ index = 0 /\ amount = 0 /\ serving = [file |-> 0, next |-> 0]
      /\ pc = [p \in Role |-> "connect"] /\ TypeOK /\ pinged = {}
  BY Init_IInv DEF Init, IInv
<1>2. Behind = 0 /\ IsFiniteSet(encrypting) /\ Received = {}
  BY <1>1, FS_EmptySet DEF Behind, Received
<1>3. QueueInv
  BY <1>1, <1>2 DEF QueueInv
<1>4. CountInv
  BY <1>1, <1>2 DEF CountInv, OnTheWay, Accounted
<1>5. PlaceInv
  BY <1>1, <1>2 DEF PlaceInv
<1>6. ReturnInv
  BY <1>1 DEF ReturnInv
<1>7. CoverInv
  <2>1. \A w \in Wanted : w.chunk.file \in 1..Len(files) /\ w.chunk.file # 0
    BY <1>1, WantedAre
  <2>2. \A w \in Wanted : ~Sent(w.chunk)
    BY <1>1, <2>1 DEF Sent
  <2> QED
    BY <2>2 DEF CoverInv
<1>8. PingInv
  BY <1>1, <1>2 DEF PingInv, Clean, OnWire, Untouched
<1> QED
  BY <1>3, <1>4, <1>5, <1>6, <1>7, <1>8 DEF DataInv

LEMMA Next_DataInv == SizesKept /\ IInv /\ DataInv /\ PingInv /\ [Next]_vars => DataInv'
<1> SUFFICES ASSUME SizesKept, IInv, DataInv, PingInv, [Next]_vars PROVE DataInv'
  OBVIOUS
<1>1. ASSUME NEW p \in Role, SessionStep(p) PROVE DataInv'
  <2>1. ASSUME recv_finished(p) PROVE DataInv'
    <3>1. CASE p = "sender"
      BY <2>1, <3>1, recv_finished_DataInv
    <3>2. CASE p = "receiver"
      BY <2>1, <3>2, TalkSteps
    <3> QED
      BY <3>1, <3>2
  <2> QED
    BY <1>1, <2>1, TalkSteps, recv_recipientready_DataInv, request_file_DataInv,
       receive_chunk_DataInv, file_received_DataInv, send_file_DataInv DEF SessionStep, Talk
<1>2. ASSUME NEW p \in Role, refuse(p) PROVE DataInv'
  BY <1>2, TalkSteps DEF Talk
<1>3. ASSUME TaskStep PROVE DataInv'
  BY <1>3, fs_reader_task_DataInv, encrypt_task_DataInv, fs_writer_task_DataInv,
     decrypt_task_DataInv DEF TaskStep
<1>4. ASSUME PingData PROVE DataInv'
  <2>1. UNCHANGED <<given, pc, loops, readQ, encrypting>> /\ ~Clean'
    <3>1. wire' = Append(wire, Ping) /\ UNCHANGED <<given, pc, loops, readQ, encrypting>>
      BY <1>4 DEF PingData
    <3> DEFINE W == [file : 0..Len(files), num : Nat]
    <3>2. Ping \in W /\ wire \in Seq(W)
      BY WireFacts, LoopFacts DEF IInv, Ping, Chunk
    <3> HIDE DEF W
    <3>3. Ping \in OnWire'
      BY <3>1, <3>2, PutIn DEF OnWire
    <3> QED
      BY <3>1, <3>3 DEF Clean
  <2>2. UNCHANGED <<offer, index, serving, files>>
    BY <2>1 DEF given, loops, files
  <2>3. \A c : Sent(c) <=> Sent(c)'
    BY <2>2 DEF Sent
  <2>4. QueueInv'
    BY <2>1, <2>2, <2>3 DEF DataInv, QueueInv
  <2>5. CountInv' /\ PlaceInv' /\ CoverInv' /\ ReturnInv'
    BY <2>1 DEF CountInv, Counting, PlaceInv, CoverInv, ReturnInv
  <2> QED
    BY <2>4, <2>5 DEF DataInv
<1>5. ASSUME PingControl \/ UNCHANGED vars PROVE DataInv'
  BY <1>5, DataStays DEF PingControl, vars, session
<1> QED
  BY <1>1, <1>2, <1>3, <1>4, <1>5, data_breaks_DataInv, exit_DataInv DEF Next

LEMMA Next_PingInv ==
  SizesKept /\ IInv /\ InRoom /\ DataInv /\ PingInv /\ [Next]_vars => PingInv'
<1> SUFFICES ASSUME SizesKept, IInv, InRoom, DataInv, PingInv, [Next]_vars PROVE PingInv'
  OBVIOUS
<1>1. ASSUME NEW p \in Role, SessionStep(p) \/ refuse(p) PROVE PingInv'
  BY <1>1, OtherSteps_PingInv, request_file_PingInv, file_received_PingInv, receive_chunk_PingInv
     DEF SessionStep, Talk
<1> QED
  BY <1>1, OtherSteps_PingInv, encrypt_task_PingInv, PingData_PingInv DEF Next, TaskStep

\* Where the data and the pings are, for offers whose files keep their sizes.
THEOREM DataInvariance ==
  ASSUME SizesKept PROVE Spec => [](IInv /\ DataInv /\ PingInv)
<1>1. Init => IInv /\ InRoom /\ DataInv /\ PingInv
  BY Init_IInv, Init_DataInv DEF Init, InRoom
<1>2. IInv /\ InRoom /\ DataInv /\ PingInv /\ [Next]_vars =>
        (IInv /\ InRoom /\ DataInv /\ PingInv)'
  BY Next_IInv, InRoomNext, Next_DataInv, Next_PingInv
<1> QED
  BY <1>1, <1>2, PTL DEF Spec

\* Whatever else goes wrong, a chunk only ends up in another file than its own when
\* a ping was counted as a chunk of its file or of one before it, and then in a
\* later one (client_session.rs:216-237).
THEOREM MisplacedIsPinged ==
  ASSUME SizesKept PROVE Spec => []MisplacedMeansPinged
<1>1. IInv /\ DataInv /\ PingInv => MisplacedMeansPinged
  <2>1. SUFFICES ASSUME IInv, DataInv, PingInv, NEW d \in Received,
                        d.chunk # Ping, d.into # d.chunk.file
                 PROVE  d.chunk.file < d.into /\ \E f \in pinged : f <= d.chunk.file
    BY DEF MisplacedMeansPinged
  <2>2. Real(d.chunk) /\ d.chunk.file <= d.into
    BY <2>1 DEF PingInv
  <2>3. d.chunk.file \in Nat /\ d.into \in Nat /\ d.chunk.num \in Nat
    BY <2>1, ChunkFacts DEF IInv
  <2>4. code # "apart"
    BY <2>1 DEF PingInv
  <2>5. pinged # {}
    <3>1. SUFFICES ASSUME pinged = {} PROVE FALSE
      OBVIOUS
    <3>2. Ping \in OnWire => Received = {}
      BY <2>1, <3>1 DEF PingInv, PingAhead, Untouched
    <3>3. Clean => d.into = d.chunk.file
      BY <2>1 DEF DataInv, PlaceInv
    <3> QED
      BY <2>1, <3>1, <3>2, <3>3 DEF Clean
  <2>6. PICK f \in pinged : EmptyBefore(f)
    BY <2>1, <2>4, <2>5 DEF PingInv
  <2>7. f \in Nat /\ Len(files) \in Nat
    BY <2>1, <2>6, TypeParts, LoopFacts DEF IInv, LoopType
  <2>8. f <= d.chunk.file
    <3>1. SUFFICES ASSUME d.chunk.file < f PROVE FALSE
      BY <2>3, <2>7
    <3>2. d.chunk.file \in 1..f - 1 /\ d.chunk.file \in 1..Len(files)
      BY <2>2, <2>3, <2>7, <3>1 DEF Real
    <3>3. files[d.chunk.file].announced = 0 /\ d.chunk.num < files[d.chunk.file].actual
      BY <2>2, <2>6, <3>2 DEF EmptyBefore, Real
    <3>4. files[d.chunk.file].actual = files[d.chunk.file].announced
      BY <2>1, <3>2, FileFacts DEF IInv
    <3> QED
      BY <2>3, <3>3, <3>4
  <2> QED
    BY <2>1, <2>2, <2>3, <2>8
<1> QED
  BY <1>1, DataInvariance, PTL

\* What the receiver has taken, without a ping, was offered.
LEMMA SentIsWanted ==
  ASSUME SizesKept, TypeOK, QueueInv, NEW d,
         d \in [into : 1..Len(files), chunk : [file : 0..Len(files), num : Nat]],
         d.into = d.chunk.file, Sent(d.chunk)
  PROVE  d \in Wanted
<1> DEFINE f == d.into
           k == d.chunk.num
<1>1. /\ Len(files) \in Nat /\ serving.file \in 0..Len(files) /\ serving.next \in Nat
      /\ \A g \in 1..Len(files) :
            files[g].actual \in Nat /\ files[g].announced = files[g].actual
  BY FileFacts, LoopFacts
<1>2. f \in 1..Len(files) /\ k \in Nat /\ d = [into |-> f, chunk |-> Chunk(f, k)]
  BY DEF Chunk
<1>3. files[f].actual \in Nat /\ f # 0
  BY <1>1, <1>2
<1>4. serving.next <= (IF serving.file = 0 THEN 0 ELSE files[serving.file].actual)
  BY DEF QueueInv
<1>5. k < files[f].actual
  BY <1>1, <1>2, <1>3, <1>4 DEF Sent
<1> HIDE DEF f, k
<1> QED
  BY <1>2, <1>5, WantedAre

LEMMA ReceivedTypes ==
  ASSUME TypeOK
  PROVE  \A d \in Received :
           d \in [into : 1..Len(files), chunk : [file : 0..Len(files), num : Nat]]
<1> DEFINE D == [into : 1..Len(files), chunk : [file : 0..Len(files), num : Nat]]
<1>1. writeQ \in Seq(D) /\ \A d \in decrypting \cup disk : d \in D
  BY TypeParts DEF DataType
<1> HIDE DEF D
<1>2. \A i \in DOMAIN writeQ : writeQ[i] \in D
  BY <1>1, ElementOfSeq, LenProperties
<1>3. \A d \in Received : d \in D
  BY <1>1, <1>2 DEF Received
<1> QED
  BY <1>3 DEF D

LEMMA ReceivedIsWanted ==
  ASSUME SizesKept, IInv, DataInv, Clean
  PROVE  Received \subseteq Wanted
<1>1. ASSUME NEW d \in Received PROVE d \in Wanted
  <2>1. d.into = d.chunk.file /\ Sent(d.chunk)
    BY DEF DataInv, PlaceInv
  <2>2. d \in [into : 1..Len(files), chunk : [file : 0..Len(files), num : Nat]]
    BY ReceivedTypes DEF IInv
  <2> QED
    BY <2>1, <2>2, SentIsWanted DEF IInv, DataInv
<1> QED
  BY <1>1

\* What was sent and is neither in the sender nor on the way has been received.
LEMMA SentIsReceived ==
  ASSUME SizesKept, IInv, DataInv, Clean, code = "same", dataUp,
         pc["receiver"] \notin {"failed", "panicked", "exited"},
         NEW w \in Wanted, Sent(w.chunk), w.chunk \notin encrypting \cup InReadQ \cup OnWire
  PROVE  w \in Received
<1>1. Held(w.chunk)
  BY DEF DataInv, CoverInv
<1>2. PICK d \in Received : d.chunk = w.chunk
  BY <1>1, Places
<1>3. d.into = w.chunk.file
  BY <1>2 DEF DataInv, PlaceInv
<1>4. d = [into |-> d.into, chunk |-> d.chunk]
  <2>1. d \in [into : 1..Len(files), chunk : [file : 0..Len(files), num : Nat]]
    BY ReceivedTypes DEF IInv
  <2> QED
    BY <2>1
<1>5. w = [into |-> w.chunk.file, chunk |-> w.chunk]
  BY WantedAre DEF IInv
<1> QED
  BY <1>2, <1>3, <1>4, <1>5

\* When everything was sent and nothing is on the way, all of it was received.
LEMMA AllReceived ==
  ASSUME SizesKept, IInv, DataInv, Clean, code = "same", dataUp,
         pc["receiver"] \notin {"failed", "panicked", "exited"},
         Behind = 0, wire = <<>>, \A w \in Wanted : Sent(w.chunk)
  PROVE  Received = Wanted
<1>1. encrypting = {} /\ InReadQ = {} /\ OnWire = {}
  <2>1. encrypting = {} /\ readQ = <<>>
    BY BehindFacts DEF IInv, DataInv
  <2> QED
    BY <2>1 DEF InReadQ, OnWire
<1>2. Wanted \subseteq Received
  BY <1>1, SentIsReceived
<1> QED
  BY <1>2, ReceivedIsWanted

\* When both sessions have returned and no ping was counted, none is on the way
\* either, or there was nothing to transfer.
LEMMA ReturnedIsClean ==
  ASSUME SizesKept, IInv, DataInv, PingInv, pinged = {}, code = "same", dataUp,
         pc["sender"] = "done", pc["receiver"] = "done"
  PROVE  Clean \/ Wanted = {}
<1>1. SUFFICES ASSUME Ping \in OnWire PROVE Wanted = {}
  BY DEF Clean
<1>2. TypeOK /\ index = Len(files)
  BY DEF IInv, Conversation, Unmet, Called, Greeted, Answered, Keyed, Offered, Refused,
     Requesting, Finishing, Serving, Returned, Exited
<1>3. EmptyBefore(index) /\ (index > 0 => files[index].announced = 0)
  BY <1>1 DEF PingInv, PingAhead
<1>4. ASSUME NEW w \in Wanted PROVE FALSE
  <2>1. /\ w.chunk.file \in 1..Len(files) /\ w.chunk.num \in Nat
        /\ w.chunk.num < files[w.chunk.file].actual
    BY <1>2, WantedAre
  <2>2. Len(files) \in Nat /\ files[w.chunk.file].announced = files[w.chunk.file].actual
    BY <1>2, <2>1, FileFacts
  <2>3. w.chunk.file = index \/ w.chunk.file \in 1..index - 1
    BY <1>2, <2>1, <2>2
  <2>4. files[w.chunk.file].announced = 0
    BY <1>2, <1>3, <2>1, <2>2, <2>3 DEF EmptyBefore
  <2> QED
    BY <2>1, <2>2, <2>4
<1> QED
  BY <1>4

\* Only one who has the key writes anything.
LEMMA NoKeyNoData ==
  ASSUME TypeOK, code # "same" => disk = {}, [Next]_vars
  PROVE  (code # "same" => disk = {})'
<1>1. code' = code
  BY DEF Next, vars, SessionStep, TaskStep, connect, handle_keepalive, process_client,
     process_key_exchange, process_ip_exchange, recv_finished, process_files_info,
     create_empty_folders, accept, accept_nothing, recv_recipientready, recv_error,
     recv_unparsable, request_file, receive_chunk, file_received, finish, send_file, file_sent,
     refuse, PingControl, PingData, fs_reader_task, encrypt_task, fs_writer_task, decrypt_task,
     data_breaks, exit, given
<1>2. CASE decrypt_task
  BY <1>1, <1>2 DEF decrypt_task, decrypt
<1>3. CASE ~decrypt_task
  <2>1. disk' = disk
    BY <1>3 DEF Next, vars, SessionStep, TaskStep, connect, handle_keepalive, process_client,
       process_key_exchange, process_ip_exchange, recv_finished, process_files_info,
       create_empty_folders, accept, accept_nothing, recv_recipientready, recv_error,
       recv_unparsable, request_file, receive_chunk, file_received, finish, send_file,
       file_sent, refuse, PingControl, PingData, fs_reader_task, encrypt_task, fs_writer_task,
       data_breaks, exit, pipeline
  <2> QED
    BY <1>1, <2>1
<1> QED
  BY <1>2, <1>3

\* What both sessions take for done is on the disk, unless a ping was counted as
\* a chunk, the data connection broke, the keys differ or the data rooms do; and
\* clients whose secrets are not the same write nothing
\* (client_session.rs:216-241, fs.rs:64-85).
THEOREM LossIsCaused ==
  ASSUME SizesKept PROVE Spec => []LossHasACause
<1>1. IInv /\ DataInv /\ PingInv /\ (code # "same" => disk = {}) => LossHasACause
  <2>1. SUFFICES ASSUME IInv, DataInv, PingInv, pc["sender"] = "done", pc["receiver"] = "done",
                        pinged = {}, dataUp, code = "same", Received = disk
                 PROVE  disk = Wanted
    <3>1. IInv => dataUp \in BOOLEAN
      BY TypeParts DEF IInv, DataType
    <3> QED
      BY <3>1 DEF LossHasACause
  <2>2. CASE Clean
    <3>1. wire = <<>> /\ Behind = 0 /\ \A w \in Wanted : Sent(w.chunk)
      BY <2>1, <2>2 DEF DataInv, ReturnInv
    <3> QED
      BY <2>1, <2>2, <3>1, AllReceived
  <2>3. CASE ~Clean
    <3>1. Received = {}
      BY <2>1, <2>3 DEF Clean, PingInv, PingAhead, Untouched
    <3>2. Wanted = {}
      BY <2>1, <2>3, ReturnedIsClean
    <3> QED
      BY <2>1, <3>1, <3>2
  <2> QED
    BY <2>2, <2>3
<1>2. Init => (code # "same" => disk = {})
  BY DEF Init
<1>3. IInv /\ (code # "same" => disk = {}) /\ [Next]_vars => (code # "same" => disk = {})'
  BY NoKeyNoData DEF IInv
<1>4. Spec => []IInv
  BY Invariance
<1>5. Spec => [](code # "same" => disk = {})
  BY <1>2, <1>3, <1>4, PTL DEF Spec
<1> QED
  BY <1>1, <1>5, DataInvariance, PTL

\* A relay that does not ping, and a data connection that stays.
LEMMA NoPing ==
  ASSUME MaxPings = 0 PROVE IInv /\ PingInv => Clean
BY TypeParts DEF IInv, SessionType, PingInv

LEMMA StaysUp ==
  ASSUME ~DataMayBreak PROVE Spec => []dataUp
<1>1. Init => dataUp
  BY DEF Init
<1>2. dataUp /\ [Next]_vars => dataUp'
  BY DEF Next, vars, SessionStep, TaskStep, connect, handle_keepalive, process_client,
     process_key_exchange, process_ip_exchange, recv_finished, process_files_info,
     create_empty_folders, accept, accept_nothing, recv_recipientready, recv_error,
     recv_unparsable, request_file, receive_chunk, file_received, finish, send_file, file_sent,
     refuse, PingControl, PingData, fs_reader_task, encrypt_task, fs_writer_task, decrypt_task,
     data_breaks, exit, pipeline
<1> QED
  BY <1>1, <1>2, PTL DEF Spec

\* Without pings a chunk is only written into the file it was read from, whatever
\* happens to the data connection and whatever the keys
\* (client_session.rs:216-237, fs.rs:46).
THEOREM NothingMisplaced ==
  ASSUME SizesKept, MaxPings = 0 PROVE Spec => []ChunksGoToTheirOwnFile
<1>1. IInv /\ DataInv /\ PingInv => ChunksGoToTheirOwnFile
  BY NoPing DEF DataInv, PlaceInv, ChunksGoToTheirOwnFile
<1> QED
  BY <1>1, DataInvariance, PTL

\* Over a connection that stays, all that the sender has read has left it, and has
\* been taken off the connection, when its session returns (client_session.rs:160-163).
THEOREM NothingLeftBehind ==
  ASSUME SizesKept, MaxPings = 0, ~DataMayBreak, "apart" \notin Codes
  PROVE  Spec => []SenderLeavesNothingBehind
<1>1. IInv /\ DataInv /\ PingInv /\ dataUp => SenderLeavesNothingBehind
  <2>1. SUFFICES ASSUME IInv, DataInv, PingInv, dataUp, pc["sender"] = "done"
                 PROVE  readQ = <<>> /\ encrypting = {} /\ wire = <<>>
    BY DEF SenderLeavesNothingBehind
  <2>2. Clean /\ code # "apart" /\ TypeOK
    BY <2>1, NoPing, TypeParts DEF IInv, GivenType
  <2>3. wire = <<>> /\ Behind = 0
    BY <2>1, <2>2 DEF DataInv, ReturnInv
  <2> QED
    BY <2>1, <2>2, <2>3, BehindFacts DEF DataInv
<1> QED
  BY <1>1, DataInvariance, StaysUp, PTL

-----------------------------------------------------------------------------
(* A transfer without a fault.                                             *)

\* No pings, a data connection that stays, secrets that agree, and a program that
\* does not end before its tasks.  The user may still refuse.
NoFault == MaxPings = 0 /\ ~DataMayBreak /\ Codes \subseteq {"same"} /\ ~MayExit

Faultless == Clean /\ code = "same" /\ dataUp /\ pc["receiver"] # "exited"

LEMMA NoFaultOccurs ==
  ASSUME SizesKept, NoFault PROVE Spec => []Faultless
<1>1. Init => pc["receiver"] # "exited"
  BY DEF Init
<1>2. IInv /\ pc["receiver"] # "exited" /\ [Next]_vars => (pc["receiver"] # "exited")'
  <2> SUFFICES ASSUME IInv, pc["receiver"] # "exited", [Next]_vars
               PROVE  pc'["receiver"] # "exited"
    OBVIOUS
  <2>1. TypeOK /\ pc \in [Role -> PC]
    BY TypeParts DEF IInv, SessionType
  <2>2. ASSUME NEW p \in Role, Talk(p) PROVE pc'["receiver"] # "exited"
    BY <2>1, <2>2, TalkMoves
  <2>3. ASSUME NEW p \in Role,
               recv_finished(p) \/ recv_recipientready(p) \/ request_file(p) \/ file_received(p)
        PROVE  pc'["receiver"] # "exited"
    BY <2>1, <2>3 DEF recv_finished, recv_recipientready, request_file, file_received, Goto
  <2>4. ASSUME NEW p \in Role, receive_chunk(p) \/ send_file(p) PROVE pc' = pc
    BY <2>4 DEF receive_chunk, send_file, session
  <2>5. ASSUME TaskStep \/ PingControl \/ PingData \/ data_breaks \/ UNCHANGED vars
        PROVE  pc' = pc
    BY <2>5 DEF TaskStep, fs_reader_task, encrypt_task, fs_writer_task, decrypt_task,
       PingControl, PingData, data_breaks, session, vars
  <2>6. ~exit
    BY DEF exit, NoFault
  <2> QED
    BY <2>2, <2>3, <2>4, <2>5, <2>6 DEF Next, SessionStep, Talk
<1>3. IInv /\ PingInv /\ dataUp /\ pc["receiver"] # "exited" => Faultless
  <2>1. IInv /\ PingInv => Clean
    BY NoPing DEF NoFault
  <2>2. IInv => code \in Codes
    BY TypeParts DEF IInv, GivenType
  <2>3. IInv => code = "same"
    BY <2>2 DEF NoFault
  <2> QED
    BY <2>1, <2>3 DEF Faultless
<1>4. Spec => []dataUp
  BY StaysUp DEF NoFault
<1>5. Spec => []IInv
  BY Invariance
<1>6. Spec => [](pc["receiver"] # "exited")
  BY <1>1, <1>2, <1>5, PTL DEF Spec
<1> QED
  BY <1>3, <1>4, <1>6, DataInvariance, PTL

\* The receiver that says Finished has everything.
LEMMA FinishingIsReceived ==
  ASSUME SizesKept, IInv, DataInv, Faultless, Finishing
  PROVE  Received = Wanted
<1>1. TypeOK /\ pc["receiver"] = "recv" /\ index = Len(files) /\ serving.file <= index
  BY DEF IInv, Finishing, Serving
<1>2. /\ Len(files) \in Nat /\ serving.file \in Nat /\ serving.next \in Nat /\ amount \in Nat
      /\ Behind \in Nat /\ (wire = <<>> => Len(wire) = 0)
      /\ \A f \in 1..Len(files) :
            files[f].actual \in Nat /\ files[f].announced = files[f].actual
  BY <1>1, FileFacts, LoopFacts, BehindFacts, WireFacts DEF DataInv
<1>3. OnTheWay /\ Accounted
  BY <1>1 DEF Faultless, DataInv, CountInv, Counting, Ended
<1>4. wire = <<>> /\ Len(wire) = 0
  BY <1>1, <1>2, <1>3 DEF OnTheWay
<1>5. index > 0 => amount >= files[index].actual /\ files[index].actual \in Nat
  <2>1. index > 0 => amount >= files[index].announced
    BY <1>1, <1>3 DEF Accounted
  <2>2. index > 0 => index \in 1..Len(files)
    BY <1>1, <1>2
  <2> QED
    BY <1>2, <2>1, <2>2
<1>6. CASE serving.file = index
  <2>1. amount + Behind = serving.next
    BY <1>2, <1>3, <1>4, <1>6 DEF Accounted
  <2>2. serving.next <= (IF index = 0 THEN 0 ELSE files[index].actual)
    BY <1>6 DEF DataInv, QueueInv
  <2>3. Behind = 0 /\ (index > 0 => serving.next = files[index].actual)
    <3>1. CASE index = 0
      BY <1>2, <2>1, <2>2, <3>1
    <3>2. CASE index > 0
      BY <1>2, <1>5, <2>1, <2>2, <3>2
    <3> QED
      BY <1>1, <1>2, <3>1, <3>2
  <2>4. \A w \in Wanted : Sent(w.chunk)
    <3>1. \A w \in Wanted : /\ w.chunk.file \in 1..Len(files)
                            /\ w.chunk.num < files[w.chunk.file].actual
      BY <1>1, WantedAre
    <3> QED
      BY <1>1, <1>2, <1>6, <2>3, <3>1 DEF Sent
  <2> QED
    BY <1>1, <1>4, <2>3, <2>4, AllReceived DEF Faultless
<1>7. CASE serving.file < index
  <2>1. /\ Behind = 0 /\ amount = 0
        /\ serving.file > 0 => serving.next = files[serving.file].actual
        /\ \A f \in serving.file + 1..index - 1 : files[f].actual = 0
    BY <1>3, <1>7 DEF OnTheWay, Accounted
  <2>2. files[index].actual = 0
    <3>1. index > 0
      BY <1>1, <1>2, <1>7
    <3>2. files[index].actual \in Nat /\ amount >= files[index].actual /\ amount = 0
      BY <1>5, <2>1, <3>1
    <3> QED
      BY <3>2
  <2>3. ASSUME NEW w \in Wanted PROVE Sent(w.chunk)
    <3>1. /\ w.chunk.file \in 1..Len(files) /\ w.chunk.num \in Nat
          /\ w.chunk.num < files[w.chunk.file].actual
      BY <1>1, WantedAre
    <3>2. files[w.chunk.file].actual # 0
      BY <1>2, <3>1
    <3>3. w.chunk.file # index /\ w.chunk.file \notin serving.file + 1..index - 1
      BY <2>1, <2>2, <3>2
    <3>4. w.chunk.file <= serving.file /\ w.chunk.file > 0
      BY <1>1, <1>2, <3>1, <3>3
    <3> QED
      BY <1>2, <2>1, <3>1, <3>4 DEF Sent
  <2> QED
    BY <1>1, <1>4, <2>1, <2>3, AllReceived DEF Faultless
<1> QED
  BY <1>1, <1>2, <1>6, <1>7

\* When the word "finished" is on its way to the sender.
LEMMA FinishedIsSaid ==
  ASSUME IInv, NEW i \in DOMAIN ToSender, ToSender[i].type = "finished"
  PROVE  Finishing \/ (Returned /\ pc["receiver"] = "done") \/ Exited
<1>1. /\ \A t \in MsgType : Msg(t).type = t
      /\ \A j : Ready(j).type = "recipientready"
  BY MessagesAre
<1>2. ToSender \in Seq(Message) /\ TypeOK /\ Conversation
  BY TypeParts DEF IInv, SessionType
<1>3. i \in 1..Len(ToSender) /\ Len(ToSender) \in Nat
  BY <1>2, LenProperties
<1>4. /\ ~OnlyPings(ToSender) /\ ToSender # <<>>
      /\ \A t \in MsgType : ToSender = <<Msg(t)>> => t = "finished"
  <2>1. ~OnlyPings(ToSender)
    BY <1>1, <1>3 DEF OnlyPings, MsgType
  <2>2. ToSender # <<>>
    BY <1>3
  <2>3. \A t \in MsgType : ToSender = <<Msg(t)>> => t = "finished"
    <3>1. \A m : ToSender = <<m>> => ToSender[i] = m
      BY <1>3
    <3> QED
      BY <1>1, <3>1
  <2> QED
    BY <2>1, <2>2, <2>3
<1>5. \A m : PingsThen(ToSender, <<m>>) /\ m.type # "finished" => FALSE
  <2>1. \A m : PingsThen(ToSender, <<m>>) =>
          \A j \in 1..Len(ToSender) : ToSender[j] = m \/ ToSender[j] = Msg("ping")
    <3>1. \A m : Len(<<m>>) = 1 /\ <<m>>[1] = m
      OBVIOUS
    <3> QED
      BY <1>3, <3>1 DEF PingsThen
  <2> QED
    BY <1>1, <1>3, <2>1 DEF MsgType
<1>6. \A m, n : PingsThen(ToSender, <<m, n>>) /\ m.type # "finished" /\ n.type # "finished" => FALSE
  <2>1. \A m, n : PingsThen(ToSender, <<m, n>>) =>
          \A j \in 1..Len(ToSender) : ToSender[j] \in {m, n, Msg("ping")}
    <3>1. \A m, n : Len(<<m, n>>) = 2 /\ <<m, n>>[1] = m /\ <<m, n>>[2] = n
      OBVIOUS
    <3>2. ASSUME NEW m, NEW n, PingsThen(ToSender, <<m, n>>), NEW j \in 1..Len(ToSender)
          PROVE  ToSender[j] \in {m, n, Msg("ping")}
      <4>1. /\ \A k \in 1..Len(ToSender) - 2 : ToSender[k] = Msg("ping")
            /\ ToSender[Len(ToSender) - 2 + 1] = m /\ ToSender[Len(ToSender) - 2 + 2] = n
        BY <3>1, <3>2 DEF PingsThen
      <4>2. j \in 1..Len(ToSender) - 2 \/ j = Len(ToSender) - 2 + 1 \/ j = Len(ToSender) - 2 + 2
        BY <1>3
      <4> QED
        BY <4>1, <4>2
    <3> QED
      BY <3>2
  <2> QED
    BY <1>1, <1>3, <2>1 DEF MsgType
<1>7. ~Unmet /\ ~Called /\ ~Greeted
  <2>1. ~Unmet
    BY <1>4 DEF Unmet
  <2>2. ~PingsThen(ToSender, <<Msg("handshake")>>)
        /\ ~PingsThen(ToSender, <<Msg("handshake"), Msg("pake")>>)
    BY <1>1, <1>5, <1>6 DEF MsgType
  <2>3. ~Called
    BY <1>4, <2>2 DEF Called
  <2>4. ~Greeted
    BY <1>4, <2>2 DEF Greeted, MsgType
  <2> QED
    BY <2>1, <2>3, <2>4
<1>8. ~Answered /\ ~Keyed /\ ~Offered /\ ~Refused
  BY <1>4 DEF Answered, Keyed, Offered, Refused, MsgType
<1>9. ~Requesting
  BY <1>1, <1>3 DEF Requesting, Requests
<1>10. Returned => pc["receiver"] = "done"
  BY <1>4 DEF Returned
<1> QED
  BY <1>2, <1>7, <1>8, <1>9, <1>10 DEF Conversation

\* The receiver says Finished only when it has taken every offered chunk off the
\* data connection (client_session.rs:240-241).
THEOREM FinishedIsReceived ==
  ASSUME SizesKept, NoFault PROVE Spec => []FinishedMeansReceived
<1>1. IInv /\ DataInv /\ Faultless => FinishedMeansReceived
  <2>1. SUFFICES ASSUME IInv, DataInv, Faultless, NEW i \in DOMAIN ToSender,
                        ToSender[i].type = "finished"
                 PROVE  Received = Wanted
    BY DEF FinishedMeansReceived
  <2>2. Finishing \/ (Returned /\ pc["receiver"] = "done") \/ Exited
    BY <2>1, FinishedIsSaid
  <2>3. ASSUME Returned, pc["receiver"] = "done" PROVE Received = Wanted
    <3>1. wire = <<>> /\ Behind = 0 /\ \A w \in Wanted : Sent(w.chunk)
      BY <2>1, <2>3 DEF Faultless, DataInv, ReturnInv, Returned
    <3> QED
      BY <2>1, <2>3, <3>1, AllReceived DEF Faultless
  <2> QED
    BY <2>1, <2>2, <2>3, FinishingIsReceived DEF Exited, Faultless
<1> QED
  BY <1>1, DataInvariance, NoFaultOccurs, PTL

-----------------------------------------------------------------------------
(* A transfer without a fault implements Delivery.                         *)

\* The sessions that have returned.
Done == {p \in Role : pc[p] = "done"}

\* What Delivery sees of a transfer.
Unseen == UNCHANGED <<Wanted, Received, disk, Done>>

\* A chunk taken off the data connection is one of the file the receiver is at,
\* and all chunks of the files before have been taken.
LEMMA receive_chunk_Takes ==
  ASSUME SizesKept, IInv, DataInv, Faultless, NEW p \in Role, receive_chunk(p)
  PROVE  Unseen \/ \E c \in Wanted : Delivered!Take(c)
<1>1. TypeOK /\ Conversation /\ Clean /\ code = "same" /\ dataUp
  BY DEF IInv, Faultless
<1>2. /\ UNCHANGED <<pc, decrypting, disk, Wanted, Done>>
      /\ pc[p] = "receive" /\ wire # <<>>
      /\ writeQ' = Append(writeQ, [into |-> index, chunk |-> Head(wire)])
  BY DEF receive_chunk, given, session, files, Wanted, Done
<1>3. p = "receiver" /\ Requesting
  BY <1>1, <1>2, WhoIsAt
<1>4. pc["receiver"] = "receive" /\ index > 0 /\ serving.file <= index
  BY <1>2, <1>3 DEF Requesting, Serving
<1>5. /\ Len(files) \in Nat /\ index \in 0..Len(files) /\ serving.file \in Nat
  BY <1>1, LoopFacts
<1> DEFINE W == [file : 0..Len(files), num : Nat]
           D == [into : 1..Len(files), chunk : W]
<1>6. wire \in Seq(W) /\ writeQ \in Seq(D)
  BY <1>1, TypeParts DEF DataType
<1>7. Head(wire) \in W /\ Head(wire) \in OnWire
  <2> HIDE DEF W
  <2> QED
    BY <1>2, <1>6, TakenOut DEF OnWire
<1>8. PICK d : d = [into |-> index, chunk |-> Head(wire)]
  OBVIOUS
<1>9. d \in D /\ d.into = index /\ d.chunk = Head(wire)
  <2>1. index \in 1..Len(files)
    BY <1>4, <1>5
  <2> QED
    BY <1>7, <1>8, <2>1
<1>10. Received' = Received \cup {d}
  <2> HIDE DEF D
  <2>1. writeQ' = Append(writeQ, d) /\ writeQ \in Seq(D) /\ d \in D
    BY <1>2, <1>6, <1>8, <1>9
  <2>2. {writeQ'[i] : i \in DOMAIN writeQ'} = {writeQ[i] : i \in DOMAIN writeQ} \cup {d}
    BY <2>1, PutIn
  <2> QED
    BY <1>2, <2>2 DEF Received
<1>11. d \in Wanted
  <2>1. d.chunk.file = index /\ Sent(d.chunk)
    BY <1>1, <1>7, <1>9, Places DEF DataInv
  <2> QED
    BY <1>1, <1>9, <2>1, SentIsWanted DEF DataInv
<1>12. OnTheWay /\ Accounted
  BY <1>1, <1>4 DEF DataInv, CountInv, Counting, Ended
<1>13. serving.file = index
  BY <1>2, <1>4, <1>5, <1>12 DEF OnTheWay
<1>14. ASSUME NEW w \in Wanted, w.into < d.into PROVE w \in Received
  <2>1. /\ w.chunk.file = w.into /\ w.chunk.file \in 1..Len(files)
        /\ w.chunk.num < files[w.chunk.file].actual
    BY <1>1, WantedAre
  <2>2. w.chunk.file < index /\ w.chunk.file # index
    BY <1>5, <1>9, <1>14, <2>1
  <2>3. Sent(w.chunk)
    BY <1>13, <2>1, <2>2 DEF Sent
  <2>4. w.chunk \notin encrypting \cup InReadQ
    BY <1>12, <2>2 DEF Accounted, InReadQ
  <2>5. w.chunk \notin OnWire
    BY <1>1, <2>2, Places DEF DataInv
  <2> QED
    BY <1>1, <1>4, <2>3, <2>4, <2>5, SentIsReceived
<1>15. CASE d \in Received
  BY <1>2, <1>10, <1>15 DEF Unseen
<1>16. CASE d \notin Received
  <2>1. Delivered!Take(d)
    BY <1>2, <1>10, <1>11, <1>14, <1>16 DEF Delivered!Take, Done
  <2> QED
    BY <1>11, <2>1
<1> QED
  BY <1>15, <1>16

\* What is written to the disk is a chunk that was taken.
LEMMA decrypt_task_Stores ==
  ASSUME SizesKept, IInv, DataInv, Faultless, decrypt_task
  PROVE  Unseen \/ \E c \in Wanted : Delivered!Store(c)
<1>1. PICK d \in decrypting :
        /\ decrypting' = decrypting \ {d}
        /\ disk' = IF decrypt(d.chunk) THEN disk \cup {d} ELSE disk
        /\ UNCHANGED <<given, session, loops, readQ, encrypting, wire, dataUp, writeQ>>
  BY DEF decrypt_task
<1>2. UNCHANGED <<pc, writeQ, Wanted, Done>>
  BY <1>1 DEF given, session, files, Wanted, Done
<1>3. d \in Received /\ d \in Wanted
  <2>1. d \in Received
    BY DEF Received
  <2> QED
    BY <2>1, ReceivedIsWanted DEF Faultless
<1>4. d.chunk # Ping
  <2>1. d.chunk.file \in 1..Len(files)
    BY <1>3, WantedAre DEF IInv
  <2>2. d.chunk.file # 0
    BY <2>1
  <2> QED
    BY <2>2 DEF Ping, Chunk
<1>5. disk' = disk \cup {d}
  BY <1>1, <1>4 DEF decrypt, Faultless
<1>6. Received' = Received
  BY <1>1, <1>2, <1>5 DEF Received
<1>7. CASE d \in disk
  BY <1>2, <1>5, <1>6, <1>7 DEF Unseen
<1>8. CASE d \notin disk
  <2>1. Delivered!Store(d)
    BY <1>2, <1>3, <1>5, <1>6, <1>8 DEF Delivered!Store, Done
  <2> QED
    BY <1>3, <2>1
<1> QED
  BY <1>7, <1>8

\* A session that takes the word "finished" returns: the sender first, and only
\* when everything has been taken.
LEMMA recv_finished_Returns ==
  ASSUME SizesKept, IInv, DataInv, Faultless, NEW p \in Role, recv_finished(p)
  PROVE  Delivered!Return(p)
<1>1. TypeOK /\ Conversation /\ pc \in [Role -> PC]
  BY TypeParts DEF IInv, SessionType
<1>2. /\ UNCHANGED <<Wanted, Received, disk, offer>> /\ pc' = [pc EXCEPT ![p] = "done"]
      /\ Answer(p, "finished", <<Msg("finished")>>)
  BY DEF recv_finished, given, pipeline, files, Wanted, Received
<1>3. Done' = Done \cup {p}
  BY <1>1, <1>2 DEF Done
<1>4. <<Msg("finished")>> \in Seq(Message)
  <2>1. Msg("finished") \in Message
    BY MessagesAre DEF MsgType
  <2> QED
    BY <2>1
<1>5. CASE p = "sender"
  <2>1. Finishing
    BY <1>1, <1>2, <1>4, <1>5, SenderTakes
  <2>2. Received = Wanted
    BY <2>1, FinishingIsReceived
  <2> QED
    BY <1>2, <1>3, <1>5, <2>2 DEF Delivered!Return, Done
<1>6. CASE p = "receiver"
  <2>1. Returned
    BY <1>1, <1>2, <1>4, <1>6, ReceiverTakes
  <2>2. pc["sender"] = "done" /\ pc["receiver"] \in {"recv", "done"}
    BY <2>1 DEF Returned
  <2>3. wire = <<>> /\ Behind = 0 /\ \A w \in Wanted : Sent(w.chunk)
    BY <2>2 DEF DataInv, ReturnInv, Faultless
  <2>4. Received = Wanted
    BY <2>2, <2>3, AllReceived DEF Faultless
  <2>5. "sender" \in Done
    BY <2>2 DEF Done
  <2> QED
    BY <1>2, <1>3, <1>6, <2>4, <2>5 DEF Delivered!Return, Done
<1> QED
  BY <1>5, <1>6

\* A transfer starts with nothing taken.
LEMMA InitDelivers == SizesKept /\ Init => Delivered!Init
<1> SUFFICES ASSUME SizesKept, Init PROVE Delivered!Init
  OBVIOUS
<1>1. TypeOK
  BY Init_IInv DEF IInv
<1>2. ASSUME NEW w \in Wanted PROVE w.into \in Nat
  BY <1>1, WantedAre, FileFacts
<1>3. Received = {} /\ disk = {} /\ {p \in Role : pc[p] = "done"} = {}
  BY DEF Init, Received
<1> QED
  BY <1>2, <1>3 DEF Delivered!Init

\* The other steps take, store and return nothing.
LEMMA UnseenSteps ==
  ASSUME IInv,
         \/ \E p \in Role : \/ Talk(p) \/ recv_recipientready(p) \/ request_file(p)
                            \/ file_received(p) \/ send_file(p)
         \/ fs_reader_task \/ encrypt_task \/ fs_writer_task
         \/ PingControl \/ PingData \/ data_breaks \/ UNCHANGED vars
  PROVE  Unseen
<1>1. TypeOK /\ pc \in [Role -> PC]
  BY TypeParts DEF IInv, SessionType
<1>2. ASSUME UNCHANGED <<offer, disk, decrypting, writeQ>>,
             \A p \in Role : pc'[p] = "done" <=> pc[p] = "done"
      PROVE  Unseen
  BY <1>2 DEF Unseen, Wanted, Received, Done, files
<1>3. ASSUME NEW p \in Role, Talk(p) PROVE Unseen
  <2>1. UNCHANGED <<offer, disk, decrypting, writeQ>>
    BY <1>1, <1>3, TalkMoves DEF DataSame, given, loops, pipeline
  <2>2. \A q \in Role : pc'[q] = "done" <=> pc[q] = "done"
    BY <1>1, <1>3, TalkMoves DEF Ended
  <2> QED
    BY <1>2, <2>1, <2>2
<1>4. ASSUME NEW p \in Role, recv_recipientready(p) \/ request_file(p) \/ file_received(p)
      PROVE  Unseen
  <2>1. UNCHANGED <<offer, disk, decrypting, writeQ>>
    BY <1>4 DEF recv_recipientready, request_file, file_received, given, pipeline
  <2>2. \A q \in Role : pc'[q] = "done" <=> pc[q] = "done"
    BY <1>1, <1>4 DEF recv_recipientready, request_file, file_received, Goto, Answer
  <2> QED
    BY <1>2, <2>1, <2>2
<1>5. ASSUME \/ \E p \in Role : send_file(p)
             \/ fs_reader_task \/ encrypt_task \/ PingControl \/ PingData \/ data_breaks
             \/ UNCHANGED vars
      PROVE  Unseen
  <2>1. UNCHANGED <<offer, disk, decrypting, writeQ, pc>>
    BY <1>5 DEF send_file, fs_reader_task, encrypt_task, PingControl, PingData, data_breaks,
       given, session, pipeline, vars
  <2> QED
    BY <1>2, <2>1
<1>6. ASSUME fs_writer_task PROVE Unseen
  <2>1. /\ UNCHANGED <<offer, disk, pc>> /\ writeQ # <<>> /\ writeQ' = Tail(writeQ)
        /\ decrypting' = decrypting \cup {Head(writeQ)}
    BY <1>6 DEF fs_writer_task, given, session
  <2> DEFINE D == [into : 1..Len(files), chunk : [file : 0..Len(files), num : Nat]]
  <2>2. writeQ \in Seq(D)
    BY <1>1, TypeParts DEF DataType
  <2> HIDE DEF D
  <2>3. {writeQ[i] : i \in DOMAIN writeQ}
          = {Tail(writeQ)[i] : i \in DOMAIN Tail(writeQ)} \cup {Head(writeQ)}
    BY <2>1, <2>2, TakenOut
  <2>4. Received' = Received
    BY <2>1, <2>3 DEF Received
  <2> QED
    BY <2>1, <2>4 DEF Unseen, Wanted, Done, files
<1> QED
  BY <1>3, <1>4, <1>5, <1>6

\* Every step of a transfer without a fault is one of Delivery, or none.
LEMMA StepDelivers ==
  ASSUME SizesKept, NoFault, IInv, DataInv, Faultless, [Next]_vars
  PROVE  [Delivered!Next]_(Delivered!vars)
<1>1. SUFFICES Delivered!Next \/ Unseen
  BY DEF Unseen, Done, Delivered!vars
<1>2. ASSUME NEW p \in Role, SessionStep(p) \/ refuse(p) PROVE Delivered!Next \/ Unseen
  <2>1. CASE recv_finished(p)
    BY <2>1, recv_finished_Returns DEF Delivered!Next
  <2>2. CASE receive_chunk(p)
    BY <2>2, receive_chunk_Takes DEF Delivered!Next
  <2> QED
    BY <1>2, <2>1, <2>2, UnseenSteps DEF SessionStep, Talk
<1>3. ASSUME TaskStep PROVE Delivered!Next \/ Unseen
  <2>1. CASE decrypt_task
    BY <2>1, decrypt_task_Stores DEF Delivered!Next
  <2> QED
    BY <1>3, <2>1, UnseenSteps DEF TaskStep
<1>4. ~exit
  BY DEF exit, NoFault
<1> QED
  BY <1>2, <1>3, <1>4, UnseenSteps DEF Next

\* A transfer over a data connection that stays, without pings on it and with one
\* key, is a Delivery: every chunk is taken once, file by file, and the sessions
\* return when all have been taken (client_session.rs:160-163, 187-241,
\* fs.rs:16-90).
THEOREM Delivers ==
  ASSUME SizesKept, NoFault PROVE Spec => ImplementsDelivery
<1>1. Init => Delivered!Init
  BY InitDelivers
<1>2. IInv /\ DataInv /\ Faultless /\ [Next]_vars => [Delivered!Next]_(Delivered!vars)
  BY StepDelivers
<1> QED
  BY <1>1, <1>2, DataInvariance, NoFaultOccurs, PTL
     DEF Spec, ImplementsDelivery, Delivered!Spec
=============================================================================
