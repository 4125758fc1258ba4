--------------------------- MODULE ChunkingProofs ---------------------------
(***************************************************************************)
(* Proofs about Chunking, for a file, a chunk and a queue of any size: the *)
(* arithmetic of the last chunk, and that tasks that share one position in *)
(* the receiver's file never write to a wrong place.                       *)
(***************************************************************************)
EXTENDS Chunking, TLAPS

\* The chunks that have been cut so far: they begin at the multiples of the chunk
\* size below the file size, and the last of them was still inside the file.
SendInv ==
  /\ offset = sent * TCP_BUFFER_SIZE
  /\ sent > 0 => (sent - 1) * TCP_BUFFER_SIZE < file_size
  /\ pc = "open" => file_size = 0
  /\ pc = "sent" => offset >= file_size

\* What is on its way lies within the file and holds the file's own bytes.
Right(c) ==
  /\ c.offset + Len(c.data) <= file_size
  /\ \A i \in DOMAIN c.data : c.data[i] = c.offset + i

CargoInv ==
  /\ \A i \in DOMAIN readQ : readQ[i].offset + readQ[i].size <= file_size
  /\ \A c \in flight \cup writers : Right(c)

\* The position of the receiver's file is that of the one task that holds it.
LockInv ==
  /\ \A c, d \in holding : c = d
  /\ \A c \in holding : pos = c.offset

IInv ==
  /\ TypeOK
  /\ SendInv
  /\ CargoInv
  /\ LockInv
  /\ BytesAreInPlace
  /\ SizeIsKept

-----------------------------------------------------------------------------
USE ChunkingAssumption

\* div_ceil() as the number of steps of the range 0, b, 2b, .. below a.
LEMMA StepsOfTheRange ==
  ASSUME NEW a \in Nat, NEW b \in Nat \ {0}, NEW s \in Nat,
         s * b >= a, s > 0 => (s - 1) * b < a
  PROVE  div_ceil(a, b) = s
<1>1. s * b <= a + b - 1
  <2>1. CASE s = 0
    BY <2>1
  <2>2. CASE s > 0
    <3>1. (s - 1) * b = s * b - b
      BY <2>2
    <3> QED
      BY <2>2, <3>1
  <2> QED BY <2>1, <2>2
<1>2. a + b - 1 < s * b + b
  OBVIOUS
<1>3. \A x, y \in Nat : x < b /\ y = s * b + x => y \div b = s
  OBVIOUS
<1> DEFINE x == a + b - 1 - s * b
<1>4. x \in Nat /\ x < b /\ a + b - 1 = s * b + x /\ a + b - 1 \in Nat
  BY <1>1, <1>2
<1> HIDE DEF x
<1> QED
  BY <1>3, <1>4 DEF div_ceil

\* What a write leaves in the file.
LEMMA OverwriteIs ==
  ASSUME NEW d \in Seq(Nat), NEW p \in Nat, NEW data \in Seq(Nat)
  PROVE  /\ Overwrite(d, p, data) \in Seq(Nat)
         /\ Len(Overwrite(d, p, data)) =
              IF p + Len(data) > Len(d) THEN p + Len(data) ELSE Len(d)
         /\ \A i \in DOMAIN Overwrite(d, p, data) :
              Overwrite(d, p, data)[i] =
                IF i > p /\ i <= p + Len(data) THEN data[i - p]
                ELSE IF i <= Len(d) THEN d[i] ELSE 0
<1> DEFINE n == IF p + Len(data) > Len(d) THEN p + Len(data) ELSE Len(d)
           f == [i \in 1..n |-> IF i > p /\ i <= p + Len(data) THEN data[i - p]
                                ELSE IF i <= Len(d) THEN d[i] ELSE 0]
<1>1. n \in Nat
  OBVIOUS
<1>2. ASSUME NEW i \in 1..n PROVE f[i] \in Nat
  <2>1. CASE i > p /\ i <= p + Len(data)
    <3>1. i - p \in 1..Len(data)
      BY <2>1
    <3> QED
      BY <2>1, <3>1
  <2>2. CASE ~(i > p /\ i <= p + Len(data))
    BY <2>2
  <2> QED
    BY <2>1, <2>2
<1>3. f = Overwrite(d, p, data) /\ DOMAIN f = 1..n
  BY DEF Overwrite
<1>4. f \in Seq(Nat) /\ Len(f) = n
  BY <1>1, <1>2, <1>3
<1> QED
  BY <1>3, <1>4

\* A chunk of the file's bytes.
LEMMA BytesAre ==
  ASSUME NEW o \in Nat, NEW n \in Nat
  PROVE  /\ Bytes(o, n) \in Seq(Nat) /\ Len(Bytes(o, n)) = n
         /\ \A i \in DOMAIN Bytes(o, n) : Bytes(o, n)[i] = o + i
<1>1. \A i \in 1..n : o + i \in Nat
  OBVIOUS
<1> QED
  BY <1>1 DEF Bytes

-----------------------------------------------------------------------------
\* The receiver's file is all holes, of the size it was told.
LEMMA InitIInv == Init => IInv
<1> SUFFICES ASSUME Init PROVE IInv
  OBVIOUS
<1>1. disk \in Seq(Nat) /\ Len(disk) = announced /\ \A i \in DOMAIN disk : disk[i] = 0
  <2>1. announced \in Nat
    BY DEF Init, Size
  <2> QED
    BY <2>1 DEF Init
<1>2. TypeOK
  BY <1>1 DEF Init, TypeOK, Size
<1>3. SendInv /\ CargoInv /\ LockInv
  BY DEF Init, SendInv, CargoInv, LockInv, Size
<1>4. BytesAreInPlace /\ SizeIsKept
  BY <1>1 DEF BytesAreInPlace, SizeIsKept
<1> QED
  BY <1>2, <1>3, <1>4 DEF IInv

\* Steps of the sender and of the reader task leave the receiver alone.
LEMMA ReceiverKept ==
  ASSUME IInv, UNCHANGED <<announced, receiver>>, file_size' = file_size
  PROVE  LockInv' /\ BytesAreInPlace' /\ SizeIsKept'
BY DEF IInv, receiver, LockInv, BytesAreInPlace, SizeIsKept

\* Opening the file fixes the size that everything else is measured by; nothing
\* has been cut before.
LEMMA open_file_IInv == IInv /\ open_file => IInv'
<1> SUFFICES ASSUME IInv, open_file PROVE IInv'
  OBVIOUS
<1>1. file_size = 0 /\ file_size' = len /\ len \in Nat
  BY DEF IInv, SendInv, TypeOK, open_file, Size
<1>2. TypeOK'
  BY DEF IInv, TypeOK, open_file, receiver
<1>3. SendInv'
  <2>1. sent \in Nat /\ TCP_BUFFER_SIZE \in Nat
    BY DEF IInv, TypeOK
  <2>2. sent > 0 => (sent - 1) * TCP_BUFFER_SIZE >= 0
    BY <2>1
  <2>3. sent = 0
    BY <1>1, <2>1, <2>2 DEF IInv, SendInv
  <2> QED
    BY <2>3 DEF IInv, SendInv, open_file
<1>4. CargoInv'
  <2>1. /\ readQ' = readQ /\ flight' = flight /\ writers' = writers
        /\ readQ \in Seq(Request) /\ flight \cup writers \subseteq Chunk
    BY DEF open_file, receiver, IInv, TypeOK
  <2>2. ASSUME NEW i \in DOMAIN readQ
        PROVE  readQ[i].offset + readQ[i].size <= file_size'
    <3>0. readQ[i] \in Request
      BY <2>1
    <3>1. readQ[i].offset \in Nat /\ readQ[i].size \in Nat
      BY <3>0 DEF Request, Size
    <3> QED
      BY <1>1, <3>1 DEF IInv, CargoInv
  <2>3. ASSUME NEW c \in flight \cup writers PROVE Right(c)'
    <3>1. c.offset \in Nat /\ Len(c.data) \in Nat
      BY <2>1 DEF Chunk, Size
    <3> QED
      BY <1>1, <3>1 DEF IInv, CargoInv, Right
  <2> QED
    BY <2>1, <2>2, <2>3 DEF CargoInv
<1>5. LockInv' /\ BytesAreInPlace'
  BY DEF IInv, open_file, receiver, LockInv, BytesAreInPlace
<1>6. SizeIsKept'
  BY <1>1 DEF IInv, TypeOK, Size, open_file, receiver, SizeIsKept
<1> QED
  BY <1>2, <1>3, <1>4, <1>5, <1>6 DEF IInv

\* The chunk at the offset is not empty and ends where the file ends or before.
LEMMA send_chunk_IInv == IInv /\ send_chunk => IInv'
<1> SUFFICES ASSUME IInv, send_chunk PROVE IInv'
  OBVIOUS
<1> DEFINE q == [offset |-> offset, size |-> chunk_size]
<1>1. /\ offset \in Nat /\ file_size \in Nat /\ file_size <= MaxSize
      /\ offset < file_size /\ sent \in Nat /\ readQ \in Seq(Request)
      /\ readQ' = Append(readQ, q)
      /\ UNCHANGED <<announced, len, pc, file_size, reader, flight, receiver>>
  BY DEF IInv, TypeOK, Size, send_chunk
<1>2. chunk_size \in 1..TCP_BUFFER_SIZE /\ offset + chunk_size <= file_size
  BY <1>1 DEF chunk_size
<1>3. q \in Request
  BY <1>1, <1>2 DEF Request, Size
<1>4. TypeOK'
  BY <1>1, <1>3 DEF IInv, TypeOK, send_chunk, receiver
<1>5. SendInv'
  <2>1. offset = sent * TCP_BUFFER_SIZE /\ pc = "sending"
    BY DEF IInv, SendInv, send_chunk
  <2>2. sent' = sent + 1 /\ offset' = offset + TCP_BUFFER_SIZE
    BY DEF send_chunk
  <2>3. offset' = sent' * TCP_BUFFER_SIZE
    BY <1>1, <2>1, <2>2
  <2>4. (sent' - 1) * TCP_BUFFER_SIZE < file_size'
    BY <1>1, <2>1, <2>2
  <2> QED
    BY <1>1, <2>1, <2>3, <2>4 DEF SendInv
<1>6. CargoInv'
  <2>1. \A i \in DOMAIN readQ' : readQ'[i] = q \/ (i \in DOMAIN readQ /\ readQ'[i] = readQ[i])
    BY <1>1, <1>3
  <2>2. q.offset + q.size <= file_size
    BY <1>2
  <2> QED
    BY <1>1, <2>1, <2>2 DEF IInv, CargoInv, Right, receiver
<1> QED
  BY <1>1, <1>4, <1>5, <1>6, ReceiverKept DEF IInv

\* The reader task hands on the file's own bytes, or stops.
LEMMA fs_reader_task_IInv ==
  IInv /\ (fs_reader_task \/ fs_reader_task_fails) => IInv'
<1> SUFFICES ASSUME IInv, fs_reader_task \/ fs_reader_task_fails PROVE IInv'
  OBVIOUS
<1>1. /\ readQ \in Seq(Request) /\ readQ # <<>>
      /\ UNCHANGED <<announced, len, pc, file_size, offset, sent, receiver>>
  BY DEF IInv, TypeOK, fs_reader_task, fs_reader_task_fails
<1>2. SendInv'
  BY <1>1 DEF IInv, SendInv
<1>3. CASE fs_reader_task
  <2> DEFINE q == Head(readQ)
             c == [offset |-> q.offset, data |-> Bytes(q.offset, q.size)]
  <2>1. q \in Request /\ q = readQ[1] /\ 1 \in DOMAIN readQ
    BY <1>1
  <2>2. q.offset \in Nat /\ q.offset \in Size /\ q.size \in Nat
    BY <2>1 DEF Request, Size
  <2>3. c \in Chunk /\ c.offset = q.offset /\ Len(c.data) = q.size
    BY <2>2, BytesAre DEF Chunk
  <2>4. \A i \in DOMAIN c.data : c.data[i] = c.offset + i
    BY <2>2, BytesAre
  <2>5. Right(c)
    <3>1. q.offset + q.size <= file_size
      BY <2>1 DEF IInv, CargoInv
    <3> QED
      BY <2>3, <2>4, <3>1 DEF Right
  <2>6. flight' = flight \cup {c} /\ readQ' = Tail(readQ) /\ reader' = reader
    BY <1>3 DEF fs_reader_task
  <2> HIDE DEF c
  <2>7. TypeOK'
    <3>1. flight' \subseteq Chunk /\ readQ' \in Seq(Request)
      BY <1>1, <2>3, <2>6 DEF IInv, TypeOK
    <3> QED
      BY <1>1, <2>6, <3>1 DEF IInv, TypeOK, receiver
  <2>8. CargoInv'
    <3>1. \A i \in DOMAIN readQ' : i + 1 \in DOMAIN readQ /\ readQ'[i] = readQ[i + 1]
      BY <1>1, <2>6
    <3> QED
      BY <1>1, <2>5, <2>6, <3>1 DEF IInv, CargoInv, Right, receiver
  <2> QED
    BY <1>1, <1>2, <2>7, <2>8, ReceiverKept DEF IInv
<1>4. CASE fs_reader_task_fails
  <2>1. reader' = FALSE /\ readQ' = <<>> /\ flight' = flight
    BY <1>4 DEF fs_reader_task_fails
  <2>2. TypeOK'
    <3>1. readQ' \in Seq(Request)
      BY <2>1
    <3>2. reader' \in BOOLEAN
      BY <2>1, Zenon
    <3> QED
      BY <1>1, <2>1, <3>1, <3>2 DEF IInv, TypeOK, receiver
  <2>3. CargoInv'
    BY <1>1, <2>1 DEF IInv, CargoInv, Right, receiver
  <2> QED
    BY <1>1, <1>2, <2>2, <2>3, ReceiverKept DEF IInv
<1> QED
  BY <1>3, <1>4

\* The end of send_file() and a change of the sender's file.
LEMMA SenderEnds_IInv ==
  IInv /\ (send_error \/ send_file_returns \/ shrink) => IInv'
<1> SUFFICES ASSUME IInv, send_error \/ send_file_returns \/ shrink PROVE IInv'
  OBVIOUS
<1>1. /\ UNCHANGED <<announced, file_size, offset, sent, readQ, reader, flight, receiver>>
      /\ len' \in Size
      /\ pc' = pc \/ pc' = "failed" \/ (pc' = "sent" /\ offset >= file_size)
  BY DEF send_error, send_file_returns, shrink, IInv, TypeOK
<1>2. TypeOK'
  BY <1>1 DEF IInv, TypeOK, receiver
<1>3. SendInv' /\ CargoInv'
  BY <1>1 DEF IInv, SendInv, CargoInv, Right, receiver
<1> QED
  BY <1>1, <1>2, <1>3, ReceiverKept DEF IInv

\* A chunk changes hands, or a task gets the file to itself and seeks.
LEMMA seek_IInv == IInv /\ (receive_chunk \/ seek) => IInv'
<1> SUFFICES ASSUME IInv, receive_chunk \/ seek PROVE IInv'
  OBVIOUS
<1>1. UNCHANGED <<announced, len, pc, file_size, offset, sent, readQ, reader, disk>>
  BY DEF receive_chunk, seek, sender
<1>2. flight' \cup writers' = flight \cup writers
  BY DEF receive_chunk, seek
<1>3. TypeOK'
  <2>1. CASE receive_chunk
    BY <1>1, <2>1 DEF IInv, TypeOK, receive_chunk
  <2>2. CASE seek
    BY <1>1, <2>2 DEF IInv, TypeOK, seek, Chunk, Size
  <2> QED
    BY <2>1, <2>2
<1>4. SendInv' /\ CargoInv' /\ BytesAreInPlace' /\ SizeIsKept'
  BY <1>1, <1>2 DEF IInv, SendInv, CargoInv, Right, BytesAreInPlace, SizeIsKept
<1>5. LockInv'
  BY DEF IInv, LockInv, receive_chunk, seek
<1> QED
  BY <1>3, <1>4, <1>5 DEF IInv

\* The task that holds the file writes the file's own bytes where they belong.
LEMMA write_all_IInv == IInv /\ write_all => IInv'
<1> SUFFICES ASSUME IInv, write_all PROVE IInv'
  OBVIOUS
<1>1. PICK c \in holding :
        /\ disk' = Overwrite(disk, pos, c.data)
        /\ pos' = pos + Len(c.data)
        /\ holding' = holding \ {c} /\ writers' = writers \ {c}
  BY DEF write_all
<1>2. UNCHANGED <<announced, len, pc, file_size, offset, sent, readQ, reader, flight,
                  amount>>
  BY DEF write_all, sender
<1>3. /\ c \in writers /\ c \in Chunk /\ c.data \in Seq(Nat) /\ c.offset \in Nat
      /\ disk \in Seq(Nat) /\ announced \in Nat /\ file_size \in Nat
  BY DEF IInv, TypeOK, Chunk, Size
<1>4. pos = c.offset /\ holding' = {} /\ Right(c)
  BY <1>1, <1>3 DEF IInv, LockInv, CargoInv
<1>5. /\ disk' \in Seq(Nat)
      /\ Len(disk') = IF pos + Len(c.data) > Len(disk) THEN pos + Len(c.data)
                      ELSE Len(disk)
      /\ \A i \in DOMAIN disk' :
           disk'[i] = IF i > pos /\ i <= pos + Len(c.data) THEN c.data[i - pos]
                      ELSE IF i <= Len(disk) THEN disk[i] ELSE 0
  <2>1. disk \in Seq(Nat) /\ pos \in Nat /\ c.data \in Seq(Nat)
    BY <1>3, <1>4
  <2> QED
    BY <1>1, <2>1, OverwriteIs, ZenonT(40)
<1>6. TypeOK'
  BY <1>1, <1>2, <1>3, <1>4, <1>5, SMTT(40) DEF IInv, TypeOK
<1>7. SendInv' /\ CargoInv' /\ LockInv'
  BY <1>1, <1>2, <1>4 DEF IInv, SendInv, CargoInv, Right, LockInv
<1>8. BytesAreInPlace'
  <2>1. ASSUME NEW i \in DOMAIN disk' PROVE disk'[i] \in {0, i}
    <3>1. i \in Nat /\ i >= 1
      BY <1>5
    <3>2. CASE i > pos /\ i <= pos + Len(c.data)
      <4>1. i - pos \in DOMAIN c.data
        BY <1>3, <1>4, <3>1, <3>2
      <4>2. disk'[i] = c.offset + (i - pos)
        BY <1>4, <1>5, <3>2, <4>1 DEF Right
      <4> QED
        BY <1>3, <1>4, <3>1, <4>2
    <3>3. CASE ~(i > pos /\ i <= pos + Len(c.data)) /\ i <= Len(disk)
      <4>1. i \in DOMAIN disk /\ disk'[i] = disk[i]
        BY <1>3, <1>5, <3>1, <3>3
      <4> QED
        BY <4>1 DEF IInv, BytesAreInPlace
    <3>4. CASE ~(i > pos /\ i <= pos + Len(c.data)) /\ ~(i <= Len(disk))
      BY <1>5, <3>4
    <3> QED
      BY <3>2, <3>3, <3>4
  <2> QED
    BY <2>1 DEF BytesAreInPlace
<1>9. SizeIsKept'
  BY <1>2, <1>3, <1>4, <1>5 DEF IInv, SizeIsKept, Right
<1> QED
  BY <1>6, <1>7, <1>8, <1>9 DEF IInv

LEMMA NextIInv == IInv /\ [Next]_vars => IInv'
<1> SUFFICES ASSUME IInv, [Next]_vars PROVE IInv'
  OBVIOUS
<1>1. CASE UNCHANGED vars
  BY <1>1 DEF vars, sender, receiver, IInv, TypeOK, SendInv, CargoInv, Right,
     LockInv, BytesAreInPlace, SizeIsKept
<1>2. CASE SenderStep
  BY <1>2, open_file_IInv, send_chunk_IInv, SenderEnds_IInv, fs_reader_task_IInv
     DEF SenderStep
<1>3. CASE ReceiverStep \/ shrink
  BY <1>3, seek_IInv, write_all_IInv, SenderEnds_IInv DEF ReceiverStep
<1> QED
  BY <1>1, <1>2, <1>3 DEF Next

THEOREM Inductive == Spec => []IInv
  BY InitIInv, NextIInv, PTL DEF Spec

\* The state is well-typed for any size of file, chunk and queue.
THEOREM TypeCorrect == Spec => []TypeOK
<1>1. IInv => TypeOK
  BY DEF IInv
<1> QED
  BY <1>1, Inductive, PTL

\* However chunks overtake one another, and whatever becomes of the sender's
\* file, no byte is ever written to a wrong place (fs.rs:28-33, 74-82).
THEOREM BytesStayInPlace == Spec => []BytesAreInPlace
<1>1. IInv => BytesAreInPlace
  BY DEF IInv
<1> QED
  BY <1>1, Inductive, PTL

\* The receiver's file never grows beyond the size it was told, unless the
\* sender's had grown before it was opened (client_session.rs:206, 384-393).
THEOREM SizesAreKept == Spec => []SizeIsKept
<1>1. IInv => SizeIsKept
  BY DEF IInv
<1> QED
  BY <1>1, Inductive, PTL

\* For every size of file and chunk, the loop of send_file() makes as many chunks
\* as div_ceil() tells the receiver to count (client_session.rs:216, 388-393).
THEOREM CountsAlwaysAgree == Spec => []CountsAgree
<1>1. IInv => CountsAgree
  <2> SUFFICES ASSUME IInv, pc = "sent", file_size = announced
               PROVE  sent = total_chunks
    BY DEF CountsAgree
  <2>1. sent \in Nat /\ announced \in Nat
    BY DEF IInv, TypeOK, Size
  <2>2. /\ sent * TCP_BUFFER_SIZE >= announced
        /\ sent > 0 => (sent - 1) * TCP_BUFFER_SIZE < announced
    BY DEF IInv, SendInv
  <2> QED
    BY <2>1, <2>2, StepsOfTheRange DEF total_chunks
<1> QED
  BY <1>1, Inductive, PTL
=============================================================================
