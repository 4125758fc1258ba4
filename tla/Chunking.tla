------------------------------ MODULE Chunking ------------------------------
(***************************************************************************)
(* One file, byte for byte: how send_file() cuts it (src/proto/            *)
(* client_session.rs), how fs_reader_task reads the pieces and how the     *)
(* tasks of fs_writer_task put them together again (src/relay/fs.rs).      *)
(* Transfer counts whole chunks; here they have offsets and sizes.         *)
(*                                                                         *)
(* Byte i of the file is the number i, so a byte that is in its place is   *)
(* equal to its index; a hole is 0.  Encryption, the queues and the        *)
(* network between the two clients deliver the chunks in any order.        *)
(***************************************************************************)
EXTENDS Sequences, Integers

CONSTANTS
  TCP_BUFFER_SIZE,  \* bytes in a chunk (64 KiB in the code)
  MaxSize,          \* bound on the size of the file
  QueueCap,         \* room in the queue of fs_reader_task (100 in the code)
  MayShrink         \* the file may be truncated while it is being sent

ASSUME ChunkingAssumption ==
  /\ TCP_BUFFER_SIZE \in Nat \ {0}
  /\ MaxSize \in Nat
  /\ QueueCap \in Nat \ {0}
  /\ MayShrink \in BOOLEAN

VARIABLES
  announced,  \* the size in the FileInfo that the receiver was sent
  len,        \* the size of the sender's file now
  pc,         \* where send_file() is
  file_size,  \* the size send_file() found
  offset,     \* where its next chunk begins
  sent,       \* how many chunks it has sent
  readQ,      \* chunks for fs_reader_task: offset and size
  reader,     \* fs_reader_task runs
  flight,     \* chunks on their way to the receiver, with their bytes
  amount,     \* current_amount: how many of them the receiver has counted
  writers,    \* the tasks of fs_writer_task that have not written yet
  holding,    \* the task that holds the lock of the receiver's file
  pos,        \* where the receiver's file is written next
  disk        \* the receiver's file

sender == <<len, pc, file_size, offset, sent, readQ, reader>>
receiver == <<amount, writers, holding, pos, disk>>
vars == <<announced, sender, flight, receiver>>

Size == 0..MaxSize
Request == [offset : Size, size : 1..TCP_BUFFER_SIZE]
Chunk == [offset : Size, data : Seq(Nat)]

TypeOK ==
  /\ {announced, len, file_size} \subseteq Size
  /\ pc \in {"open", "sending", "sent", "failed"}
  /\ {offset, sent, amount, pos} \subseteq Nat
  /\ readQ \in Seq(Request)
  /\ reader \in BOOLEAN
  /\ flight \subseteq Chunk /\ writers \subseteq Chunk /\ holding \subseteq writers
  /\ disk \in Seq(Nat)

\* The receiver has created its file, of the size it was told, and asks for it.
Init ==
  /\ announced \in Size /\ len \in Size
  /\ pc = "open" /\ file_size = 0
  /\ offset = 0 /\ sent = 0
  /\ readQ = <<>> /\ reader = TRUE
  /\ flight = {}
  /\ amount = 0 /\ writers = {}
  /\ holding = {} /\ pos = 0
  /\ disk = [i \in 1..announced |-> 0]

-----------------------------------------------------------------------------
(* The sender.                                                             *)

open_file ==
  /\ pc = "open"
  /\ pc' = "sending"
  /\ file_size' = len
  /\ UNCHANGED <<announced, len, offset, sent, readQ, reader, flight, receiver>>

\* Somebody truncates the file.
shrink ==
  /\ MayShrink
  /\ \E n \in Size : n < len /\ len' = n
  /\ UNCHANGED <<announced, pc, file_size, offset, sent, readQ, reader, flight,
                 receiver>>

\* Mutant: all that is left.
chunk_sizeRest == file_size - offset

chunk_size ==
  IF offset + TCP_BUFFER_SIZE > file_size THEN file_size - offset
  ELSE TCP_BUFFER_SIZE

\* Mutant: the range of offsets includes its end.
send_chunkInclusive ==
  /\ pc = "sending" /\ offset <= file_size
  /\ reader /\ Len(readQ) < QueueCap
  /\ readQ' = Append(readQ, [offset |-> offset, size |-> chunk_size])
  /\ offset' = offset + TCP_BUFFER_SIZE
  /\ sent' = sent + 1
  /\ UNCHANGED <<announced, len, pc, file_size, reader, flight, receiver>>

send_chunk ==
  /\ pc = "sending" /\ offset < file_size
  /\ reader /\ Len(readQ) < QueueCap
  /\ readQ' = Append(readQ, [offset |-> offset, size |-> chunk_size])
  /\ offset' = offset + TCP_BUFFER_SIZE
  /\ sent' = sent + 1
  /\ UNCHANGED <<announced, len, pc, file_size, reader, flight, receiver>>

\* fs_reader_task has ended and its queue is gone: send_file() fails.
send_error ==
  /\ pc = "sending" /\ offset < file_size
  /\ ~reader
  /\ pc' = "failed"
  /\ UNCHANGED <<announced, len, file_size, offset, sent, readQ, reader, flight,
                 receiver>>

send_file_returns ==
  /\ pc = "sending" /\ offset >= file_size
  /\ pc' = "sent"
  /\ UNCHANGED <<announced, len, file_size, offset, sent, readQ, reader, flight,
                 receiver>>

\* The bytes of the sender's file from offset o on.
Bytes(o, n) == [i \in 1..n |-> o + i]

\* seek() and read_exact(); the buffer is prefixed with the offset.
fs_reader_task ==
  /\ reader /\ readQ # <<>>
  /\ LET c == Head(readQ) IN
       /\ c.offset + c.size <= len
       /\ flight' = flight \cup {[offset |-> c.offset, data |-> Bytes(c.offset, c.size)]}
  /\ readQ' = Tail(readQ)
  /\ UNCHANGED <<announced, len, pc, file_size, offset, sent, reader, receiver>>

\* The file has become too short for read_exact(): the task ends, and what is
\* left in its queue is dropped.
fs_reader_task_fails ==
  /\ reader /\ readQ # <<>>
  /\ Head(readQ).offset + Head(readQ).size > len
  /\ reader' = FALSE
  /\ readQ' = <<>>
  /\ UNCHANGED <<announced, len, pc, file_size, offset, sent, flight, receiver>>

-----------------------------------------------------------------------------
(* The receiver.                                                           *)

\* Mutant: size / TCP_BUFFER_SIZE.
div_ceilFloor(a, b) == a \div b

div_ceil(a, b) == (a + b - 1) \div b

total_chunks == div_ceil(announced, TCP_BUFFER_SIZE)

\* The loop of process_client takes a chunk and fs_writer_task spawns a task
\* for it, which decrypts it.
receive_chunk ==
  /\ amount < total_chunks
  /\ \E c \in flight :
       /\ flight' = flight \ {c}
       /\ writers' = writers \cup {c}
  /\ amount' = amount + 1
  /\ UNCHANGED <<announced, sender, holding, pos, disk>>

\* Mutant: the file is not locked.
seekUnlocked ==
  /\ \E c \in writers \ holding :
       /\ holding' = holding \cup {c}
       /\ pos' = c.offset
  /\ UNCHANGED <<announced, sender, flight, amount, writers, disk>>

\* A task locks the file and seeks; all tasks share the position of the file.
seek ==
  /\ holding = {}
  /\ \E c \in writers :
       /\ holding' = {c}
       /\ pos' = c.offset
  /\ UNCHANGED <<announced, sender, flight, amount, writers, disk>>

\* The file d after the bytes data have been written at p.
Overwrite(d, p, data) ==
  [i \in 1..(IF p + Len(data) > Len(d) THEN p + Len(data) ELSE Len(d)) |->
     IF i > p /\ i <= p + Len(data) THEN data[i - p]
     ELSE IF i <= Len(d) THEN d[i] ELSE 0]

\* Mutant: the offset is written as well.
write_allPrefix ==
  /\ \E c \in holding :
       /\ disk' = Overwrite(disk, pos, <<c.offset>> \o c.data)
       /\ pos' = pos + Len(c.data)
       /\ holding' = holding \ {c}
       /\ writers' = writers \ {c}
  /\ UNCHANGED <<announced, sender, flight, amount>>

write_all ==
  /\ \E c \in holding :
       /\ disk' = Overwrite(disk, pos, c.data)
       /\ pos' = pos + Len(c.data)
       /\ holding' = holding \ {c}
       /\ writers' = writers \ {c}
  /\ UNCHANGED <<announced, sender, flight, amount>>

-----------------------------------------------------------------------------
SenderStep ==
  open_file \/ send_chunk \/ send_error \/ send_file_returns \/ fs_reader_task
    \/ fs_reader_task_fails
ReceiverStep == receive_chunk \/ seek \/ write_all

Next == SenderStep \/ ReceiverStep \/ shrink

Spec == Init /\ [][Next]_vars

\* Every task that can go on does.
FairSpec == Spec /\ WF_vars(SenderStep) /\ WF_vars(ReceiverStep)

-----------------------------------------------------------------------------
(* Properties.                                                             *)

\* Whatever the order in which chunks are encrypted, arrive, are decrypted and
\* take turns with the file, and whatever becomes of the sender's file, every
\* byte that is written is in its place (fs.rs:28-33, 74-82).
BytesAreInPlace == \A i \in DOMAIN disk : disk[i] \in {0, i}

\* The stepped range of send_file() has as many offsets as div_ceil() tells the
\* receiver to count, for an empty file, a last chunk that is short and one that
\* is not (client_session.rs:216, 388-393).
CountsAgree ==
  pc = "sent" /\ file_size = announced => sent = total_chunks

\* The chunks reach to the end of the file and not beyond it: the receiver's
\* file keeps the size it was created with unless the sender's had grown by the
\* time it was opened (client_session.rs:206, 384-393).
SizeIsKept == Len(disk) = announced \/ file_size > announced

\* When the file has the size it was announced with, and keeps it, the receiver's
\* one becomes equal to it, however many chunks wait, and in what order
\* (client_session.rs:216-237, 388-406).
FileArrives ==
  <>[](file_size = announced /\ len = announced => disk = [i \in 1..announced |-> i])
=============================================================================
