------------------------------ MODULE Transfer ------------------------------
(***************************************************************************)
(* A transfer between two clients (src/proto/client_session.rs and         *)
(* src/relay/fs.rs) once the relay lets them meet: the control messages of *)
(* the two ClientSessions, and the file data that travels on a second      *)
(* connection through a pipeline of queues and spawned tasks.              *)
(*                                                                         *)
(* The relay is seen here as the clients see it: two connections (rooms    *)
(* "control" and "data"), each FIFO in both directions once both clients   *)
(* have joined, and a ping now and then to a client that has joined alone. *)
(* A client that ends is not seen by the other one: the bridge of the      *)
(* relay passes bytes on but never an end of stream.                       *)
(***************************************************************************)
EXTENDS Sequences, Integers

CONSTANTS
  Offers,        \* what the sender may offer (see OffersAssumption)
  Codes,         \* how the secrets of the two clients may differ (see Code)
  QueueCap,      \* room in a queue of CrocFsInterface (100 in the code)
  WireCap,       \* room on the way of the data: queues of croc_raw, sockets
  MaxPings,      \* bound on the pings of the relay
  MayRefuse,     \* the user of the receiver may say no
  DataMayBreak,  \* the data connection may break
  MayExit        \* the program ends when both sessions have ended

(***************************************************************************)
(* An offer: whether FilesInformation has a list of files at all, whether  *)
(* it has empty folders, and for every file the number of chunks that the  *)
(* announced size amounts to and the number that the file has when it is   *)
(* opened for sending.                                                     *)
(***************************************************************************)
ASSUME OffersAssumption ==
  /\ Offers \subseteq
       [listed : BOOLEAN, folders : BOOLEAN,
        files : Seq([announced : Nat, actual : Nat])]
  /\ \A o \in Offers : ~o.listed => o.files = <<>>
ASSUME BoundsAssumption ==
  QueueCap \in Nat \ {0} /\ WireCap \in Nat \ {0} /\ MaxPings \in Nat
ASSUME SwitchesAssumption == {MayRefuse, DataMayBreak, MayExit} \subseteq BOOLEAN

(***************************************************************************)
(* The secrets of two clients that meet in the control room agree in their *)
(* first three bytes.  What follows the fifth makes the key, and names the *)
(* data room.  These are "same" for both; or they are not, and the two keys *)
(* "differ" although the hashes name one data room; or the data rooms are  *)
(* "apart" as well.                                                        *)
(***************************************************************************)
Code == {"same", "differ", "apart"}
ASSUME CodesAssumption == Codes \subseteq Code

VARIABLES
  offer,       \* the FilesInformation of the sender
  code,        \* how the secrets differ
  pc,          \* pc[p]: where session p is
  state,       \* state[p]: ClientState
  inbox,       \* inbox[p]: control messages on the way to p
  joined,      \* joined[room]: the clients in the room, the first one first
  pings,       \* the pings the relay has sent
  refused,     \* the user has said no
  index,       \* the file the receiver is at
  amount,      \* current_amount: the chunks it has counted for that file
  serving,     \* the file the sender is sending, and its next chunk
  pinged,      \* history: the files for which a ping has been counted
  readQ,       \* chunks for fs_reader_task
  encrypting,  \* chunks in the tasks spawned by fs_reader_task
  wire,        \* data messages on the way to the receiver's loop
  dataUp,      \* the data connection works
  writeQ,      \* chunks for fs_writer_task, each with its file
  decrypting,  \* chunks in the tasks spawned by fs_writer_task
  disk         \* the chunks in the receiver's files

given == <<offer, code>>
session == <<pc, state, inbox, joined, pings, refused>>
loops == <<index, amount, serving, pinged>>
pipeline == <<readQ, encrypting, wire, dataUp, writeQ, decrypting, disk>>
vars == <<given, session, loops, pipeline>>

Role == {"sender", "receiver"}
Peer(p) == IF p = "sender" THEN "receiver" ELSE "sender"

ClientState == {"KeyExchange", "IpExchange", "FileInfoTransfare",
                "FileTransfare", "FileTransfared"}
Ended == {"done", "failed", "panicked"}
PC == {"connect", "keepalive", "net", "recv", "confirm", "request", "receive",
       "send_file", "exited"} \cup Ended

MsgType == {"ping", "handshake", "pake", "externalip", "fileinfo",
            "recipientready", "finished", "error"}
Msg(type) == [type |-> type, num |-> 0]
Ready(i) == [type |-> "recipientready", num |-> i]

\* What travels as file data: a chunk of a file, or a ping of the relay.
Chunk(f, k) == [file |-> f, num |-> k]
Ping == Chunk(0, 0)

files == offer.files

TypeOK ==
  /\ offer \in Offers /\ code \in Codes
  /\ pc \in [Role -> PC]
  /\ state \in [Role -> ClientState]
  /\ inbox \in [Role -> Seq([type : MsgType, num : 0..Len(files)])]
  /\ joined \in [control : Seq(Role), data : Seq(Role)]
  /\ pings \in 0..MaxPings
  /\ refused \in BOOLEAN
  /\ index \in 0..Len(files)
  /\ amount \in Nat
  /\ serving \in [file : 0..Len(files), next : Nat]
  /\ pinged \subseteq 1..Len(files)
  /\ readQ \in Seq([file : 1..Len(files), num : Nat])
  /\ encrypting \subseteq [file : 1..Len(files), num : Nat]
  /\ wire \in Seq([file : 0..Len(files), num : Nat])
  /\ dataUp \in BOOLEAN
  /\ writeQ \in Seq([into : 1..Len(files),
                     chunk : [file : 0..Len(files), num : Nat]])
  /\ \A d \in decrypting \cup disk :
       d \in [into : 1..Len(files),
              chunk : [file : 0..Len(files), num : Nat]]

Init ==
  /\ offer \in Offers /\ code \in Codes
  /\ pc = [p \in Role |-> "connect"]
  /\ state = [p \in Role |-> "KeyExchange"]
  /\ inbox = [p \in Role |-> <<>>]
  /\ joined = [control |-> <<>>, data |-> <<>>]
  /\ pings = 0
  /\ refused = FALSE
  /\ index = 0 /\ amount = 0
  /\ serving = [file |-> 0, next |-> 0] /\ pinged = {}
  /\ readQ = <<>> /\ encrypting = {}
  /\ wire = <<>> /\ dataUp = TRUE
  /\ writeQ = <<>> /\ decrypting = {}
  /\ disk = {}

Goto(p, from, to) == pc[p] = from /\ pc' = [pc EXCEPT ![p] = to]
Send(p, msgs) == inbox' = [inbox EXCEPT ![Peer(p)] = @ \o msgs]

\* Session p takes the next message and sends msgs to its peer.
Answer(p, type, msgs) ==
  /\ pc[p] = "recv"
  /\ inbox[p] # <<>>
  /\ Head(inbox[p]).type = type
  /\ inbox' = [inbox EXCEPT ![p] = Tail(@), ![Peer(p)] = @ \o msgs]

-----------------------------------------------------------------------------
(* Meeting: RelayClient, and the start of the sessions.                    *)

\* A client enters the control room.  The receiver says "handshake" at once,
\* the sender waits for it in handle_keepalive.
connect(p) ==
  /\ Goto(p, "connect", IF p = "sender" THEN "keepalive" ELSE "net")
  /\ joined' = [joined EXCEPT !.control = Append(@, p)]
  /\ Send(p, IF p = "sender" THEN <<>> ELSE <<Msg("handshake")>>)
  /\ UNCHANGED <<given, state, pings, refused, loops, pipeline>>

handle_keepalive(p) ==
  /\ pc[p] = "keepalive"
  /\ inbox[p] # <<>>
  /\ pc' = [pc EXCEPT ![p] =
              CASE Head(inbox[p]).type = "ping" -> "keepalive"
                [] Head(inbox[p]).type = "handshake" -> "net"
                [] OTHER -> "failed"]
  /\ inbox' = [inbox EXCEPT ![p] = Tail(@)]
  /\ UNCHANGED <<given, state, joined, pings, refused, loops, pipeline>>

\* Enter the room of the data connection.
start_net_task(p) == joined' = [joined EXCEPT !.data = Append(@, p)]

\* process_client() begins: the data connection, and the receiver's first
\* message.
process_client(p) ==
  /\ Goto(p, "net", "recv")
  /\ start_net_task(p)
  /\ Send(p, IF p = "receiver" THEN <<Msg("pake")>> ELSE <<>>)
  /\ UNCHANGED <<given, state, pings, refused, loops, pipeline>>

\* The relay pings whoever is first in a room that is not full yet.  Nobody
\* reads what arrives at the sender on the data connection.
PingControl ==
  /\ pings < MaxPings
  /\ Len(joined.control) = 1
  /\ inbox' = [inbox EXCEPT ![joined.control[1]] = Append(@, Msg("ping"))]
  /\ pings' = pings + 1
  /\ UNCHANGED <<given, pc, state, joined, refused, loops, pipeline>>

PingData ==
  /\ pings < MaxPings
  /\ \E i \in DOMAIN joined.data : joined.data[i] = "receiver"
  /\ Len(joined.data) = 1 \/ code = "apart"
  /\ wire' = Append(wire, Ping)
  /\ pings' = pings + 1
  /\ UNCHANGED <<given, pc, state, inbox, joined, refused, loops,
                 readQ, encrypting, dataUp, writeQ, decrypting, disk>>

-----------------------------------------------------------------------------
(* The control messages, in the order of the match in process_client().    *)

\* Both sides have the key now, and their CrocFsInterface.
process_key_exchange(p) ==
  /\ Answer(p, "pake",
            <<Msg(IF p = "sender" THEN "pake" ELSE "externalip")>>)
  /\ state' = [state EXCEPT ![p] = "IpExchange"]
  /\ UNCHANGED <<given, pc, joined, pings, refused, loops, pipeline>>

\* Mutant: the sender's state stays that of a receiver.
process_ip_exchangeSame(p) ==
  LET valid == state[p] = "IpExchange" IN
  /\ Answer(p, "externalip",
            IF valid /\ p = "sender"
            THEN <<Msg("externalip"), Msg("fileinfo")>> ELSE <<>>)
  /\ pc' = [pc EXCEPT ![p] = IF valid THEN @ ELSE "failed"]
  /\ state' = [state EXCEPT ![p] = IF valid THEN "FileInfoTransfare" ELSE @]
  /\ UNCHANGED <<given, joined, pings, refused, loops, pipeline>>

\* The sender goes on to send what it offers.
process_ip_exchange(p) ==
  LET valid == state[p] = "IpExchange" IN
  /\ Answer(p, "externalip",
            IF valid /\ p = "sender"
            THEN <<Msg("externalip"), Msg("fileinfo")>> ELSE <<>>)
  /\ pc' = [pc EXCEPT ![p] = IF valid THEN @ ELSE "failed"]
  /\ state' = [state EXCEPT ![p] =
                 IF ~valid THEN @
                 ELSE IF p = "sender" THEN "FileTransfare"
                 ELSE "FileInfoTransfare"]
  /\ UNCHANGED <<given, joined, pings, refused, loops, pipeline>>

recv_finished(p) ==
  /\ Answer(p, "finished", <<Msg("finished")>>)
  /\ pc' = [pc EXCEPT ![p] = "done"]
  /\ UNCHANGED <<given, state, joined, pings, refused, loops, pipeline>>

\* The first half of process_files_info(), up to the question to the user.
process_files_info(p) ==
  /\ Answer(p, "fileinfo", <<>>)
  /\ pc' = [pc EXCEPT ![p] =
              IF p = "sender" THEN "panicked"
              ELSE IF state[p] # "FileInfoTransfare" THEN "failed"
              ELSE "confirm"]
  /\ UNCHANGED <<given, state, joined, pings, refused, loops, pipeline>>

\* The user says no.
refuse(p) ==
  /\ MayRefuse
  /\ Goto(p, "confirm", "failed")
  /\ Send(p, <<Msg("error")>>)
  /\ refused' = TRUE
  /\ UNCHANGED <<given, state, joined, pings, loops, pipeline>>

\* create_folder() resolves the path of a folder that has to exist for that,
\* and then creates it: it fails either way.
create_empty_folders(p) ==
  /\ Goto(p, "confirm", "failed")
  /\ offer.folders
  /\ UNCHANGED <<given, state, inbox, joined, pings, refused, loops, pipeline>>

\* The user says yes, and there is a list of files.
accept(p) ==
  /\ Goto(p, "confirm", "request")
  /\ ~offer.folders /\ offer.listed
  /\ state' = [state EXCEPT ![p] = "FileTransfare"]
  /\ UNCHANGED <<given, inbox, joined, pings, refused, loops, pipeline>>

\* The user says yes, and there is none.
accept_nothing(p) ==
  /\ Goto(p, "confirm", "recv")
  /\ ~offer.folders /\ ~offer.listed
  /\ Send(p, <<Msg("finished")>>)
  /\ state' = [state EXCEPT ![p] = "FileTransfared"]
  /\ UNCHANGED <<given, joined, pings, refused, loops, pipeline>>

\* A request for a file reaches send_file(), with its two assertions (and the
\* todo!() for a request that comes before the keys).
recv_recipientready(p) ==
  /\ Answer(p, "recipientready", <<>>)
  /\ pc' = [pc EXCEPT ![p] =
              IF p = "sender" /\ state[p] = "FileTransfare"
              THEN "send_file" ELSE "panicked"]
  /\ serving' = [file |-> Head(inbox[p]).num, next |-> 0]
  /\ UNCHANGED <<given, state, joined, pings, refused, index, amount, pinged,
                 pipeline>>

\* The answer to a TypeError message is todo!().
recv_error(p) ==
  /\ Answer(p, "error", <<>>)
  /\ pc' = [pc EXCEPT ![p] = "panicked"]
  /\ UNCHANGED <<given, state, joined, pings, refused, loops, pipeline>>

\* A ping is no Message: recv() fails to parse it.
recv_unparsable(p) ==
  /\ Answer(p, "ping", <<>>)
  /\ pc' = [pc EXCEPT ![p] = "failed"]
  /\ UNCHANGED <<given, state, joined, pings, refused, loops, pipeline>>

-----------------------------------------------------------------------------
(* The receiver's loop over the files.                                     *)

\* Mutant: one file too many.
request_fileBeyond(p) ==
  /\ Goto(p, "request", "receive")
  /\ index <= Len(files)
  /\ index' = index + 1
  /\ amount' = 0
  /\ Send(p, <<Ready(index + 1)>>)
  /\ UNCHANGED <<given, state, joined, pings, refused, serving, pinged,
                 pipeline>>

\* Create the next file and request it.
request_file(p) ==
  /\ Goto(p, "request", "receive")
  /\ index < Len(files)
  /\ index' = index + 1
  /\ amount' = 0
  /\ Send(p, <<Ready(index + 1)>>)
  /\ UNCHANGED <<given, state, joined, pings, refused, serving, pinged,
                 pipeline>>

\* Take a message off the data connection and hand it to fs_writer_task.
receive_chunk(p) ==
  /\ pc[p] = "receive"
  /\ amount < files[index].announced
  /\ wire # <<>>
  /\ Len(writeQ) < QueueCap
  /\ wire' = Tail(wire)
  /\ writeQ' = Append(writeQ, [into |-> index, chunk |-> Head(wire)])
  /\ amount' = amount + 1
  /\ pinged' = IF Head(wire) = Ping THEN pinged \cup {index} ELSE pinged
  /\ UNCHANGED <<given, session, index, serving,
                 readQ, encrypting, dataUp, decrypting, disk>>

\* Mutant: size / TCP_BUFFER_SIZE instead of div_ceil.
file_receivedFloor(p) ==
  /\ Goto(p, "receive", "request")
  /\ amount + 1 >= files[index].announced \/ (wire = <<>> /\ ~dataUp)
  /\ UNCHANGED <<given, state, inbox, joined, pings, refused, loops, pipeline>>

\* Mutant: current_amount <= total_chunks.
file_receivedBeyond(p) ==
  /\ Goto(p, "receive", "request")
  /\ amount > files[index].announced \/ (wire = <<>> /\ ~dataUp)
  /\ UNCHANGED <<given, state, inbox, joined, pings, refused, loops, pipeline>>

\* Mutant: a closed channel is tried again.
file_receivedCounted(p) ==
  /\ Goto(p, "receive", "request")
  /\ amount >= files[index].announced
  /\ UNCHANGED <<given, state, inbox, joined, pings, refused, loops, pipeline>>

\* The loop ends when it has counted enough, or when the channel is closed.
file_received(p) ==
  /\ Goto(p, "receive", "request")
  /\ amount >= files[index].announced \/ (wire = <<>> /\ ~dataUp)
  /\ UNCHANGED <<given, state, inbox, joined, pings, refused, loops, pipeline>>

\* Mutant: the last file is left out.
finishEarly(p) ==
  /\ Goto(p, "request", "recv")
  /\ index + 1 >= Len(files)
  /\ Send(p, <<Msg("finished")>>)
  /\ UNCHANGED <<given, state, joined, pings, refused, loops, pipeline>>

finish(p) ==
  /\ Goto(p, "request", "recv")
  /\ index = Len(files)
  /\ Send(p, <<Msg("finished")>>)
  /\ UNCHANGED <<given, state, joined, pings, refused, loops, pipeline>>

-----------------------------------------------------------------------------
(* send_file(), and the pipeline.                                          *)

\* Mutant: the range of offsets includes its end.
send_fileInclusive(p) ==
  /\ pc[p] = "send_file"
  /\ serving.next <= files[serving.file].actual
  /\ Len(readQ) < QueueCap
  /\ readQ' = Append(readQ, Chunk(serving.file, serving.next))
  /\ serving' = [serving EXCEPT !.next = @ + 1]
  /\ UNCHANGED <<given, session, index, amount, pinged,
                 encrypting, wire, dataUp, writeQ, decrypting, disk>>

send_file(p) ==
  /\ pc[p] = "send_file"
  /\ serving.next < files[serving.file].actual
  /\ Len(readQ) < QueueCap
  /\ readQ' = Append(readQ, Chunk(serving.file, serving.next))
  /\ serving' = [serving EXCEPT !.next = @ + 1]
  /\ UNCHANGED <<given, session, index, amount, pinged,
                 encrypting, wire, dataUp, writeQ, decrypting, disk>>

file_sent(p) ==
  /\ Goto(p, "send_file", "recv")
  /\ serving.next >= files[serving.file].actual
  /\ UNCHANGED <<given, state, inbox, joined, pings, refused, loops, pipeline>>

\* Read the chunk and spawn a task for it.
fs_reader_task ==
  /\ readQ # <<>>
  /\ readQ' = Tail(readQ)
  /\ encrypting' = encrypting \cup {Head(readQ)}
  /\ UNCHANGED <<given, session, loops, wire, dataUp, writeQ, decrypting, disk>>

\* A spawned task encrypts its chunk and puts it on the way, if there is (still)
\* somebody to read it.
encrypt_task ==
  \E c \in encrypting :
    /\ encrypting' = encrypting \ {c}
    /\ IF dataUp /\ code # "apart" /\ pc["receiver"] \notin Ended
       THEN Len(wire) < WireCap /\ wire' = Append(wire, c)
       ELSE UNCHANGED wire
    /\ UNCHANGED <<given, session, loops,
                   readQ, dataUp, writeQ, decrypting, disk>>

\* The data connection breaks (the tasks of croc_raw leave their loops), and
\* what was on the way is lost but for what the receiver's queue holds.
data_breaks ==
  /\ DataMayBreak /\ dataUp
  /\ Len(joined.data) = 2
  /\ dataUp' = FALSE
  /\ \E n \in 0..Len(wire) : wire' = SubSeq(wire, 1, n)
  /\ UNCHANGED <<given, session, loops,
                 readQ, encrypting, writeQ, decrypting, disk>>

fs_writer_task ==
  /\ writeQ # <<>>
  /\ writeQ' = Tail(writeQ)
  /\ decrypting' = decrypting \cup {Head(writeQ)}
  /\ UNCHANGED <<given, session, loops, readQ, encrypting, wire, dataUp, disk>>

\* A ping is shorter than the nonce that decrypt() slices off, so the task that
\* has it panics; a message under another key is an error.
decrypt(chunk) == chunk # Ping /\ code = "same"

\* A spawned task decrypts its chunk and writes it at its offset.  One that cannot
\* be decrypted is lost, and nobody notices.
decrypt_task ==
  \E d \in decrypting :
    /\ decrypting' = decrypting \ {d}
    /\ disk' = IF decrypt(d.chunk) THEN disk \cup {d} ELSE disk
    /\ UNCHANGED <<given, session, loops,
                   readQ, encrypting, wire, dataUp, writeQ>>

\* main() returns when both sessions have: the tasks that remain are dropped.
exit ==
  /\ MayExit
  /\ \A p \in Role : pc[p] \in Ended
  /\ pc' = [p \in Role |-> "exited"]
  /\ readQ' = <<>> /\ encrypting' = {} /\ wire' = <<>>
  /\ writeQ' = <<>> /\ decrypting' = {}
  /\ UNCHANGED <<given, state, inbox, joined, pings, refused, loops,
                 dataUp, disk>>

-----------------------------------------------------------------------------
SessionStep(p) ==
  \/ connect(p) \/ handle_keepalive(p) \/ process_client(p)
  \/ process_key_exchange(p) \/ process_ip_exchange(p) \/ recv_finished(p)
  \/ process_files_info(p) \/ create_empty_folders(p) \/ accept(p)
  \/ accept_nothing(p) \/ recv_recipientready(p) \/ recv_error(p)
  \/ recv_unparsable(p) \/ request_file(p) \/ receive_chunk(p)
  \/ file_received(p) \/ finish(p) \/ send_file(p) \/ file_sent(p)

TaskStep == fs_reader_task \/ encrypt_task \/ fs_writer_task \/ decrypt_task

Next ==
  \/ \E p \in Role : SessionStep(p) \/ refuse(p)
  \/ TaskStep
  \/ PingControl \/ PingData \/ data_breaks \/ exit

Spec == Init /\ [][Next]_vars

(***************************************************************************)
(* Fairness: every task that can move is run by tokio, the relay delivers, *)
(* and the user answers the question.  The relay need not ping, nothing    *)
(* need break, and the program need not end.                               *)
(***************************************************************************)
FairSpec ==
  /\ Spec
  /\ \A p \in Role : WF_vars(SessionStep(p))
  /\ WF_vars(fs_reader_task) /\ WF_vars(encrypt_task)
  /\ WF_vars(fs_writer_task) /\ WF_vars(decrypt_task)

-----------------------------------------------------------------------------
(* Properties.                                                             *)

\* The chunks of the offered files, each in its own file.
Wanted ==
  UNION {{[into |-> f, chunk |-> Chunk(f, k)] : k \in 0..(files[f].actual - 1)} :
         f \in DOMAIN files}

\* What the receiver has taken off the data connection.
Received == disk \cup decrypting \cup {writeQ[i] : i \in DOMAIN writeQ}

\* A chunk is written into the file it was read from, although the data
\* connection says nothing of files: the receiver tells them apart by counting
\* (client_session.rs:216-237), while the chunks overtake one another in the
\* tasks that encrypt them (fs.rs:46).
ChunksGoToTheirOwnFile == \A d \in Received : d.into = d.chunk.file

\* The receiver says Finished only when it has taken every offered chunk off
\* the data connection (client_session.rs:240-241).
FinishedMeansReceived ==
  "finished" \in {inbox["sender"][i].type : i \in DOMAIN inbox["sender"]}
    => Received = Wanted

\* send_file() returns before its chunks have left the process, and nobody
\* waits for the tasks it started (client_session.rs:160-163, fs.rs:46); still,
\* when the sender's session returns all of them have been delivered.
SenderLeavesNothingBehind ==
  pc["sender"] = "done" => readQ = <<>> /\ encrypting = {} /\ wire = <<>>

\* Every transfer comes to its end, and every chunk onto the disk, through
\* queues that are all bounded.
TransferCompletes ==
  <>[](/\ \A p \in Role : pc[p] = "done"
       /\ disk = Wanted)

\* A transfer without a fault is a Delivery: in particular no chunk is taken
\* twice or for another file, and no session returns before all have been taken
\* over (client_session.rs:160-163, 187-241, fs.rs:16-90).
Delivered ==
  INSTANCE Delivery WITH
    wanted <- Wanted, taken <- Received, stored <- disk,
    returned <- {p \in Role : pc[p] = "done"}

ImplementsDelivery == Delivered!Spec

\* The assertions and todo!()s of the sessions (client_session.rs:154, 170-174,
\* 329, 374-375) are out of reach, but for the answer to a refusal.
PanicMeansRefusal == \A p \in Role : pc[p] = "panicked" => refused

\* The files that have more chunks when they are sent than were announced.
Grown == {f \in DOMAIN files : files[f].actual > files[f].announced}

\* A chunk that is written into another file than its own (client_session.rs:216-237)
\* is written into a later one, and was displaced there: at its own file or before
\* it the receiver has counted a ping as a chunk, or a file has grown since it was
\* announced.  A ping that is not counted, the loss of the data connection and
\* the order of the tasks displace nothing.
MisplacedMeansPinged ==
  \A d \in Received :
    d.chunk # Ping /\ d.into # d.chunk.file =>
      /\ d.chunk.file < d.into
      /\ \E f \in pinged \cup Grown : f <= d.chunk.file

\* A transfer that both sessions take for done has left the files on the disk once
\* the tasks of the writer are through, or one of five things has happened: a
\* ping was counted as a chunk, a file has grown, the data connection broke, the
\* keys differ, or the data rooms do.  None of them is noticed by either session
\* (client_session.rs:216-241, fs.rs:64-85); but clients whose secrets are not the
\* same write nothing at all.
LossHasACause ==
  /\ (\A p \in Role : pc[p] = "done") /\ Received = disk /\ disk # Wanted
     => pinged \cup Grown # {} \/ ~dataUp \/ code # "same"
  /\ code # "same" => disk = {}

\* The sender's session returns before the receiver's, and yet only when the
\* receiver has gone through all the files, whatever was lost, pinged or refused
\* on the way (client_session.rs:160-163, 187-241).
SenderReturnsAfterTheFiles ==
  pc["sender"] = "done" => index = Len(files) /\ pc["receiver"] # "receive"

\* Once files are requested both sessions return, whatever happens to the data:
\* a loss of the connection ends the loop that counts chunks, and the chunks
\* that nobody reads any more hold no queue that send_file() waits for
\* (client_session.rs:220-221, fs.rs:46).  A receiver whose data room is not the
\* sender's is kept going by pings alone.
RequestsEnd ==
  pc["receiver"] = "request" /\ code # "apart" ~>
    (pc["sender"] \in {"done", "exited"} /\ pc["receiver"] \in {"done", "exited"})

\* relay/mod.rs:126: when both sessions have returned the file has its content.
CompleteAtExit ==
  (\A p \in Role : pc[p] = "exited") => disk = Wanted

\* client_session.rs:349: a sender whose offer is refused is told so, and does
\* not panic.
RefusalIsHandled == pc["sender"] # "panicked"
=============================================================================
