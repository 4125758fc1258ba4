------------------------------- MODULE Bridge -------------------------------
(***************************************************************************)
(* Two bridged clients, from one MpscCrocProto (src/proto/croc_raw.rs) to  *)
(* the other: the queues in which messages wait, the two tasks of each     *)
(* client that frame them and take the frames apart, the sockets, and the  *)
(* two directions of bridge_sockets() (src/relay/server.rs), which copy    *)
(* whatever bytes a read returns.                                          *)
(*                                                                         *)
(* A frame is seen as units, in which it may be cut: the header (magic and *)
(* length) and the body.  The messages of a client are numbered.           *)
(***************************************************************************)
EXTENDS SequencesExt, Integers

CONSTANTS
  MaxSaid,    \* bound on the messages of both clients together
  QueueCap,   \* messages in a queue of MpscCrocProto (100 in the code)
  SocketCap,  \* units in the buffers of a socket, one way
  CopyCap,    \* units in the buffer of a copy (1024 bytes in the code)
  MayBreak    \* the network may fail

Side == {"a", "b"}
Other(p) == IF p = "a" THEN "b" ELSE "a"

ASSUME BridgeAssumption ==
  /\ MaxSaid \in Nat
  /\ {QueueCap, SocketCap, CopyCap} \subseteq Nat \ {0}
  /\ MayBreak \in BOOLEAN

VARIABLES
  open,     \* open[p]: the halves of its MpscCrocProto that p still holds
  said,     \* said[p]: how many messages p has put in its queue
  heard,    \* heard[p]: the messages that p has taken from its queue
  told,     \* told[p]: p has been told that its channel is closed
  exited,   \* those whose process has ended
  reliable, \* the network does not fail
  outQ,     \* outQ[p]: messages for the writer task of p
  writing,  \* writing[p]: units the writer task has yet to write
  tasks,    \* tasks[p]: the tasks of p that run; each holds half of the socket
  up,       \* up[p]: units on their way from p to the relay
  copy,     \* copy[p]: units of p in the hands of the bridge
  eof,      \* those whose direction of the bridge has returned
  bridge,   \* what has become of the bridge: "up", "over" or "broken"
  down,     \* down[p]: units on their way from the relay to p
  frame,    \* frame[p]: units of a frame the reader task has read
  inQ       \* inQ[p]: messages for p

apps == <<open, said, heard, told, exited, reliable>>
writers == <<outQ, writing>>
relay == <<copy, eof, bridge>>
readers == <<frame, inQ>>
vars == <<apps, writers, tasks, up, relay, down, readers>>

Half == {"read", "write"}
Frame(n) == <<<<n, "header">>, <<n, "body">>>>
Unit == (1..MaxSaid) \X {"header", "body"}
\* What is in a frame that is made of other than the two units of one message.
Garbage == 0

Message(units) == IF units[2] = <<units[1][1], "body">> THEN units[1][1] ELSE Garbage

TypeOK ==
  /\ {open, tasks} \subseteq [Side -> SUBSET Half]
  /\ said \in [Side -> 0..MaxSaid] /\ told \in [Side -> BOOLEAN]
  /\ {outQ, heard, inQ} \subseteq [Side -> Seq(1..MaxSaid)]
  /\ {writing, copy, up, down, frame} \subseteq [Side -> Seq(Unit)]
  /\ \A p \in Side :
       /\ {Len(outQ[p]), Len(inQ[p])} \subseteq 0..QueueCap
       /\ {Len(writing[p]), Len(frame[p])} \subseteq 0..2
       /\ {Len(up[p]), Len(down[p])} \subseteq 0..SocketCap
       /\ Len(copy[p]) <= CopyCap
  /\ exited \subseteq Side /\ eof \subseteq Side /\ reliable \in BOOLEAN
  /\ bridge \in {"up", "over", "broken"}

Init ==
  /\ open = [p \in Side |-> Half]
  /\ said = [p \in Side |-> 0]
  /\ heard = [p \in Side |-> <<>>]
  /\ told = [p \in Side |-> FALSE] /\ exited = {}
  /\ reliable \in {TRUE, ~MayBreak}
  /\ outQ = [p \in Side |-> <<>>] /\ inQ = [p \in Side |-> <<>>]
  /\ writing = [p \in Side |-> <<>>] /\ frame = [p \in Side |-> <<>>]
  /\ tasks = [p \in Side |-> Half]
  /\ up = [p \in Side |-> <<>>] /\ down = [p \in Side |-> <<>>]
  /\ copy = [p \in Side |-> <<>>]
  /\ eof = {} /\ bridge = "up"

Push(q, p, x) == q' = [q EXCEPT ![p] = Append(@, x)]
Pop(q, p) == q[p] # <<>> /\ q' = [q EXCEPT ![p] = Tail(@)]
EndTask(p, half) == tasks' = [tasks EXCEPT ![p] = @ \ {half}]

-----------------------------------------------------------------------------
(* What a client does with its MpscCrocProto.                              *)

\* OwnedSender::write().
write(p) ==
  /\ "write" \in open[p] /\ "write" \in tasks[p]
  /\ said[p] + said[Other(p)] < MaxSaid
  /\ Len(outQ[p]) < QueueCap
  /\ said' = [said EXCEPT ![p] = @ + 1]
  /\ Push(outQ, p, said[p] + 1)
  /\ UNCHANGED <<open, heard, told, exited, reliable, writing, tasks, up, relay, down, readers>>

\* OwnedReceiver::read().
read(p) ==
  /\ "read" \in open[p]
  /\ Pop(inQ, p)
  /\ Push(heard, p, Head(inQ[p]))
  /\ UNCHANGED <<open, said, told, exited, reliable, writers, tasks, up, relay, down, frame>>

\* The channel is closed and empty.
read_closed(p) ==
  /\ "read" \in open[p] /\ ~told[p]
  /\ inQ[p] = <<>> /\ "read" \notin tasks[p]
  /\ told' = [told EXCEPT ![p] = TRUE]
  /\ UNCHANGED <<open, said, heard, exited, reliable, writers, tasks, up, relay, down,
                 readers>>

\* The client drops a half.
drop_half(p, half) ==
  /\ half \in open[p]
  /\ open' = [open EXCEPT ![p] = @ \ {half}]
  /\ inQ' = IF half = "read" THEN [inQ EXCEPT ![p] = <<>>] ELSE inQ
  /\ UNCHANGED <<said, heard, told, exited, reliable, writers, tasks, up, relay, down,
                 frame>>

\* The client's process ends, with all that was in it.
exit(p) ==
  /\ p \notin exited
  /\ exited' = exited \cup {p}
  /\ open' = [open EXCEPT ![p] = {}]
  /\ tasks' = [tasks EXCEPT ![p] = {}]
  /\ outQ' = [outQ EXCEPT ![p] = <<>>] /\ writing' = [writing EXCEPT ![p] = <<>>]
  /\ inQ' = [inQ EXCEPT ![p] = <<>>] /\ frame' = [frame EXCEPT ![p] = <<>>]
  /\ UNCHANGED <<said, heard, told, reliable, up, relay, down>>

-----------------------------------------------------------------------------
(* The writer task of MpscCrocProto::from_stream().                        *)

take_message(p) ==
  /\ "write" \in tasks[p] /\ writing[p] = <<>>
  /\ Pop(outQ, p)
  /\ writing' = [writing EXCEPT ![p] = Frame(Head(outQ[p]))]
  /\ UNCHANGED <<apps, tasks, up, relay, down, readers>>

write_all(p) ==
  /\ bridge = "up" /\ Len(up[p]) < SocketCap
  /\ Pop(writing, p)
  /\ Push(up, p, Head(writing[p]))
  /\ UNCHANGED <<apps, outQ, tasks, relay, down, readers>>

\* With nobody at the other end, bytes may still be written, to no avail, or
\* the task meets the error.
write_lost(p) ==
  /\ bridge # "up"
  /\ Pop(writing, p)
  /\ UNCHANGED <<apps, outQ, tasks, up, relay, down, readers>>

write_error(p) ==
  /\ bridge # "up" /\ writing[p] # <<>>
  /\ writing' = [writing EXCEPT ![p] = <<>>]
  /\ outQ' = [outQ EXCEPT ![p] = <<>>]
  /\ EndTask(p, "write")
  /\ UNCHANGED <<apps, up, relay, down, readers>>

\* Mutant: the task ends with the client's half, whatever is in the queue.
writer_endsEarly(p) ==
  /\ "write" \in tasks[p] /\ "write" \notin open[p]
  /\ writing[p] = <<>>
  /\ outQ' = [outQ EXCEPT ![p] = <<>>]
  /\ EndTask(p, "write")
  /\ UNCHANGED <<apps, writing, up, relay, down, readers>>

\* Every sender is dropped and the queue is empty: the task ends, which shuts
\* its half of the socket down.
writer_ends(p) ==
  /\ "write" \in tasks[p] /\ "write" \notin open[p]
  /\ outQ[p] = <<>> /\ writing[p] = <<>>
  /\ EndTask(p, "write")
  /\ UNCHANGED <<apps, writers, up, relay, down, readers>>

-----------------------------------------------------------------------------
(* bridge_sockets(): the direction that reads from p and writes to its     *)
(* peer, and the end of both.                                              *)

asymmetric_read(p) ==
  /\ bridge = "up" /\ p \notin eof /\ copy[p] = <<>>
  /\ \E n \in 1..CopyCap :
       /\ n <= Len(up[p])
       /\ copy' = [copy EXCEPT ![p] = SubSeq(up[p], 1, n)]
       /\ up' = [up EXCEPT ![p] = SubSeq(@, n + 1, Len(@))]
  /\ UNCHANGED <<apps, writers, tasks, eof, bridge, down, readers>>

\* Mutant: write() instead of write_all(): the rest of the buffer is dropped.
asymmetric_writeOnce(p) ==
  /\ bridge = "up" /\ Len(down[Other(p)]) < SocketCap
  /\ copy[p] # <<>>
  /\ copy' = [copy EXCEPT ![p] = <<>>]
  /\ Push(down, Other(p), Head(copy[p]))
  /\ UNCHANGED <<apps, writers, tasks, up, eof, bridge, readers>>

asymmetric_write(p) ==
  /\ bridge = "up" /\ Len(down[Other(p)]) < SocketCap
  /\ Pop(copy, p)
  /\ Push(down, Other(p), Head(copy[p]))
  /\ UNCHANGED <<apps, writers, tasks, up, eof, bridge, readers>>

\* Mutant: the end of one direction ends the bridge.
asymmetric_eofEnds(p) ==
  /\ bridge = "up" /\ p \notin eof /\ copy[p] = <<>>
  /\ up[p] = <<>> /\ "write" \notin tasks[p]
  /\ eof' = Side
  /\ UNCHANGED <<apps, writers, tasks, up, copy, bridge, down, readers>>

\* Mutant: a read of nothing is tried again.
asymmetric_eofAgain(p) ==
  /\ bridge = "up" /\ p \notin eof /\ copy[p] = <<>>
  /\ up[p] = <<>> /\ "write" \notin tasks[p]
  /\ UNCHANGED vars

\* The end of the stream: this direction returns Ok, and the other socket is
\* not told.
asymmetric_eof(p) ==
  /\ bridge = "up" /\ p \notin eof /\ copy[p] = <<>>
  /\ up[p] = <<>> /\ "write" \notin tasks[p]
  /\ eof' = eof \cup {p}
  /\ UNCHANGED <<apps, writers, tasks, up, copy, bridge, down, readers>>

bridge_ends ==
  /\ bridge = "up" /\ eof = Side
  /\ bridge' = "over"
  /\ UNCHANGED <<apps, writers, tasks, up, copy, eof, down, readers>>

\* try_join! gives both directions up, and both sockets are closed.  One with
\* bytes that were not read is reset, which may cost its client what it has not
\* read either.
bridge_error ==
  /\ bridge = "up"
  /\ bridge' = "broken"
  /\ copy' = [p \in Side |-> <<>>] /\ up' = [p \in Side |-> <<>>]
  /\ \E cut \in SUBSET {p \in Side : up[p] # <<>>} :
       down' = [p \in Side |-> IF p \in cut THEN <<>> ELSE down[p]]
  /\ UNCHANGED <<apps, writers, tasks, eof, readers>>

\* A socket that its client has closed answers the bytes it has, or gets, with
\* a reset.
bridge_reset == (\E p \in Side : tasks[p] = {} /\ down[p] # <<>>) /\ bridge_error

bridge_fails == ~reliable /\ bridge_error

-----------------------------------------------------------------------------
(* The reader task of MpscCrocProto::from_stream().                        *)

\* Mutant: the body is not waited for.
read_exactShort(p) ==
  /\ "read" \in tasks[p] /\ Len(frame[p]) < 2
  /\ Pop(down, p)
  /\ frame' = [frame EXCEPT ![p] = IF Head(down[p])[2] = "body" THEN <<>>
                              ELSE <<Head(down[p]), Head(down[p])>>]
  /\ UNCHANGED <<apps, writers, tasks, up, relay, inQ>>

\* What does not begin with the magic is no frame, and ends the task.
read_exact(p) ==
  /\ "read" \in tasks[p] /\ Len(frame[p]) < 2
  /\ Pop(down, p)
  /\ IF frame[p] = <<>> /\ Head(down[p])[2] # "header"
     THEN EndTask(p, "read") /\ UNCHANGED frame
     ELSE Push(frame, p, Head(down[p])) /\ UNCHANGED tasks
  /\ UNCHANGED <<apps, writers, up, relay, inQ>>

send_message(p) ==
  /\ "read" \in tasks[p] /\ Len(frame[p]) = 2
  /\ "read" \in open[p] /\ Len(inQ[p]) < QueueCap
  /\ Push(inQ, p, Message(frame[p]))
  /\ frame' = [frame EXCEPT ![p] = <<>>]
  /\ UNCHANGED <<apps, writers, tasks, up, relay, down>>

\* The client has dropped its receiver, which the task notices only now.
send_fails(p) ==
  /\ "read" \in tasks[p] /\ Len(frame[p]) = 2
  /\ "read" \notin open[p]
  /\ EndTask(p, "read")
  /\ frame' = [frame EXCEPT ![p] = <<>>]
  /\ UNCHANGED <<apps, writers, up, relay, down, inQ>>

\* The end of the stream, in the middle of a frame or not.
reader_ends(p) ==
  /\ "read" \in tasks[p] /\ Len(frame[p]) < 2
  /\ down[p] = <<>> /\ bridge # "up"
  /\ EndTask(p, "read")
  /\ frame' = [frame EXCEPT ![p] = <<>>]
  /\ UNCHANGED <<apps, writers, up, relay, down, inQ>>

-----------------------------------------------------------------------------
\* The tasks of client p and the direction of the bridge that reads from it.
WriterTask(p) ==
  take_message(p) \/ write_all(p) \/ write_lost(p) \/ write_error(p) \/ writer_ends(p)
CopyTask(p) == asymmetric_read(p) \/ asymmetric_write(p) \/ asymmetric_eof(p)
ReaderTask(p) ==
  read_exact(p) \/ send_message(p) \/ send_fails(p) \/ reader_ends(p)
BridgeTask == bridge_ends \/ bridge_reset

Next ==
  \/ \E p \in Side :
       \/ write(p) \/ read(p) \/ read_closed(p) \/ exit(p)
       \/ \E half \in Half : drop_half(p, half)
       \/ WriterTask(p) \/ CopyTask(p) \/ ReaderTask(p)
  \/ BridgeTask \/ bridge_fails

Spec == Init /\ [][Next]_vars

\* The runtime goes on with every task that can go on, and a client that holds
\* a receiver reads from it (the loops of process_client do); nothing makes a
\* client write, hang up or exit, or the network fail.
FairSpec ==
  /\ Spec
  /\ WF_vars(BridgeTask)
  /\ \A p \in Side :
       /\ WF_vars(WriterTask(p)) /\ WF_vars(CopyTask(p)) /\ WF_vars(ReaderTask(p))
       /\ WF_vars(read(p) \/ read_closed(p))

-----------------------------------------------------------------------------
(* Properties.                                                             *)

\* The frames of the messages, one after the other.
Units(msgs) ==
  [k \in 1..2 * Len(msgs) |-> Frame(msgs[(k + 1) \div 2])[IF k % 2 = 1 THEN 1 ELSE 2]]

\* What p has said and its peer has not taken yet, in order.
InFlight(p) ==
  LET q == Other(p) IN
  Units(inQ[q]) \o frame[q] \o down[q] \o copy[p] \o up[p]
    \o writing[p] \o Units(outQ[p])

\* However frames are cut and wherever queues and buffers are full, the bytes
\* between two clients are those of the messages said, each once and in order
\* (croc_raw.rs:67-110, server.rs:198-210).
StreamIsIntact ==
  \A p \in Side :
    "read" \in open[Other(p)] /\ bridge # "broken" =>
      LET spoken == Units([n \in 1..said[p] |-> n])
          found == Units(heard[Other(p)]) \o InFlight(p)
      IN IF p \in exited THEN IsPrefix(found, spoken) ELSE found = spoken

ImplementedLine ==
  INSTANCE Line WITH
    hungUp <- {p \in Side : "write" \notin open[p]},
    deaf <- {p \in Side : "read" \notin open[p]},
    gone <- exited,
    broken <- bridge = "broken",
    told <- {p \in Side : told[p]}

\* Between two MpscCrocProto there is a line: whole messages in the order they
\* were said, an end that is told only after all of them and only when both have
\* hung up, and no break while both listen and the network holds
\* (croc_raw.rs:63-141, server.rs:198-223).
ImplementsLine == ImplementedLine!Spec

\* What is said arrives, as long as the other one listens and the network holds;
\* a client that has dropped its receiver must not have been spoken to, for then
\* the reset of its socket may overtake its last words (croc_raw.rs:67-81, which
\* leave the queue to a task that outlives the client's half).
MessagesArrive ==
  \A p \in Side : \A n \in 1..MaxSaid :
    said[p] >= n ~>
      \/ Len(heard[Other(p)]) >= n
      \/ "read" \notin open[Other(p)] \/ p \in exited \/ ~reliable
      \/ "read" \notin open[p] /\ said[Other(p)] > 0

\* When both have hung up (or gone) the one that still listens is told
\* (server.rs:205-207, croc_raw.rs:76-78, 84-88, 129).
EndIsTold ==
  \A p \in Side :
    (\A q \in Side : "write" \notin open[q]) ~> told[p] \/ "read" \notin open[p]

\* When both are gone the bridge ends, with whatever is left in its buffers: the
\* room can then be removed (server.rs:74-78, 198-223).
BridgeEndsWithItsClients == exited = Side ~> bridge # "up"
=============================================================================
