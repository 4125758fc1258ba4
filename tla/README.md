# rust-croc: specification, model checking and proofs

`rust-croc` is a file transfer in the manner of `croc`: two clients meet on a
relay, agree on a key and send files to one another over it. This directory
holds TLA+ models of it, the TLC configurations that check them, and theorems
about them that TLAPS checks.

- [The system](#the-system): components, state, interaction, what is hard
- [The modules](#the-modules): what models what
- [The runs](#the-runs): what is checked, in which bounds, with which fairness
- [The proofs](#the-proofs)
- [Findings](#findings)
- [What is not modelled](#what-is-not-modelled)
- [Plan](#plan)

To check a module: `tlc -config RelayReuse.cfg MCRelayServer`; to check the
proofs of one: `tlapm RelayServerProofs.tla`.

## The system

Paths are below `src/src/`. Everything runs on tokio: a *task* is a spawned
future, and another task can act wherever the code has an `.await`.

### Relay server (`relay/server.rs`)

*State.* One `HashMap` from room names to rooms behind a `tokio::sync::Mutex`,
shared by the listeners of all ports; each `Room` (slots `first` and `second`)
behind a `Mutex` of its own. Every accepted connection has a task that runs
`handle()`.

*Operations.* `handle`: answer a ping, or exchange keys, check the password, send
the banner, read a room name. `negotiate_info` then takes the map's lock and,
if the name has a room, that room's lock, and opens a room / joins it / refuses.
Back in `handle` the task looks the room up *again*; if it is full, it takes both
sockets out, bridges them with the room's lock held until the bridge ends, and
removes the room *by name*; otherwise it becomes the room's keepalive
(`do_keepalive`, which looks the room up a third time).

*Hard.* Three lookups of one name with the locks dropped in between, so a name
may have another room each time; two lock orders (map, room in `negotiate_info`;
room, map at the end of `handle`); either of two tasks may start the relay;
pings by one task into a socket that another takes away; clients that die at any
moment.

*Correct when* a client that was told to wait is not lost; bridges join exactly
the pairs that asked for one name; nothing is written into a bridged socket; a
removal hits the right room; tasks do not block one another; every pair is
bridged; a dead room is closed.

### Bridge (`bridge_sockets` in `relay/server.rs`)

*State.* Two sockets, one copying loop per direction joined by `try_join!`.
*Hard.* Half-closing: a direction that meets the end of its stream returns `Ok`
and does not shut the other socket down; an error in one direction drops the
other. *Correct when* bytes arrive in order, and the bridge ends when both
clients have gone.

### Relay client (`relay/client.rs`)

*Operations.* `connect` performs the client's half of the handshake with the
server and names a room; `connect_to_sender` and `handle_keepalive` skip the
relay's pings on the sender's control connection until the receiver's
`handshake` arrives. *Hard.* Only the *sender's* control connection expects
pings, but the server pings whoever came first. *Correct when* both clients
meet in one room and no ping is taken for a message.

### Client session (`proto/client_session.rs`, `proto/croc_msg.rs`)

*State.* `ClientState`, the key, the `FilesInformation`, the control connection,
the data connection (`start_net_task`), a `CrocFsInterface`.

*Operations.* `process_client` is a loop over control messages: `pake`,
`externalip`, `fileinfo`, `recipientready`, `finished`, `error`. The receiver
asks the user, then requests the files one after another and *counts* chunks
that arrive on the data connection; the sender serves a request with
`send_file`, which only enqueues chunks.

*Hard.* Nothing on the data connection says which file a chunk belongs to;
`send_file` returns before the data has left; the end of a session does not wait
for the tasks; `assert!`, `unwrap` and `todo!()` meet messages in the wrong state.

*Correct when* each chunk gets into its own file; Finished means received;
both sessions end; no message reaches a panic.

### File data pipeline (`relay/fs.rs`)

*State.* `send_file` → queue of 100 → `fs_reader_task` → one spawned task for each
chunk (encrypt, send) → queues of `MpscCrocProto` and sockets → the receiver's
loop → queue of 100 → `fs_writer_task` → one spawned task for each chunk
(decrypt, seek, write). *Hard.* Chunks overtake one another in both sets of
spawned tasks; backpressure reaches the session's own loop; failed chunks are
logged and dropped. *Correct when* all chunks reach the disk in whatever order
and nothing blocks.

### Framing (`proto/croc_raw.rs`), encrypted session (`proto/croc_enc.rs`), AES (`crypto/aes.rs`)

Messages are framed by a magic word and a length; `MpscCrocProto` runs a reading
and a writing task with a queue each over one connection.
`negotiate_symmetric_key` is an SPAKE2 exchange, `EncryptedSession` a salt and a
derived key. *Correct when* the frames form a FIFO pipe of messages and both
sides derive the same key or fail.

### Entry point, command line, configuration, tests

`main.rs` runs one sender and one receiver in one process, joins both and
returns (which drops the remaining tasks). `cli/` is argument definitions and
commented out, `common/` is an empty configuration. `relay/mod.rs` holds tests;
they state intentions, and do not compile at this commit (`connect` is called
with an extra argument).

### How the parts interact

```
 sender: ClientSession --control conn--\                /--control conn-- ClientSession :receiver
            |                           \              /                      |
         fs_reader_task                  relay server                   fs_writer_task
            |                           /  (rooms)    \                       |
         encrypt tasks --data conn-----/               \-----data conn-- decrypt tasks -> disk
```

The control and the data room are two names in the same map. A client that has
closed is not reported to its peer while the bridge stands (half-close above). So
what `Transfer` takes the relay and the framing for is: FIFO pipes once both are
in, pings before that, and silence when a peer is gone. `RelayServer` and
`RelayClients` justify the first two, `Bridge` the first and the third.

## The modules

| Module | Models | Code |
|---|---|---|
| `Rendezvous` | *abstract*: a name has a host, then a guest; they meet and part | |
| `RelayServer` | rooms, locks, all `handle()` tasks, keepalive, clients that come and go | `relay/server.rs` |
| `RelayRendezvous` | refinement mapping from `RelayServer` to `Rendezvous` | |
| `RelayClients` | the clients' side of the handshake, the wait and the bridge, message by message, *composed with* `RelayServer` | `relay/client.rs`, the exchanges of `relay/server.rs`, the first messages of `proto/client_session.rs`, `main.rs` |
| `Line` | *abstract*: numbered messages between two ends, and when an end is told | |
| `Bridge` | two `MpscCrocProto`s and the bridge between them, frames cut into units | `proto/croc_raw.rs`, `bridge_sockets` |
| `Delivery` | *abstract*: chunks are taken over, stored, and the sessions return | |
| `Transfer` | both sessions, meeting in the rooms, the chunk pipeline, disk, end of the program | `proto/client_session.rs`, `relay/fs.rs`, parts of `relay/client.rs`, `proto/croc_raw.rs`, `main.rs` |
| `Chunking` | one file byte for byte: offsets, sizes, the shared file position | `send_file`, `relay/fs.rs`, `div_ceil` |
| `MCRelayServer`, `MCRelayClients`, `MCTransfer` | instances for TLC (`Bridge` and `Chunking` need none) | |
| `RelayServerProofs`, `RelayRendezvousProofs`, `RelayClientsProofs`, `RelayTalkProofs`, `BridgeProofs`, `TransferProofs`, `TransferDataProofs`, `ChunkingProofs` | invariants and theorems | |

```
  Rendezvous  <== implements == RelayServer == composed into ==> RelayClients
  Line        <== implements == Bridge
  Delivery    <== implements == Transfer     (chunks counted)
                                Chunking     (one file, its bytes)
```

Definitions whose comment begins with `Mutant:` are plausible bugs: what the
definition below it would be with a guard dropped, a step swapped, an off-by-one.
They take no part in the specifications; each shows that some property notices.

### RelayServer

`pc[c]` is the point in `handle()` at which the task of connection `c` is. An
action is the code between two points at which another task could come between:
what a task does while it holds the locks that guard the state is one step, and
each *waiting* for a lock is a point of its own. So `negotiate_info` is
`LockRooms` (the map) followed by one of `CreateRoom`, `JoinRoom`, `RefuseFull`,
`AnswerFails`, of which the ones that find a room need its lock while they hold
the map's: the hold-and-wait that matters. `StartRelay` keeps `roomLock` until
`UnlistRoom`, which needs the map's lock: the opposite order.

A room is an `Arc` that may outlive its place in the map. A connection creates at
most one room, so the room is identified with its creator: `rooms[n]` is the
listed room, `room[c]` the `Arc` that task `c` looked up, `first`/`second` the
slots. `last[c]` is a history variable: the last thing the server wrote to or did
with a connection, which is what the properties are about.

A client may close at any time (`ClientCloses`). A write to one that has gone may
fail or succeed, as with a socket. There are no passwords: after "bad password" the
code goes on to send the banner, reads a room name and lets the client in
(server.rs:140-157), so to the rooms a wrong password makes no difference. What
*this repository's* client does about the refusal is in `RelayClients`. `is_running()` is constantly false, since no code ever sets
`Room.handle`; `stop()` is never called.

### Rendezvous, and how RelayServer implements it

`Rendezvous` has no locks, lookups or sockets: `Open`, `Join`, `Meet`, `Part`, each
of a client that is new or of the pair under a name. In `RelayRendezvous` the host
of a name is the creator of the listed room; the guest is who sits in its second
slot, and, from the moment a task takes both sockets out until it has unlisted the
room, that task's `receiver`; the pairs that met are the `sender` and `receiver` of
all the tasks that ever relayed. `CreateRoom`, `JoinRoom`, `StartRelay` and
`UnlistRoom` are the four steps; everything else is a stutter. What this says
beyond the invariants is the *protocol* over time: nobody is replaced in a
meeting, served twice, or left out; a name is free again only after its pair has
met.

### RelayClients

`RelayClients` EXTENDS `RelayServer`: each relay action appears with what it reads
from `up[c]` and writes to `down[c]`, and none is without its `RelayServer` step, so
that the composition is a `RelayServer` in which clients are not arbitrary but run
`client.rs`. `cl[c]` is the `.await` that the client is at (`key`, `banner`,
`answer` in `connect()`; `keepalive` in `wait_for_receiver()`; `net` between
`connect` and `process_client`; `session`). `said` and `heard` are history
variables: the words to and from the *peer*, as against those of the relay.

Messages are names. A salt and a password go together since nothing can come
between them. The receiver's first two words are modelled (`handshake` at once,
`pake` from its session) and the sender's answer, because they are what travels
while sockets change hands. `secret[c]` is a length: `connect()` refuses less than
4, the slice in `process_client` panics with less than 5. A client that ends may
lose what it has written and the relay has not read (`Lose`); a bridge that breaks
may drop what it holds (`BridgeBreaks`).

`WordsReachThePeer` is about both directions of a bridge, and about the sockets of
clients that still wait: what these have said lies untouched in theirs.
`BadPassword` are the clients with a wrong password: the relay says "bad password"
and then the banner, the client reads the refusal, fails and hangs up, so that its
task ends and nobody is let in (`WrongPasswordEnds`).

`FailureHasACause` lists the causes of a failure, each tied to the client it
befell. They are its own (its secret, its password), a full room, a ping that was
sent to it *itself* while it is a receiver (`pinged` is a history variable, the
clients that the relay has pinged), or the *one* client it was bridged with
(`Met`): that one has crashed or panicked, has failed because of a ping, or both are
receivers, whom the relay does not tell from a sender. A ping to somebody else, the
wrong password of a client that was never let in, or the failure of one that was never
its peer, is no excuse.

### Line and Bridge

`Bridge` is what stands between two sessions once their room is bridged. A frame is
two units, its header and its body, and every buffer cuts where it likes: a socket
holds `SocketCap` units each way, a copy of `bridge_sockets` `CopyCap`. The four
tasks of the two `MpscCrocProto`s (`tasks[p]`, half of the socket each) live on
after the client drops its halves (`open[p]`): the writer task ends when its queue
is empty and its senders are gone, the reader task when it cannot deliver what it
has read, or at the end of the stream. The socket is closed when both have ended,
and bytes that reach it then are answered with a reset (`bridge_reset`), which
breaks the bridge (`try_join!`). `reliable` is chosen once: `bridge_fails` is the
network's failure.

`Line` is the promise: messages in order, each once; the end of the line is told
after the last message and *only when both have hung up*; it breaks only when one
no longer listens or the network is not reliable. The mapping takes a client that
dropped its sending half as having hung up, its receiving half as deaf, an exited
one as gone. `Line` says in one specification both what the code guarantees and the
weakness that the half-close leaves: somebody who waits for the peer waits until it
hangs up *itself*.

### Chunking

One file whose byte `i` is the number `i`. `send_chunk` is one turn of the stepped
range of `send_file()`, `fs_reader_task` reads what is queued, `receive_chunk` is
one turn of the receiver's counting loop together with the task that
`fs_writer_task` spawns for it, and that task is two steps, `seek` and `write_all`,
with the file locked between them: the position belongs to the file, not to the
task. `flight` is a set: encryption tasks, network and decryption tasks let chunks
overtake one another in every way. The size that was announced, the size when
`send_file()` opens the file, and the size when a chunk is read may all differ
(`announced`, `file_size`, `len`); a file that became too short ends
`fs_reader_task`, and with it `send_file()`.

### Transfer

`pc[p]` is where session `p` is in `process_client` (`recv` its loop, `confirm`
the question to the user, `request`/`receive` the receiver's loop over files and
chunks, `send_file` the sender's loop). One action is one message handled, or one
turn of an inner loop that waits for a queue. `inbox` is the control connection,
`wire` the data connection with the queues of `MpscCrocProto` at its ends; the
pipeline variables are named in the module.

A chunk is (file, number). The size of a file is the number of chunks that the
announced size amounts to (`announced`) and that of the size when it is opened
(`actual`). `Grown` are the files of which the second is larger: `send_file()` sends
what it opens, the receiver counts what was announced, and the rest spills into the
next file. A ping on the data connection is a message like any other: it is counted,
and its "decryption" panics in a task that nobody joins; `pinged` is a history
variable, the files for which one has been *counted*, which neither a ping on the
control connection nor one that nobody reads adds to. An empty folder makes
the receiver fail (`create_folder` resolves a path that does not exist yet).

Each session has a secret. Clients meet in the control room by its first three
bytes and derive the key from its sixth on, so `code` is one of three: the `same`
secret; secrets that `differ` where the key comes from, so that the sessions go on
and every `decrypt` fails; and secrets that send the two to data rooms `apart`.

`Delivery` is what a transfer promises when nothing fails, in four variables:
chunks are *taken* file by file, in any order within one; *stored* after that; and
the sender returns first, each when all are taken. (That they need not be stored
is finding 3.) The mapping takes the chunks that the receiver has counted, the disk,
and the sessions that are `done`.

## The runs

| Run | Specification | Shows |
|---|---|---|
| `relay_reuse` | `Spec`, five connections on one name | type; no waiting client is lost; bridges are proper pairs; no listed room without its first; a removal hits its own room; no ping after the relay has started; *implements `Rendezvous`* |
| `relay_progress` | `FairSpec`, three connections on one name | a full room is relayed whatever a third client does; who names a room is answered, unless somebody waits for a relay for ever |
| `relay_lock_cycle` | `Spec`, three on one name | *violated*: `NoLockCycle` |
| `relay_orphan_room` | `Spec`, three on one name | *violated*: `ListedRoomIsWatched` |
| `relay_clients` | `ClientsFairSpec`, a sender, a receiver that may crash, a client with a wrong password, all on one name | type; words reach the peer while sockets change hands; pings precede words; a failure has a cause; clients that are let in meet; a wrong password ends its task |
| `bridge` | `FairSpec`, two clients that write, drop halves and exit at any time | type; the stream is intact; *implements `Line`*; messages arrive; an end is told; the bridge ends with its clients |
| `chunking` | `FairSpec`, one file whose size may change | type; bytes are in place; the two counts agree; the size is kept; the file arrives |
| `transfer_intact` | `FairSpec`, no faults | type; chunks go to their own file; Finished means received; the sender leaves nothing behind; the transfer completes on the disk; *implements `Delivery`* |
| `transfer_faults` | `FairSpec`, pings, refusal, a file that grew, loss of the data connection, secrets that differ, exit | only a refusal panics; only a ping that was counted as a chunk, or a file that grew, misplaces data, and only that of its own and later files; a loss has one of five causes; the sender does not return before the receiver has gone through the files; requests come to an end |
| `transfer_exit`, `transfer_refused`, `transfer_pinged` | `Spec`, one fault each | *violated*: `CompleteAtExit`, `RefusalIsHandled`, `ChunksGoToTheirOwnFile` |

### Bounds, and why they are enough

*Relay.* A room involves three kinds of actors: its first, its second, and anyone
who comes while it is full or being removed. Five connections on one name
give two successive pairs (the name is reused while tasks of the first pair are
still between two lookups) with one to spare, or up to three clients that come during
a relay. There is no bound on pings or on the number of steps: the state
space is finite, 425,534 states up to symmetry. The five are interchangeable;
the properties of that run are invariants, one step property and a
safety specification that is symmetric in the connections, for all of which a
symmetry set is sound. `relay_progress` checks liveness and so has none (26,448
states): its three connections are a pair and one that comes before, between or after
them, which may be the one that closes the lock cycle of finding 1. The cycle, and the
wait for a relay that does not end, are what the code does, so both properties name
that wait as their one escape (`WaitsForRelay`, for ever); everything else that could
stop a task, the death of any client at any point included, is not excused. The
escape of `FullRoomIsRelayed` is narrower: only a client of *another* name counts, so
that with the one name of this run it is never taken, and no third client can keep a
full room from its bridge.

*RelayClients.* One name, three clients: the two that should meet and one that the
relay turns away in the middle of it, since it has a wrong password. All of them have a secret of the same length,
3, 4 or 5: refused, panicking and good. `MaxPings` 2 bounds the pings of all tasks
together: enough for a ping before and one after another client has joined, or two
in a row to one that waits. Either of sender and receiver may be the first. The
receiver may crash at every `.await`; that the sender may fail as well is in the run
through pings, breaking bridges, a full room and short secrets. 87,620 states.

*Bridge.* `MaxSaid` 2 messages of both clients together: two from one side fill its
queue (`QueueCap` 1) and socket (`SocketCap` 2 units), so that the next waits; one
from each side crosses. A copy of two units (`CopyCap`) can hold a whole frame, or
the end of one and the beginning of the next. Messages are only told apart by
number, and a task handles one at a time, so a third shows nothing that a second
does not. Both clients may drop either half, or exit, at every point.

*Chunking.* A chunk is 2 bytes and the file up to 7: from an empty file to three
full chunks and a half, with every pair of announced and actual size. `QueueCap` 2.
With two bytes to a chunk an offset that is off by one is a wrong place; the
theorems have no bounds.

*Transfer.* `QueueCap` 1 and `WireCap` 1 or 2, against 100 in the code: small
queues are full more often, and files of up to five chunks are longer than the
session's queue, the wire and the tasks that feed it. `IntactOffers` has no list,
an empty list, an empty file between two others, and files that do not fit the
queues; `SmallOffers` has one with empty folders, and one whose first file has a
chunk more when it is sent than was announced (`Grew`), to be followed by a file into
which that chunk spills. `MaxPings` is 2: one on
each connection, or two on one. `Codes` are the three ways in which the secrets may
relate. `MayRefuse`, `DataMayBreak` and `MayExit` switch
single faults, so that a counterexample shows one cause.

### Fairness, and why the code justifies it

*RelayServer.* tokio runs every task that can move: weak fairness. A lock that is
released and taken again and again is only sometimes free, but tokio's `Mutex`
grants it in the order of requests, so a task that waits gets it: strong fairness
of `ServerStep`. A client that stays goes on with its handshake: weak fairness of
`ClientStep`. Closing, pinging, and an error on one side of the bridge have none.
In particular a bridge may last for ever, so nothing is promised to those who
need its room.

*RelayClients.* The same: strong fairness of each relay task, `RelaySide` (its locks
are granted in order, and the copying loops go on), weak fairness of each client,
`ClientSide`. Crashes, pings and breaking bridges have none. Pings
are bounded, so a sender that skips them comes to the handshake behind them.

*Bridge.* Weak fairness of every task (a task of tokio that can go on does), of each
direction of the bridge, and of a client's reading, since the loops of
`process_client` read whenever they do not serve a message. Writing, dropping a
half, exiting and the network's failures have none. An exit without either is a
possibility and never a duty, so `BridgeEndsWithItsClients` is about the case that
both have gone.

*Chunking.* Weak fairness of the sender's tasks together and of the receiver's
together; each step moves a chunk along or ends a task, and none undoes another, so
finer fairness would say no more. Truncating the file has none.

*Transfer.* Weak fairness of each session and of each kind of task, which includes
that the relay lets both clients in and delivers, and that the user's question
gets an answer: a yes (`accept`...) is fair, a no is possible. `encrypt_task` and
`decrypt_task` are fair as kinds, not per chunk; the tasks of a kind are finitely
many, and each run of one removes it. No fairness for pings, breaking,
refusing and exiting. `RequestsEnd` leaves out secrets that lead `apart`: a receiver
that is alone in its data room hears nothing but pings.

`CHECK_DEADLOCK FALSE` in all runs: sessions and tasks end, and a relay without
clients stops. That the *relay* can block is finding 1 (`NoLockCycle`), and that it does not in any
other way are the liveness properties of `relay_progress`; that the *transfer* does not is `TransferCompletes`, `RequestsEnd` and
`FileArrives`; that a *bridge* does not is `MessagesArrive` and `EndIsTold`.

## The proofs

Every safety property, action property and refinement that a passing run checks is
a theorem here, for every value of the constants: any number of connections, names,
messages, files and chunks, queues of any size. The theorems about the data of a
transfer have hypotheses about the constants, which the table names.

| Module | Theorem | States |
|---|---|---|
| `RelayServerProofs` | `Inductive` | `Spec => []IInv` |
| | `TypeCorrect` | `Spec => []TypeOK` |
| | `WaitingClientsAreHeld` | `Spec => []WaitingClientIsHeld` |
| | `ListedRoomsHaveFirst` | `Spec => []ListedRoomHasFirst` |
| | `RoomsAreUnlistedByTheirOwnTask` | `Spec => []UnlistsItsOwnRoom` |
| | `Bridges` | `Spec => []BridgesAreProperPairs` |
| | `PingsComeBeforeTheRelay` | `Spec => KeepaliveOnlyBeforeRelay` |
| `RelayRendezvousProofs` | `RelayIsRendezvous` | `Spec => ImplementsRendezvous` |
| `RelayClientsProofs` | `ClientsRunTheRelay` | `ClientsSpec => Spec` |
| | `ClientsAreServed` | the relay's properties hold of `ClientsSpec` |
| `RelayTalkProofs` | `TalkInvariance` | `ClientsSpec => []ClientsIInv` |
| | `ClientsTypesCorrect` | `ClientsSpec => []ClientsTypeOK` |
| | `WordsArrive` | `ClientsSpec => []WordsReachThePeer` |
| | `PingsComeFirst` | `ClientsSpec => []PingsPrecedeWords` |
| | `FailuresAreCaused` | `ClientsSpec => []FailureHasACause` |
| `BridgeProofs` | `BridgeInvariance`, `BridgeTypeCorrect` | `Spec => []IInv`, `Spec => []TypeOK` |
| | `StreamStaysIntact` | `Spec => []StreamIsIntact` |
| | `BridgeIsALine` | `Spec => ImplementsLine` |
| `TransferProofs` | `Invariance`, `TypeCorrect` | `Spec => []IInv`, `Spec => []TypeOK` |
| | `NoOtherPanic` | `Spec => []PanicMeansRefusal` |
| | `SenderIsAfterTheFiles` | `Spec => []SenderReturnsAfterTheFiles` |
| `TransferDataProofs` | `DataInvariance` | `Spec => [](IInv /\ DataInv /\ PingInv)`, if `SizesKept` |
| | `MisplacedIsPinged` | `Spec => []MisplacedMeansPinged`, if `SizesKept` |
| | `LossIsCaused` | `Spec => []LossHasACause`, if `SizesKept` |
| | `NothingMisplaced` | `Spec => []ChunksGoToTheirOwnFile`, if `SizesKept` and there are no pings |
| | `NothingLeftBehind` | `Spec => []SenderLeavesNothingBehind`, if `SizesKept`, no pings, a data connection that stays, one data room |
| | `FinishedIsReceived` | `Spec => []FinishedMeansReceived`, if `SizesKept` and `NoFault` |
| | `Delivers` | `Spec => ImplementsDelivery`, if `SizesKept` and `NoFault` |
| `ChunkingProofs` | `Inductive`, `TypeCorrect` | `Spec => []IInv`, `Spec => []TypeOK` |
| | `BytesStayInPlace` | `Spec => []BytesAreInPlace` |
| | `SizesAreKept` | `Spec => []SizeIsKept` |
| | `CountsAlwaysAgree` | `Spec => []CountsAgree` |

*Assumptions.* `RoomNameAssumption` (every connection asks for some name) and
`NoneAssumption` (`None` is not a connection) for the relay; `ChunkingAssumption`
(a chunk and a queue have room for something, sizes are natural numbers);
`ClientsAssumption` and `BridgeAssumption` (the kinds of the constants; queues,
sockets and buffers have room for something); `OffersAssumption` (an offer is a
list of files, and one without a list has no files, since `FilesInformation` is
filled only from a list, croc_msg.rs:85-103), `BoundsAssumption`,
`SwitchesAssumption`, `CodesAssumption`. TLC evaluates them in every run of their
modules.

*Hypotheses of single theorems.* They say for which cases the code keeps the
promise:

- `SizesKept` (`TransferDataProofs`): no file has another size when `send_file()`
  opens it than when it was announced. `send_file()` sends what it opens, and the
  receiver counts what was announced (client_session.rs:187-241), so that the end
  of a file that *grew* is taken for the next: `Grown` is empty under the hypothesis,
  and the cause that remains for a chunk in the wrong file is a ping that was
  counted. The run `transfer_faults` checks the two properties that have `Grown` as a
  cause with such a file. `PanicMeansRefusal`, `SenderReturnsAfterTheFiles` and `TypeOK`
  do not need the hypothesis.
- no pings (`MaxPings = 0`): `transfer_pinged` is the counterexample.
- `~DataMayBreak`, `"apart" \notin Codes`, `NoFault`: `LossIsCaused` says what remains
  true without them. The user may refuse in all of them.

### The relay's invariant

None of the properties is inductive. That a waiting client is not lost
depends on what a task may do between two lookups, and so on who holds which
lock. `IInv` adds:

- `LockInv`: the map's lock is held exactly by the task at `in_rooms`, a room's
  exactly by the task that bridges it or unlists it;
- `NameInv`: rooms are listed, and looked up, under the name of their creator;
- `SlotInv`: a first slot holds the creator or nothing, and if it holds it the room
  is listed; a second slot is taken only beside a first;
- `FreshInv`: a connection that has not been answered yet occurs nowhere;
- `BridgeInv`: a task that bridges does so for the room that is listed under its
  name, whose first slot it emptied;
- `WaitInv`: what sits in a slot was last told "ok" or pinged.

The core is that a room stays *listed* and *locked* from the moment its sockets
are taken to the moment it is removed. Hence nobody can open a second room under
the name (so the removal by name is right, `UnlistsItsOwnRoom`), nobody can join
an empty room (`ListedRoomHasFirst`), and two relays are of different names
(`Bridges`). A ping goes only to a first slot, so by `WaitInv` never to a
connection that has been taken (`PingsComeBeforeTheRelay`). There is one lemma per group of actions
(`Handshake_IInv` .. `KeepalivePing_IInv`), each with one step per conjunct that
the action can disturb.

### The refinement

`Rendezvous` requires of a step only that the host or guest is *new* or that the
pair has *not met*, and these are about the past. `MetInv` carries the past: a
task that has a `sender` is relaying or done with it, so that it relays once, and
the creator of a room that still sits in it has not been anybody's sender. With `IInv` each of the four steps that do not
stutter has its lemma (`CreateRoomOpens` .. `UnlistRoomParts`: the mapped variables change as the
abstract action says, and its guard holds), and all the other actions leave the
mapped variables alone, either because they leave `rooms`, the slots and the locks
alone (`QuietIsKept`) or because what they change is not looked at (`KeptStutters`).

`ClientsRunTheRelay` needs no invariant: each action of `RelayClients` contains a
`RelayServer` action or leaves its variables unchanged. With it, whatever is proved
of `RelayServer` holds of the composition, and `ClientsAreServed` says so for
three of the properties.

### The clients' invariant

`RelayTalkProofs` is about both ends of a socket at once: where the client is, where
its task in the relay is, and what may be on the way between them. `ClientsIInv` is
the relay's `IInv` together with

- `TalkInv`, for each client on its own: its `Stage` (not come yet; talking to the
  task at the door; refused; in its room; gone) relates `cl[c]`, `pc[c]`, `last[c]` and
  what is in `up[c]` and `down[c]`; `Speech` is what it may have said; `Downward` and
  `Upward` what it may have to read, and what may be read from it. In particular a
  word of the peer is in `down[c]` only once the client is bridged, and behind
  everything the relay itself wrote;
- `RelayedInv`: the clients whose sockets are in a bridge are those last told so;
- `CarryInv`: between the two ends of a bridge, `Carried`: what one has said is what
  the other has heard, followed by what is in `down`, followed by what is in `up`;
- `EndInv`: a bridge that closed under a living client closed because of its peer;
- `PairsInv`: who is in a bridge, or was, has met exactly one other client, and
  neither of the two has a wrong password or a secret that `connect()` refuses;
- `BarredInv`: a client with a wrong password is never let in by its task, and has not
  named a room.

That nothing is lost while sockets change hands (`WordsArrive`) is the step in
which `StartRelay` takes two sockets out of a room: until then `up[c]` is all that the
client said, by `Upward`, for which the relay's `SlotInv` and `WaitInv` are needed. An
action is one client's, or moves one word, so that each has a lemma about the
client it moves (`...Own`, `...Proper`), and what it leaves alone is common to all.
`FailureHasACause` is inductive only beside the rest: that a client was answered by a
ping, or found its peer gone, is known when it reads it. What the peer has done
by then is `EndInv`, and that there is only one client that it can have been,
`PairsInv`.

### The bridge's invariant, and the line

The units that `p` says are numbered by index (`UnitAt`), and each of the eight places
where a unit can be holds a `Run` of consecutive units that begins where the one ahead
of it ends: `heard`, `inQ`, `frame` and `down` at the reader (`ReceiverInv`), `copy` and
`up` on the way (`WayInv`), `writing` and `outQ` at the writer, counted back
from the last unit said (`SenderInv`). `WayInv` adds that what has left the sender
and what has not are together *at most* what was said, and equal unless it
exited or the bridge broke: loss is possible at the end of a stream only, never in
its middle. `StreamStaysIntact` follows by concatenating the runs (`RunConcat`,
`RunsAgree`). `TaskInv` is about ending: who holds a half has its task while the bridge
is up, and tasks, directions and the bridge leave nothing behind when they end.

There is one lemma for each action. The delicate one is `ReaderEndsKeeps`: a reader
task that meets the end of the stream has no half frame left. That
is so because all the runs are together even: the peer's writer task ends
between two frames, and what has been handed on is whole frames.

For `BridgeIsALine` an action is mapped to saying, hearing, being told, hanging up,
turning deaf, leaving or breaking (`LineSays` .. `LineBreaks`) or to a stutter
(`LineRests`). The abstract guard "the next message, in order" is `ReceiverInv`; "told
only after the last message, and when both have hung up" is `TaskInv` with the
equality of `WayInv`; "it breaks only if somebody is deaf or the network
unreliable" is the first conjunct of `TaskInv`.

### The transfer's invariants

*The conversation* (`TransferProofs`). Panics are about which message meets which
state, and so is `SenderReturnsAfterTheFiles`. `Conversation` is a disjunction of eleven stages
(`Unmet`, `Called`, `Greeted`, ..., `Finishing`, `Returned`, `Exited`), each of which
fixes where both sessions are and which messages, behind any number of pings, are
in the two inboxes. Every action of either session leads from a stage to itself
or to a later one, pings and failures included; only `Refused` has an
`error` for a sender that has `todo!()` for it. `RoomInv` says who has been let into
the control room, which is what makes `Unmet` inductive.

*The data* (`TransferDataProofs`). `Clean` means that no ping has been counted and
none is on the wire. `DataInv` is

- `QueueInv`: what is in the sender's queue and in its encrypting tasks has been
  sent, each chunk once;
- `CountInv`: as long as the connection is up, the chunks that the receiver has counted,
  those on the wire and those behind it are together the ones that `send_file()` has
  begun. This is the invariant the receiver's counting depends on, and it
  has to hold across the gap in which the receiver asks for the next file;
- `PlaceInv`: while it is `Clean`, a chunk that was counted was sent, and counted for
  its own file;
- `CoverInv`: without any fault a chunk that was sent is somewhere: in a queue, a task,
  on the wire or on the disk;
- `ReturnInv`: while it is `Clean`, a sender that returned has sent all, and the wire
  and its queues are empty.

`PingInv` is what remains true with pings: every chunk is one of a file, and is counted
for that file or a later one; and since the relay pings only as long as the sender is
not in the room (`InRoom`), pings are ahead of all chunks. As long as one is on the wire
and none has been counted, it is the first message there and the receiver has taken
nothing yet (`PingAhead`); the first that is counted is counted for a file before which
all files are empty (`EmptyBefore`), hence at or before the file of any chunk that it
displaces. A receiver in another data room than the sender gets nothing but pings.

By `Conversation` a request is only served when the receiver waits for that
file, and by `CountInv` nothing of the file before it is then on the way, so that
files do not mix (`NothingMisplaced`) though nothing on the data connection says which
file a chunk belongs to. Cardinalities make `CountInv` laborious: a chunk that moves
from a queue into a set of tasks must be new to it, which is `QueueInv`.

*The refinement.* With `NoFault`, `Faultless` is an invariant. `receive` is mapped to
taking a chunk over (its guard, "all files before this one are complete", is
`CountInv`), the end of a decrypting task to storing it (it is in the set of those
that were taken, `PlaceInv`), the returns to returns (all are taken by `ReturnInv` and
`FinishedIsReceived`), all else to stutters.

### Chunking's invariant

- `SendInv`: `offset` is `sent` times the size of a chunk, and the last chunk that was
  cut began inside the file;
- `CargoInv`: what is queued lies within the file, and a chunk on its way, or with a
  writing task, holds the bytes of its offset and reaches no further than
  `file_size`;
- `LockInv`: at most one task holds the file, and the position is its offset;
- `BytesAreInPlace`, `SizeIsKept` themselves.

`LockInv` is what makes concurrent `seek`s harmless: without the lock the position
may be another task's when the bytes are written. `CountsAlwaysAgree` needs
arithmetic about the stepped range: `StepsOfTheRange` states that the smallest
multiple of a chunk that is not below the size is the one `div_ceil` computes.

### What is only model-checked

Liveness under fairness, which TLAPS cannot prove: `FullRoomIsRelayed`,
`NamedRoomIsAnswered`, `ClientsMeet`, `WrongPasswordEnds`, `MessagesArrive`, `EndIsTold`,
`BridgeEndsWithItsClients`, `TransferCompletes`, `RequestsEnd`, `FileArrives`. The
refinements are proved for the safety parts of the specifications, which is all
that `Rendezvous`, `Line` and `Delivery` state.

## Findings

1. **The relay blocks for good** (`relay_lock_cycle`). `handle` takes the map's lock
   while it holds a room's (server.rs:77, below "We do not need to lock rooms
   anymore."), `negotiate_info` takes them the other way round. A third connection
   on a name that is being relayed holds the map and waits for the room until the
   bridge ends, and from then on each task waits for the other. The map's lock is
   never released: no client is served on any port.
2. **A room whose first client died stays listed** (`relay_orphan_room`). "close the
   room" (server.rs:112) does not happen. The next client is told ok and is bridged
   with a dead socket.
3. **Sessions return before the data is on the disk** (`transfer_exit`). The test in
   relay/mod.rs:126 reads the file right after; `main` drops the tasks.
4. **A refusal makes the sender panic** (`transfer_refused`): the answer to
   `TypeError` is `todo!()` (client_session.rs:174).
5. **A ping is counted as a chunk** (`transfer_pinged`), when the receiver is the first
   in the data room for a second. The chunk it displaces goes into the next file.

## What is not modelled

- *Cryptography* (`crypto/aes.rs`, SPAKE2, key derivation): libraries. What is
  modelled is the order of the messages and what follows when two keys differ.
- *Contents of messages*, beyond their kind; *lengths in headers* (a frame is a
  header and a body, so a length that does not fit its body does not occur).
- *Binding the listeners.* The relay is spawned and not waited for (main.rs:25),
  the listeners of the multiplex ports run in tasks whose errors nobody reads
  (server.rs:263). The models begin when everything listens, on one port.
- *Errors of the file system*, other than the one `create_folder` always has and
  the end of a file that was truncated.
- *A file that shrinks between offer and opening* is in the model of `Transfer`
  (`announced`, `actual`), but in none of its runs: the receiver waits for the rest for
  ever. The theorems about the data exclude every change (`SizesKept`, with the reason);
  `Chunking` has both kinds, on their own.
- *A relay client that stays after "bad password".* The relay would let it in
  (server.rs:140-157); it is one of the clients of `RelayServer`, which has no passwords,
  but `RelayClients` has only the client of this repository, which hangs up.
- *What becomes of a receiver that is pinged* on its control connection: it fails, as
  `RelayClients` has it, and nothing in the repository says otherwise.
- *Errors of the control connection in `Transfer`.* Only the data connection breaks.
  A session whose control connection breaks returns the error of `recv`.
- *The question "ips?"*, which nobody in the repository asks.
- *Two names that coincide by accident* (rooms are named by three characters of a
  secret): `Transfer` has what follows for two clients that meet so, `RelayServer`
  for the rooms.
- *The number of spawned tasks*, for which there is no bound to state, and the sum
  of sizes in `croc_msg.rs:114`, on which only a text depends.
- *Command line, configuration, tests*: nothing to state.

## Plan

Done: the relay's rooms, their abstract specification and its refinement, with
proofs; the clients composed with the relay; framing and bridge against an abstract
line; the transfer with its pipeline against an abstract delivery; one file byte
for byte, with proofs. All safety properties, action properties and refinements that the runs
check are proved. What is left:

1. `SizesKept` may be dropped from `MisplacedIsPinged` and `LossIsCaused`, whose
   properties name the files that grew: `CountInv` would have to count what spills into
   the next file, and what the receiver of a file that shrank still waits for.
2. More of what a composition says: that `Transfer`'s view of the control connection
   (pings, then messages in order, silence after a hang-up) is what `RelayClients` and
   `Bridge` give it, as a specification of its own that the three share.
