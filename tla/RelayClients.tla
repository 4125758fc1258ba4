---------------------------- MODULE RelayClients ----------------------------
(***************************************************************************)
(* The clients of the relay (src/relay/client.rs) and the relay, joined by *)
(* sockets: the handshake of RelayClient::connect() message by message,    *)
(* the wait for the peer, the bridge, and the first words of the sessions. *)
(* Every step of the relay is a step of RelayServer, here with what it     *)
(* reads from and writes to the sockets.                                   *)
(***************************************************************************)
EXTENDS RelayServer, Sequences, Integers

CONSTANTS
  BadPassword,   \* the clients that have a wrong relay password
  Sender,        \* the clients that call wait_for_receiver()
  Secrets,       \* what the secrets may be: their lengths, for every client
  MayCrash,      \* clients that may vanish at any time
  MaxPings       \* bound on the pings of the relay

ASSUME ClientsAssumption ==
  /\ {BadPassword, Sender, MayCrash} \subseteq SUBSET Conn
  /\ Secrets \subseteq [Conn -> Nat]
  /\ MaxPings \in Nat

VARIABLES
  secret, \* secret[c]: how many bytes the secret of c has
  cl,     \* cl[c]: where the client of c is
  up,     \* up[c]: messages from the client on their way to the relay
  down,   \* down[c]: messages on their way to the client
  said,   \* said[c]: what the client has said to its peer
  heard,  \* heard[c]: what the client has heard from its peer
  pings,  \* the pings the relay has sent
  pinged  \* the clients it has sent one to

talk == <<said, heard>>
clients == <<secret, cl, up, down, talk, pings, pinged>>
allVars == <<vars, clients>>

ServerSays == {"key", "bad password", "banner", "room full", "ok", "ping"}
PeerSays == {"handshake", "pake"}

\* The awaits of connect() and negotiate_info(), then those of the caller.
Waiting == {"key", "banner", "answer", "keepalive", "session"}
CL == Waiting \cup {"start", "net", "failed", "panicked", "crashed"}

ClientsTypeOK ==
  /\ secret \in Secrets
  /\ cl \in [Conn -> CL]
  /\ up \in [Conn -> Seq({"key", "salt", "password", "room"} \cup PeerSays)]
  /\ down \in [Conn -> Seq(ServerSays \cup PeerSays)]
  /\ said \in [Conn -> Seq(PeerSays)]
  /\ heard \in [Conn -> Seq(PeerSays)]
  /\ pings \in 0..MaxPings
  /\ pinged \subseteq Conn

ClientsInit ==
  /\ Init
  /\ secret \in Secrets
  /\ cl = [c \in Conn |-> "start"]
  /\ up = [c \in Conn |-> <<>>]
  /\ down = [c \in Conn |-> <<>>]
  /\ said = [c \in Conn |-> <<>>]
  /\ heard = [c \in Conn |-> <<>>]
  /\ pings = 0 /\ pinged = {}

Step(c, from, to) == cl[c] = from /\ cl' = [cl EXCEPT ![c] = to]
Write(c, msgs) == up' = [up EXCEPT ![c] = @ \o msgs]
Next1(c, msg) == down[c] # <<>> /\ Head(down[c]) = msg
Read(c) == down' = [down EXCEPT ![c] = Tail(@)]

-----------------------------------------------------------------------------
(* The client: connect(), and what its callers do with the connection.     *)

\* The secret is too short.
RejectSecret(c) ==
  /\ Step(c, "start", "failed")
  /\ secret[c] < 4
  /\ UNCHANGED <<vars, secret, up, down, talk, pings, pinged>>

\* The connection is made, and the client's half of the key is sent.
SendKey(c) ==
  /\ Step(c, "start", "key")
  /\ secret[c] >= 4
  /\ run_instance(c)
  /\ Write(c, <<"key">>)
  /\ UNCHANGED <<secret, down, talk, pings, pinged>>

SendPassword(c) ==
  /\ Step(c, "key", "banner")
  /\ Next1(c, "key")
  /\ Read(c)
  /\ Write(c, <<"salt", "password">>)
  /\ UNCHANGED <<vars, secret, talk, pings, pinged>>

SendRoom(c) ==
  /\ Step(c, "banner", "answer")
  /\ Next1(c, "banner")
  /\ Read(c)
  /\ Write(c, <<"room">>)
  /\ UNCHANGED <<vars, secret, talk, pings, pinged>>

\* connect() returns.  The receiver says "handshake" at once, the sender waits
\* for it.
EnterRoom(c) ==
  /\ Step(c, "answer", IF c \in Sender THEN "keepalive" ELSE "net")
  /\ Next1(c, "ok")
  /\ Read(c)
  /\ IF c \in Sender THEN UNCHANGED <<up, said>>
     ELSE Write(c, <<"handshake">>) /\ said' = [said EXCEPT ![c] = <<"handshake">>]
  /\ UNCHANGED <<vars, secret, heard, pings, pinged>>

\* Mutant: a ping is not expected.
SkipPingNever(c) ==
  /\ Step(c, "keepalive", "failed")
  /\ Next1(c, "ping")
  /\ Read(c)
  /\ ClientCloses(c)
  /\ UNCHANGED <<secret, up, talk, pings, pinged>>

\* Mutant: a ping is taken for a word of the peer.
SkipPingHears(c) ==
  /\ cl[c] = "keepalive"
  /\ Next1(c, "ping")
  /\ Read(c)
  /\ heard' = [heard EXCEPT ![c] = Append(@, "ping")]
  /\ UNCHANGED <<vars, secret, cl, up, said, pings, pinged>>

\* handle_keepalive(): the pings of the relay are skipped, up to the receiver's
\* handshake.
SkipPing(c) ==
  /\ cl[c] = "keepalive"
  /\ Next1(c, "ping")
  /\ Read(c)
  /\ UNCHANGED <<vars, secret, cl, up, talk, pings, pinged>>

HearHandshake(c) ==
  /\ Step(c, "keepalive", "net")
  /\ Next1(c, "handshake")
  /\ Read(c)
  /\ heard' = [heard EXCEPT ![c] = Append(@, "handshake")]
  /\ UNCHANGED <<vars, secret, up, said, pings, pinged>>

\* process_client() takes the secret from its sixth byte on, and the receiver
\* speaks first.
StartSession(c) ==
  /\ Step(c, "net", "session")
  /\ secret[c] >= 5
  /\ IF c \in Sender THEN UNCHANGED <<up, said>>
     ELSE Write(c, <<"pake">>) /\ said' = [said EXCEPT ![c] = Append(@, "pake")]
  /\ UNCHANGED <<vars, secret, down, heard, pings, pinged>>

\* The session takes its peer's "pake", which the sender answers.
HearPake(c) ==
  /\ cl[c] = "session"
  /\ Next1(c, "pake")
  /\ Read(c)
  /\ heard' = [heard EXCEPT ![c] = Append(@, "pake")]
  /\ IF c \in Sender
     THEN Write(c, <<"pake">>) /\ said' = [said EXCEPT ![c] = Append(@, "pake")]
     ELSE UNCHANGED <<up, said>>
  /\ UNCHANGED <<vars, secret, cl, pings, pinged>>

\* What the client gives up for: a refusal, a message it does not expect where
\* it is, or the end of the stream.
Unexpected(c) ==
  \/ cl[c] = "banner" /\ Next1(c, "bad password")
  \/ cl[c] = "answer" /\ Next1(c, "room full")
  \/ cl[c] = "session" /\ (Next1(c, "ping") \/ Next1(c, "handshake"))
  \/ cl[c] = "keepalive" /\ Next1(c, "pake")
  \/ cl[c] \in Waiting /\ down[c] = <<>> /\ last[c] = "closed"

\* A socket that is closed may lose what has not been read from it yet.
Lose(c) == \E n \in 0..Len(up[c]) : up' = [up EXCEPT ![c] = SubSeq(@, 1, n)]

Vanish(c, how) ==
  /\ cl' = [cl EXCEPT ![c] = how]
  /\ ClientCloses(c)
  /\ Lose(c)
  /\ down' = [down EXCEPT ![c] = <<>>]
  /\ UNCHANGED <<secret, talk, pings, pinged>>

GiveUp(c) == Unexpected(c) /\ Vanish(c, "failed")

\* The slice of a secret of four bytes is out of range.
PanicOnSecret(c) ==
  /\ cl[c] = "net"
  /\ secret[c] < 5
  /\ Vanish(c, "panicked")

Crash(c) ==
  /\ c \in MayCrash
  /\ cl[c] \in Waiting \cup {"net"}
  /\ Vanish(c, "crashed")

-----------------------------------------------------------------------------
(* The relay, with its sockets.                                            *)

\* Read the messages msgs off the socket of c.
Take(c, msgs) ==
  /\ Len(up[c]) >= Len(msgs)
  /\ SubSeq(up[c], 1, Len(msgs)) = msgs
  /\ up' = [up EXCEPT ![c] = SubSeq(@, Len(msgs) + 1, Len(@))]

Reply(c, msgs) == down' = [down EXCEPT ![c] = @ \o msgs]

AnswerKey(c) ==
  /\ negotiate_symmetric_key(c)
  /\ Take(c, <<"key">>)
  /\ Reply(c, <<"key">>)
  /\ UNCHANGED <<secret, cl, talk, pings, pinged>>

\* Mutant: a wrong password is answered with the banner alone.
AnswerPasswordMildly(c) ==
  /\ CheckPassword(c)
  /\ Take(c, <<"salt", "password">>)
  /\ Reply(c, <<"banner">>)
  /\ UNCHANGED <<secret, cl, talk, pings, pinged>>

\* A wrong password is answered, and then the banner is sent as well.
AnswerPassword(c) ==
  /\ CheckPassword(c)
  /\ Take(c, <<"salt", "password">>)
  /\ Reply(c, IF c \in BadPassword THEN <<"bad password", "banner">>
              ELSE <<"banner">>)
  /\ UNCHANGED <<secret, cl, talk, pings, pinged>>

TakeRoomName(c) ==
  /\ ReadRoomName(c)
  /\ Take(c, <<"room">>)
  /\ UNCHANGED <<secret, cl, down, talk, pings, pinged>>

AnswerRoom(c) ==
  /\ \/ (CreateRoom(c) \/ JoinRoom(c)) /\ Reply(c, <<"ok">>)
     \/ RefuseFull(c) /\ Reply(c, <<"room full">>)
     \/ AnswerFails(c) /\ UNCHANGED down
  /\ UNCHANGED <<secret, cl, up, talk, pings, pinged>>

\* Steps of the relay that leave the sockets alone.
Inside(c) ==
  /\ \/ LockRooms(c) \/ FindRoom(c) \/ StartRelay(c) \/ StartKeepalive(c)
     \/ UnlistRoom(c) \/ KeepaliveFind(c) \/ KeepaliveError(c)
     \/ KeepaliveStops(c) \/ HandshakeFails(c)
  /\ UNCHANGED clients

Ping(c) ==
  /\ pings < MaxPings
  /\ KeepalivePing(c)
  /\ Reply(first[room[c]], <<"ping">>)
  /\ pings' = pings + 1
  /\ pinged' = pinged \cup {first[room[c]]}
  /\ UNCHANGED <<secret, cl, up, talk>>

\* Mutant: each direction of the bridge writes back to where it reads from.
bridge_socketsEcho(h) ==
  /\ pc[h] = "relaying"
  /\ \E e \in {<<sender[h], receiver[h]>>, <<receiver[h], sender[h]>>} :
       /\ up[e[1]] # <<>>
       /\ up' = [up EXCEPT ![e[1]] = Tail(@)]
       /\ down' = [down EXCEPT ![e[1]] = Append(@, Head(up[e[1]]))]
  /\ UNCHANGED <<vars, secret, cl, talk, pings, pinged>>

\* A message crosses the bridge of task h; to a client that has gone it may
\* still be written, and is lost.
bridge_sockets(h) ==
  /\ pc[h] = "relaying"
  /\ \E e \in {<<sender[h], receiver[h]>>, <<receiver[h], sender[h]>>} :
       /\ up[e[1]] # <<>>
       /\ up' = [up EXCEPT ![e[1]] = Tail(@)]
       /\ down' = IF alive[e[2]] THEN [down EXCEPT ![e[2]] = Append(@, Head(up[e[1]]))]
                  ELSE down
  /\ UNCHANGED <<vars, secret, cl, talk, pings, pinged>>

\* The end of a stream comes after all that was sent on it.
EndOfStreams(h) ==
  /\ relay_eof(h)
  /\ up[sender[h]] = <<>> /\ up[receiver[h]] = <<>>
  /\ UNCHANGED clients

\* A bridge that breaks may drop what it has not passed on.
BridgeBreaks(h) ==
  /\ relay_error(h)
  /\ \E e \in {sender[h], receiver[h]} :
       /\ alive[e]
       /\ \E n \in 0..Len(down[e]) : down' = [down EXCEPT ![e] = SubSeq(@, 1, n)]
       /\ up' = [up EXCEPT ![e] = <<>>]
  /\ UNCHANGED <<secret, cl, talk, pings, pinged>>

-----------------------------------------------------------------------------
ClientSide(c) ==
  \/ RejectSecret(c) \/ SendKey(c) \/ SendPassword(c) \/ SendRoom(c)
  \/ EnterRoom(c) \/ SkipPing(c) \/ HearHandshake(c) \/ StartSession(c)
  \/ HearPake(c) \/ GiveUp(c) \/ PanicOnSecret(c)

RelaySide(c) ==
  \/ AnswerKey(c) \/ AnswerPassword(c) \/ TakeRoomName(c) \/ AnswerRoom(c)
  \/ Inside(c) \/ bridge_sockets(c) \/ EndOfStreams(c)

ClientsNext ==
  \E c \in Conn :
    ClientSide(c) \/ RelaySide(c) \/ Crash(c) \/ Ping(c) \/ BridgeBreaks(c)

ClientsSpec == ClientsInit /\ [][ClientsNext]_allVars

\* Fairness as in RelayServer, and every client that can go on does.
ClientsFairSpec ==
  /\ ClientsSpec
  /\ \A c \in Conn : SF_allVars(RelaySide(c)) /\ WF_allVars(ClientSide(c))

-----------------------------------------------------------------------------
(* Properties.                                                             *)

\* All that e has said is where it belongs on its way to f, and in order: f has
\* heard it, or it is on the way to f, behind all that the relay had to say, or
\* it is on the way to the relay.
Carried(e, f) ==
  \E n \in 0..Len(down[f]) :
    /\ \A i \in 1..n : down[f][i] \notin PeerSays
    /\ said[e] = heard[f] \o SubSeq(down[f], n + 1, Len(down[f])) \o up[e]

\* What a client says in its room is not touched until it is bridged, although
\* the relay has been reading from the same socket and the receiver speaks
\* before it has a peer; and across the bridge nothing is lost, repeated or
\* reordered, between whichever tasks the sockets were handed over
\* (server.rs:70-74, 157-186, client.rs:69-93, croc_raw.rs:207-239).
WordsReachThePeer ==
  /\ \A c \in Conn : alive[c] /\ last[c] \in {"ok", "ping"} => up[c] = said[c]
  /\ \A h \in Conn :
       pc[h] = "relaying" =>
         \A e \in {<<sender[h], receiver[h]>>, <<receiver[h], sender[h]>>} :
           alive[e[1]] /\ alive[e[2]] => Carried(e[1], e[2])

\* On the way to a client no ping follows a word of its peer: the promise of
\* server.rs:82-85 as the client sees it, who could not tell a ping in the
\* middle of a session from a message.
PingsPrecedeWords ==
  \A c \in Conn :
    /\ \A i, j \in DOMAIN down[c] :
         down[c][i] \in PeerSays /\ down[c][j] = "ping" => j < i
    /\ heard[c] # <<>> => \A j \in DOMAIN down[c] : down[c][j] # "ping"

\* The relay has put c and d through to one another.
Met(c, d) == \E h \in Conn : {sender[h], receiver[h]} = {c, d}

\* A client fails for a reason of its own (its secret, its password), because the
\* room was full, because it is a receiver that was pinged, or because of the one
\* client it was bridged with, which has crashed or panicked, is a receiver that
\* was pinged, or a receiver that spoke to a receiver.  So nobody fails because of
\* a client it was never bridged with, and no sender because it was pinged itself
\* (client.rs:94-172, server.rs:157-187).
FailureHasACause ==
  \A c \in Conn :
    cl[c] = "failed" =>
      \/ secret[c] < 4 \/ c \in BadPassword \/ last[c] = "room full"
      \/ c \in pinged \ Sender
      \/ \E d \in Conn :
           /\ Met(c, d)
           /\ \/ cl[d] \in {"crashed", "panicked"}
              \/ cl[d] = "failed" /\ d \in pinged \ Sender
              \/ {c, d} \cap Sender = {}

\* A sender and a receiver that have both been let into the room of their name
\* hear each other's first message, whichever of them was there first, unless
\* one of them is gone by then (main.rs:34-79, client.rs:69-133).
ClientsMeet ==
  \A s \in Sender, r \in Conn \ Sender :
    cl[s] = "keepalive" /\ cl[r] = "net" /\ RoomName[s] = RoomName[r] ~>
      \/ heard[s] = <<"handshake", "pake">> /\ heard[r] = <<"pake">>
      \/ {cl[s], cl[r]} \cap {"failed", "panicked", "crashed"} # {}

\* The task of a client with a wrong password comes to its end, and lets nobody
\* in: it goes on to send the banner and to wait for a room name, but the client
\* reads the refusal first and hangs up (server.rs:140-157, client.rs:146-150).
WrongPasswordEnds ==
  \A c \in BadPassword :
    pc[c] = "password" ~> pc[c] = "done" /\ last[c] = "closed"
=============================================================================
