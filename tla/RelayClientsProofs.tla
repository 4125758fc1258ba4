------------------------- MODULE RelayClientsProofs -------------------------
(***************************************************************************)
(* The relay among its clients is the relay of RelayServer: a step of the  *)
(* composition is a step of the relay, of a client's end as RelayServer    *)
(* has it, or concerns sockets and clients alone.  So what is proved of    *)
(* RelayServer, for clients that may do anything, holds for these clients. *)
(***************************************************************************)
EXTENDS RelayClients, RelayServerProofs

\* The steps of a client: it connects, it closes, or the relay does not notice.
LEMMA ClientSideMaps ==
  ASSUME NEW c \in Conn, ClientSide(c) \/ Crash(c)
  PROVE  Next \/ UNCHANGED vars
<1>1. run_instance(c) \/ ClientCloses(c) \/ UNCHANGED vars
  BY DEF ClientSide, RejectSecret, SendKey, SendPassword, SendRoom, EnterRoom,
     SkipPing, HearHandshake, StartSession, HearPake, GiveUp, PanicOnSecret,
     Crash, Vanish
<1> QED
  BY <1>1 DEF Next

\* The steps of the relay's tasks, with what they read and write.
LEMMA RelaySideMaps ==
  ASSUME NEW c \in Conn, RelaySide(c) \/ Ping(c) \/ BridgeBreaks(c)
  PROVE  Next \/ UNCHANGED vars
<1>1. \/ ClientStep(c) \/ ServerStep(c) \/ relay_error(c) \/ KeepalivePing(c)
      \/ UNCHANGED vars
  BY DEF RelaySide, AnswerKey, AnswerPassword, TakeRoomName, AnswerRoom, Inside,
     bridge_sockets, EndOfStreams, Ping, BridgeBreaks, ClientStep, ServerStep
<1> QED
  BY <1>1 DEF Next

\* Whatever the clients of client.rs do, the relay only ever makes the steps that
\* RelayServer describes: messages that have not arrived delay it and nothing
\* else (server.rs:41-187, client.rs:41-172).
THEOREM ClientsRunTheRelay == ClientsSpec => Spec
<1>1. ClientsInit => Init
  BY DEF ClientsInit
<1>2. [ClientsNext]_allVars => [Next]_vars
  <2>1. CASE ClientsNext
    BY <2>1, ClientSideMaps, RelaySideMaps DEF ClientsNext
  <2>2. CASE UNCHANGED allVars
    BY <2>2 DEF allVars
  <2> QED
    BY <2>1, <2>2
<1> QED
  BY <1>1, <1>2, PTL DEF ClientsSpec, Spec

\* Hence no client of these is lost while it waits, none is in two bridges, and
\* none is pinged once its bridge has begun (server.rs:63-88, 158-187).
THEOREM ClientsAreServed ==
  ClientsSpec => /\ []WaitingClientIsHeld
                 /\ []BridgesAreProperPairs
                 /\ KeepaliveOnlyBeforeRelay
  BY ClientsRunTheRelay, WaitingClientsAreHeld, Bridges, PingsComeBeforeTheRelay, PTL
=============================================================================
