--------------------------- MODULE MCRelayClients ---------------------------
(***************************************************************************)
(* An instance of RelayClients for TLC.                                    *)
(***************************************************************************)
EXTENDS RelayClients, TLC

CONSTANTS alice, bob, wrong, n1

\* A sender and a receiver, and a client that has the wrong relay password.
OneName == [c \in {alice, bob, wrong} |-> n1]

\* A secret that connect() refuses, one that no session takes, and a good one.
SharedSecrets == {[c \in {alice, bob, wrong} |-> n] : n \in {3, 4, 5}}
=============================================================================
