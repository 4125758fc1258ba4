---------------------------- MODULE MCRelayServer ----------------------------
(***************************************************************************)
(* Instances of RelayServer for TLC: which connection asks for which room. *)
(***************************************************************************)
EXTENDS RelayRendezvous, TLC

CONSTANTS c1, c2, c3, c4, c5, n1

\* Five clients that share a code: two pairs, one after the other, or more clients
\* while the first pair is bridged, and one to come after both.
FiveOnOne == [c \in {c1, c2, c3, c4, c5} |-> n1]

\* The five are interchangeable.
FiveSymmetry == Permutations({c1, c2, c3, c4, c5})

\* Three clients that share a code.
ThreeOnOne == [c \in {c1, c2, c3} |-> n1]
=============================================================================
