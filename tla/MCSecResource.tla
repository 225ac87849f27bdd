--------------------------- MODULE MCSecResource ---------------------------
(***************************************************************************)
(* Instances of SecResource: clients of one process share one peer, as the *)
(* proxy arranges it (OnePeer), or each has a peer of its own (OwnPeers).  *)
(***************************************************************************)
EXTENDS SecResource

CONSTANTS a, b, c3, p1, p2

OnePeerClients == {a, b, c3}
OnePeer == [c \in {a, b, c3} |-> p1]

TwoClients == {a, b}
OwnPeers == [c \in {a, b} |-> IF c = a THEN p1 ELSE p2]

=============================================================================
