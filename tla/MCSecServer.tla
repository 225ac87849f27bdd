---------------------------- MODULE MCSecServer ----------------------------
(***************************************************************************)
(* Instances of SecServer: measuring modules that share the connection of  *)
(* their process.                                                          *)
(***************************************************************************)
EXTENDS SecServer

CONSTANTS a, b, p1

TwoClients == {a, b}
OnePeer == [c \in TwoClients |-> p1]

=============================================================================
