------------------------- MODULE MCServiceClients -------------------------
(***************************************************************************)
(* Two measuring modules of one process at one service: a shares its       *)
(* connection with b, or comes and goes before b is there.                 *)
(***************************************************************************)
EXTENDS ServiceClients

CONSTANTS a, b, p1, p2, service

MCClients == {a, b}
MCPeers == {p1, p2}
MCAddress == [c \in MCClients |-> service]
MCKind == [c \in MCClients |-> "pcb"]
MCUses == [c \in MCClients |->
                IF c = a THEN {"registerNotifier", "unregisterNotifiers", "getRange"}
                ELSE {"setRange", "getStatus"}]

=============================================================================
