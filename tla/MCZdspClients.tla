--------------------------- MODULE MCZdspClients ---------------------------
(***************************************************************************)
(* Instance of ZdspClients: two proxies behind one peer, and the telnet    *)
(* console.                                                                *)
(***************************************************************************)
EXTENDS ZdspClients

CONSTANTS a, b, t, p1

WithTelnet == {a, b, t}
TelnetPeerOf == [p \in WithTelnet |-> IF p = t THEN NoPeer ELSE p1]

=============================================================================
