------------------------------- MODULE Proxy -------------------------------
(***************************************************************************)
(* Zera::Proxy: the measuring modules of a process reach the services      *)
(* through one singleton.  Clients for the same address share a TCP peer;  *)
(* the peer goes when its last client is released.                         *)
(*                                                                         *)
(* A connection has two ends that learn of its loss one after the other:   *)
(* m_peerState is what the process sees, serverSees whether the service    *)
(* still holds the peer.                                                   *)
(***************************************************************************)
EXTENDS FiniteSets

CONSTANTS ProxyClients,    \* client objects, each with a uuid of its own
          NetPeers,        \* ProxyNetPeer objects
          Addresses,       \* ip and port of a service
          AddressOf,       \* the service a client is meant for
          NoPeer

ASSUME ProxyAssumption ==
    /\ AddressOf \in [ProxyClients -> Addresses]
    /\ NoPeer \notin NetPeers

VARIABLES
    m_ConnectionHash,  \* the peer of a client; NoPeer when it is not in the hash
    uuids,             \* clients that have been created
    m_peerState,       \* socket of a peer, as the process sees it
    deletedLater,      \* peers deleteLater has been called on
    serverSees,        \* connections the service holds
    startRequested,    \* clients startConnectionSmart was called for
    told               \* the last signal a client has emitted

proxyVars == <<m_ConnectionHash, uuids, m_peerState, deletedLater, serverSees,
               startRequested, told>>

\* "unused": not constructed.  m_bStarted is m_peerState \notin {unused, idle}.
PeerStates == {"unused", "idle", "connecting", "open", "closed", "failed", "deleted"}

ProxyTypeOK ==
    /\ m_ConnectionHash \in [ProxyClients -> NetPeers \cup {NoPeer}]
    /\ uuids \subseteq ProxyClients
    /\ m_peerState \in [NetPeers -> PeerStates]
    /\ deletedLater \subseteq NetPeers
    /\ serverSees \subseteq NetPeers
    /\ startRequested \subseteq ProxyClients
    /\ told \in [ProxyClients -> {"nothing", "connected", "disconnected", "error"}]

ProxyInit ==
    /\ m_ConnectionHash = [c \in ProxyClients |-> NoPeer]
    /\ uuids = {}
    /\ m_peerState = [p \in NetPeers |-> "unused"]
    /\ deletedLater = {}
    /\ serverSees = {}
    /\ startRequested = {}
    /\ told = [c \in ProxyClients |-> "nothing"]

Living == {c \in ProxyClients : m_ConnectionHash[c] # NoPeer}

ClientsConnectedToPeer(p) == {c \in ProxyClients : m_ConnectionHash[c] = p}

-----------------------------------------------------------------------------
\* searchConnection: the peer of any client with the same address.
SearchConnection(c) ==
    {m_ConnectionHash[d] : d \in {e \in Living : AddressOf[e] = AddressOf[c]}}

\* new ProxyNetPeer; which one of the unused names it gets does not matter.
NewPeer == LET unused == {p \in NetPeers : m_peerState[p] = "unused"}
           IN  IF unused = {} THEN NoPeer ELSE CHOOSE p \in unused : TRUE

\* getConnectionSmart: the client gets the peer of the address, or a new one.
GetConnectionSmart(c) ==
    /\ c \notin uuids
    /\ uuids' = uuids \cup {c}
    /\ \/ /\ SearchConnection(c) # {}
          /\ \E p \in SearchConnection(c) :
                m_ConnectionHash' = [m_ConnectionHash EXCEPT ![c] = p]
          /\ UNCHANGED m_peerState
       \/ /\ SearchConnection(c) = {}
          /\ NewPeer # NoPeer
          /\ m_ConnectionHash' = [m_ConnectionHash EXCEPT ![c] = NewPeer]
          /\ m_peerState' = [m_peerState EXCEPT ![NewPeer] = "idle"]
    /\ UNCHANGED <<deletedLater, serverSees, startRequested, told>>

\* Mutant: a client that joins an open connection is not signalled.
StartConnectionSmart_Silent(c) ==
    LET p == m_ConnectionHash[c]
    IN  /\ c \in Living \ startRequested
        /\ startRequested' = startRequested \cup {c}
        /\ m_peerState' = [m_peerState EXCEPT ![p] = IF @ = "idle" THEN "connecting" ELSE @]
        /\ UNCHANGED <<m_ConnectionHash, uuids, deletedLater, serverSees, told>>

\* startConnectionSmart.  A peer is started once: m_bStarted is never reset, and
\* on a peer whose connection was refused or lost nothing happens.
StartConnectionSmart(c) ==
    LET p == m_ConnectionHash[c]
    IN  /\ c \in Living \ startRequested
        /\ startRequested' = startRequested \cup {c}
        /\ m_peerState' = [m_peerState EXCEPT ![p] = IF @ = "idle" THEN "connecting" ELSE @]
        /\ told' = [told EXCEPT ![c] = IF m_peerState[p] = "open" THEN "connected" ELSE @]
        /\ UNCHANGED <<m_ConnectionHash, uuids, deletedLater, serverSees>>

\* deletePeerOnAllClientsGone, when the clients leaving have left the hash.
DeletePeerOnAllClientsGone(p, leaving) ==
    IF ClientsConnectedToPeer(p) \ leaving = {} THEN {p} ELSE {}

\* The client is destroyed: releaseConnection; the RELEASE command it sends is the
\* caller's.
ReleaseConnection(c) ==
    LET p == m_ConnectionHash[c]
    IN  /\ c \in Living
        /\ m_ConnectionHash' = [m_ConnectionHash EXCEPT ![c] = NoPeer]
        /\ deletedLater' = deletedLater \cup DeletePeerOnAllClientsGone(p, {c})
        /\ startRequested' = startRequested \ {c}
        /\ told' = [told EXCEPT ![c] = "nothing"]
        /\ UNCHANGED <<uuids, m_peerState, serverSees>>

\* The event loop runs deleteLater: the socket is closed.
DeletePeer(p) ==
    /\ p \in deletedLater
    /\ m_peerState[p] # "deleted"
    /\ m_peerState' = [m_peerState EXCEPT ![p] = "deleted"]
    /\ UNCHANGED <<m_ConnectionHash, uuids, deletedLater, serverSees,
                   startRequested, told>>

\* registerConnection, registerDisConnection, receiveTcpError: every client of
\* the peer emits the signal, also one startConnectionSmart was not called for.
Signal(p, signal) ==
    told' = [c \in ProxyClients |->
                IF c \in ClientsConnectedToPeer(p) THEN signal ELSE told[c]]

Established(p) ==
    /\ m_peerState[p] = "connecting"
    /\ m_peerState' = [m_peerState EXCEPT ![p] = "open"]
    /\ serverSees' = serverSees \cup {p}
    /\ Signal(p, "connected")
    /\ UNCHANGED <<m_ConnectionHash, uuids, deletedLater, startRequested>>

Refused(p) ==
    /\ m_peerState[p] = "connecting"
    /\ m_peerState' = [m_peerState EXCEPT ![p] = "failed"]
    /\ Signal(p, "error")
    /\ UNCHANGED <<m_ConnectionHash, uuids, deletedLater, serverSees, startRequested>>

\* The connection breaks or the service closes it, and the process learns of it.
ConnectionClosed(p) ==
    /\ m_peerState[p] = "open"
    /\ m_peerState' = [m_peerState EXCEPT ![p] = "closed"]
    /\ Signal(p, "disconnected")
    /\ UNCHANGED <<m_ConnectionHash, uuids, deletedLater, serverSees, startRequested>>

\* The service learns that the connection is gone.
ServerLosesPeer(p) ==
    /\ p \in serverSees
    /\ serverSees' = serverSees \ {p}
    /\ UNCHANGED <<m_ConnectionHash, uuids, m_peerState, deletedLater,
                   startRequested, told>>

ProxyNext ==
    \/ \E c \in ProxyClients : \/ GetConnectionSmart(c)
                              \/ StartConnectionSmart(c)
                              \/ ReleaseConnection(c)
    \/ \E p \in NetPeers : \/ DeletePeer(p) \/ Established(p) \/ Refused(p)
                          \/ ConnectionClosed(p) \/ ServerLosesPeer(p)

ProxySpec == ProxyInit /\ [][ProxyNext]_proxyVars

-----------------------------------------------------------------------------
\* What a client was told last is the state of its connection, unless it joined
\* a connection that had opened before and has not asked to be connected: the
\* clients of one peer come and go, but each hears of every change.
ToldTheTruth ==
    \A c \in Living :
        LET state == m_peerState[m_ConnectionHash[c]]
        IN  /\ told[c] = "connected" => state = "open"
            /\ state = "open" /\ c \in startRequested => told[c] = "connected"
            /\ told[c] = "disconnected" => state = "closed"
            /\ told[c] = "error" => state = "failed"

\* A peer is to be deleted exactly when it has been left by its last client: no
\* client ever works on a peer that goes away under it, and no socket is left.
PeersServeClients ==
    \A p \in NetPeers :
        /\ p \in deletedLater => ClientsConnectedToPeer(p) = {}
        /\ m_peerState[p] = "deleted" => p \in deletedLater
        /\ m_peerState[p] # "unused" =>
                p \in deletedLater \/ ClientsConnectedToPeer(p) # {}

\* Clients of one service share one connection, clients of two never do.
OneConnectionPerService ==
    \A c, d \in Living :
        (m_ConnectionHash[c] = m_ConnectionHash[d]) <=> (AddressOf[c] = AddressOf[d])

=============================================================================
