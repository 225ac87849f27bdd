---------------------------- MODULE SecResource ----------------------------
(***************************************************************************)
(* sec1000d: who owns which error calculator channel.                      *)
(*                                                                         *)
(* The channels of the FPGA are handed out to measuring clients by         *)
(* ECALCULATOR:SET n, come back by ECALCULATOR:FREE or when the TCP        *)
(* connection (peer) of the client closes, and are operated by their owner *)
(* (ECALCULATOR:ECx:START / STOP).  Many clients share one peer: the proxy *)
(* of zenux-service-interfaces opens one connection per process and        *)
(* address and tells its clients apart by a client id.                     *)
(*                                                                         *)
(* The service is one Qt event loop: each SCPI command and each            *)
(* disconnect is one step.                                                 *)
(***************************************************************************)
EXTENDS Naturals, Sequences, FiniteSets

CONSTANTS EcUnitCount,  \* number of channels (8 on COM5003, 15 on MTxxxs2)
          Clients,      \* client ids (uuid of a ProxyClient)
          Peers,        \* TCP peers, by address: an address can be reused
          PeerOf,       \* the peer a client sends through
          NoClient      \* m_ClientId of a channel nobody has ever set

Channels == 0 .. (EcUnitCount - 1)

ASSUME SecAssumption ==
    /\ EcUnitCount \in Nat \ {0}
    /\ PeerOf \in [Clients -> Peers]
    /\ NoClient \notin Clients

-----------------------------------------------------------------------------
VARIABLES
    connected,          \* peers with an open connection
    m_bSet,             \* SecChannel: the channel is occupied
    m_ClientId,         \* SecChannel: whose commands the channel obeys
    m_ClientECalcHash,  \* channels of the last successful SET of a client,
                        \*   {} when the hash has no entry for the client
    m_peerClientsHash,  \* clients that ever set channels through a peer
    running,            \* hardware: the error calculator measures
    granted             \* history: channels a client was told it owns and
                        \*   has not given back

secVars == <<connected, m_bSet, m_ClientId, m_ClientECalcHash,
             m_peerClientsHash, running, granted>>

SecTypeOK ==
    /\ connected \in SUBSET Peers
    /\ m_bSet \in [Channels -> BOOLEAN]
    /\ m_ClientId \in [Channels -> Clients \cup {NoClient}]
    /\ m_ClientECalcHash \in [Clients -> SUBSET Channels]
    /\ m_peerClientsHash \in [Peers -> Seq(Clients)]
    /\ running \in [Channels -> BOOLEAN]
    /\ granted \in [Clients -> SUBSET Channels]

SecInit ==
    /\ connected = {}
    /\ m_bSet = [ch \in Channels |-> FALSE]
    /\ m_ClientId = [ch \in Channels |-> NoClient]
    /\ m_ClientECalcHash = [c \in Clients |-> {}]
    /\ m_peerClientsHash = [p \in Peers |-> <<>>]
    /\ running = [ch \in Channels |-> FALSE]
    /\ granted = [c \in Clients |-> {}]

-----------------------------------------------------------------------------
IsFree(ch) == ~m_bSet[ch]

FreeChannels == {ch \in Channels : IsFree(ch)}

\* Mutant: the search forgets to ask isfree().
FirstFree_Occupied(n) == {ch \in Channels : ch < n}

\* The n free channels that come first in m_ECalculatorChannelList.
FirstFree(n) ==
    {ch \in FreeChannels : Cardinality({d \in FreeChannels : d < ch}) < n}

KnownClients == {c \in Clients : m_ClientECalcHash[c] # {}}

\* Mutant: the loop over m_ECalculatorChannelList ends one channel early.
FreeThese_LastSkipped(chs) ==
    LET seen == {ch \in chs : ch + 1 < EcUnitCount}
    IN  /\ m_bSet' = [ch \in Channels |-> m_bSet[ch] /\ ch \notin seen]
        /\ running' = [ch \in Channels |->
                            running[ch] /\ ~(m_bSet[ch] /\ ch \in seen)]

\* SecChannel::free on every channel of chs: a free channel is left alone, an
\* occupied one is stopped first and keeps its m_ClientId.
FreeThese(chs) ==
    /\ m_bSet' = [ch \in Channels |-> m_bSet[ch] /\ ch \notin chs]
    /\ running' = [ch \in Channels |->
                        running[ch] /\ ~(m_bSet[ch] /\ ch \in chs)]

\* Mutant: only the client that came last through the peer is freed.
ClientsFreedWith_LastOnly(p) ==
    LET list == m_peerClientsHash[p]
    IN  IF list = <<>> THEN {} ELSE {list[Len(list)]}

\* freeChannelsForThisPeer goes through the clients of the peer in the order
\* they came and gives up at the first one that has no hash entry.
ClientsFreedWith(p) ==
    LET list == m_peerClientsHash[p]
    IN  {list[i] : i \in {i \in DOMAIN list :
                            \A j \in 1 .. i : list[j] \in KnownClients}}

HashedChannels(cs) == UNION {m_ClientECalcHash[c] : c \in cs}

CanSend(c) == PeerOf[c] \in connected

-----------------------------------------------------------------------------
Connect(p) ==
    /\ p \notin connected
    /\ connected' = connected \cup {p}
    /\ UNCHANGED <<m_bSet, m_ClientId, m_ClientECalcHash, m_peerClientsHash,
                   running, granted>>

\* ECALCULATOR:SET n with n in range: all n channels or the answer "busy".
SetChannels(c, n) ==
    /\ CanSend(c)
    /\ Cardinality(FreeChannels) >= n
    /\ LET sel  == FirstFree(n)
           list == m_peerClientsHash[PeerOf[c]]
       IN  /\ m_ClientECalcHash' = [m_ClientECalcHash EXCEPT ![c] = sel]
           /\ m_peerClientsHash' =
                [m_peerClientsHash EXCEPT ![PeerOf[c]] =
                    IF \E i \in DOMAIN list : list[i] = c
                    THEN list ELSE Append(list, c)]
           /\ m_ClientId' = [ch \in Channels |->
                                IF ch \in sel /\ IsFree(ch)
                                THEN c ELSE m_ClientId[ch]]
           /\ m_bSet' = [ch \in Channels |-> m_bSet[ch] \/ ch \in sel]
           /\ granted' = [granted EXCEPT ![c] = @ \cup sel]
    /\ UNCHANGED <<connected, running>>

\* ECALCULATOR:FREE: everything of the client's last SET.  The hash entry
\* stays.  A client without an entry is answered "nak".
FreeChannelsFromAClient(c) ==
    /\ CanSend(c)
    /\ c \in KnownClients
    /\ FreeThese(m_ClientECalcHash[c])
    /\ granted' = [granted EXCEPT ![c] = {}]
    /\ UNCHANGED <<connected, m_ClientId, m_ClientECalcHash,
                   m_peerClientsHash>>

\* onProtobufDisconnect.  The clients behind the peer own nothing any more.
Disconnect(p) ==
    /\ p \in connected
    /\ connected' = connected \ {p}
    /\ FreeThese(HashedChannels(ClientsFreedWith(p)))
    /\ granted' = [c \in Clients |-> IF PeerOf[c] = p THEN {} ELSE granted[c]]
    /\ UNCHANGED <<m_ClientId, m_ClientECalcHash, m_peerClientsHash>>

Authorized(c, ch) == m_ClientId[ch] = c

\* ECALCULATOR:ECx:START
Start(c, ch) ==
    /\ CanSend(c)
    /\ Authorized(c, ch)
    /\ running' = [running EXCEPT ![ch] = TRUE]
    /\ UNCHANGED <<connected, m_bSet, m_ClientId, m_ClientECalcHash,
                   m_peerClientsHash, granted>>

\* ECALCULATOR:ECx:STOP
Stop(c, ch) ==
    /\ CanSend(c)
    /\ Authorized(c, ch)
    /\ running' = [running EXCEPT ![ch] = FALSE]
    /\ UNCHANGED <<connected, m_bSet, m_ClientId, m_ClientECalcHash,
                   m_peerClientsHash, granted>>

SecNext ==
    \/ \E p \in Peers : Connect(p) \/ Disconnect(p)
    \/ \E c \in Clients, n \in 1 .. EcUnitCount : SetChannels(c, n)
    \/ \E c \in Clients : FreeChannelsFromAClient(c)
    \/ \E c \in Clients, ch \in Channels : Start(c, ch) \/ Stop(c, ch)

SecSpec == SecInit /\ [][SecNext]_secVars

\* The measuring modules' own protocol: they ask for channels when they have
\* none, and give back or operate only what they were given.
PoliteNext ==
    \/ \E p \in Peers : Connect(p) \/ Disconnect(p)
    \/ \E c \in Clients, n \in 1 .. EcUnitCount :
            granted[c] = {} /\ SetChannels(c, n)
    \/ \E c \in Clients : granted[c] # {} /\ FreeChannelsFromAClient(c)
    \/ \E c \in Clients, ch \in Channels :
            ch \in granted[c] /\ (Start(c, ch) \/ Stop(c, ch))

PoliteSpec == SecInit /\ [][PoliteNext]_secVars

-----------------------------------------------------------------------------
(* Properties.                                                              *)

\* The answer of the service is kept: a channel a client was told it owns, and
\* has not given back, is occupied and obeys this client and nobody else.
HolderIsOwner ==
    \A c \in Clients : \A ch \in granted[c] : m_bSet[ch] /\ Authorized(c, ch)

\* No channel is lost: an occupied channel belongs to a client that knows of it.
NoLeak ==
    \A ch \in Channels :
        m_bSet[ch] => \E c \in Clients : Authorized(c, ch) /\ ch \in granted[c]

\* Channels of a closed connection are free again: the owner of an occupied
\* channel can still talk to the service.
OccupiedHasLivePeer ==
    \A ch \in Channels :
        m_bSet[ch] => \E c \in Clients : Authorized(c, ch) /\ CanSend(c)

\* A channel waiting for its next owner has been stopped (SecChannel::free).
FreeIsStopped ==
    \A ch \in Channels : IsFree(ch) => ~running[ch]

\* The warning "SEC resources could not be freed" of onProtobufDisconnect is
\* never logged: freeChannelsForThisPeer reaches every client of the peer.
EveryClientIsFreed ==
    \A p \in Peers : \A i \in DOMAIN m_peerClientsHash[p] :
        m_peerClientsHash[p][i] \in ClientsFreedWith(p)

\* Whatever the clients send, an occupied channel never changes hands without
\* having been free in between.
NoTakeover ==
    [][\A ch \in Channels :
            m_bSet[ch] /\ m_bSet'[ch] => m_ClientId'[ch] = m_ClientId[ch]]_secVars

\* What the service promises, without its book-keeping.
OwnerOf(ch) == IF m_bSet[ch] THEN m_ClientId[ch] ELSE NoClient

Ownership == INSTANCE ChannelOwnership WITH
                owner <- [ch \in Channels |-> OwnerOf(ch)], Nobody <- NoClient

\* Each step of the service grants free channels to one client, or takes back
\* all the channels of some clients, or leaves ownership alone.
ImplementsOwnership == Ownership!Spec

=============================================================================
