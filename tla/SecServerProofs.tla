--------------------------- MODULE SecServerProofs ---------------------------
(***************************************************************************)
(* Proofs about SecResource, for any number of channels, clients and       *)
(* peers, and about SecServer, for any number of bits and any size of the  *)
(* pipe too, and one connection that the clients share.                    *)
(***************************************************************************)
EXTENDS SecServer, FiniteSetTheorems, WellFoundedInduction, TLAPS

-----------------------------------------------------------------------------
(* SecResource: the channels and their owners.                              *)

LEMMA FirstFreeIsFree ==
    ASSUME NEW n
    PROVE  FirstFree(n) \in SUBSET FreeChannels /\ FirstFree(n) \in SUBSET Channels
BY DEF FirstFree, FreeChannels

\* A set of naturals has a least element.
LEMMA LeastNatural ==
    ASSUME NEW S \in SUBSET Nat, S # {}
    PROVE  \E m \in S : \A k \in S : ~(k < m)
<1>1. PICK m \in S : \A k \in S : <<k, m>> \notin OpToRel(<, Nat)
    BY NatLessThanWellFounded, WFMin
<1> QED
    BY <1>1 DEF OpToRel

\* SET n never answers with an empty list.
LEMMA FirstFreeNotEmpty ==
    ASSUME NEW n \in 1 .. EcUnitCount, Cardinality(FreeChannels) >= n
    PROVE  FirstFree(n) # {}
<1>1. FreeChannels # {}
    BY FS_EmptySet
<1>2. FreeChannels \in SUBSET Nat
    BY SecAssumption DEF FreeChannels, Channels
<1>3. PICK m \in FreeChannels : \A k \in FreeChannels : ~(k < m)
    BY <1>1, <1>2, LeastNatural
<1>4. {d \in FreeChannels : d < m} = {}
    BY <1>3
<1>5. Cardinality({d \in FreeChannels : d < m}) < n
    BY <1>4, FS_EmptySet
<1> QED
    BY <1>3, <1>5 DEF FirstFree

LEMMA TypeInit == SecInit => SecTypeOK
BY SecAssumption DEF SecInit, SecTypeOK

LEMMA TypeStep == SecTypeOK /\ [SecNext]_secVars => SecTypeOK'
<1> SUFFICES ASSUME SecTypeOK, [SecNext]_secVars PROVE SecTypeOK'
    OBVIOUS
<1> USE DEF SecTypeOK
<1>1. ASSUME NEW p \in Peers, Connect(p) PROVE SecTypeOK'
    BY <1>1 DEF Connect
<1>2. ASSUME NEW p \in Peers, Disconnect(p) PROVE SecTypeOK'
    BY <1>2 DEF Disconnect, FreeThese
<1>3. ASSUME NEW c \in Clients, NEW n \in 1 .. EcUnitCount, SetChannels(c, n)
      PROVE  SecTypeOK'
    <2>1. PeerOf[c] \in Peers
        BY SecAssumption
    <2>2. Append(m_peerClientsHash[PeerOf[c]], c) \in Seq(Clients)
        BY <2>1
    <2>3. m_peerClientsHash' \in [Peers -> Seq(Clients)]
        BY <1>3, <2>1, <2>2 DEF SetChannels
    <2>4. /\ m_ClientECalcHash' \in [Clients -> SUBSET Channels]
          /\ granted' \in [Clients -> SUBSET Channels]
        BY <1>3, FirstFreeIsFree DEF SetChannels
    <2>5. /\ m_bSet' \in [Channels -> BOOLEAN]
          /\ m_ClientId' \in [Channels -> Clients \cup {NoClient}]
        BY <1>3 DEF SetChannels
    <2> QED
        BY <1>3, <2>3, <2>4, <2>5 DEF SetChannels
<1>4. ASSUME NEW c \in Clients, FreeChannelsFromAClient(c) PROVE SecTypeOK'
    BY <1>4 DEF FreeChannelsFromAClient, FreeThese
<1>5. ASSUME NEW c \in Clients, NEW ch \in Channels, Start(c, ch) \/ Stop(c, ch)
      PROVE  SecTypeOK'
    BY <1>5 DEF Start, Stop
<1>6. CASE UNCHANGED secVars
    BY <1>6 DEF secVars
<1> QED
    BY <1>1, <1>2, <1>3, <1>4, <1>5, <1>6 DEF SecNext

\* Every variable of the service keeps its type.
THEOREM SecTypeCorrect == SecSpec => []SecTypeOK
BY TypeInit, TypeStep, PTL DEF SecSpec

-----------------------------------------------------------------------------
\* Whatever clients send, an occupied channel is never handed over without
\* having been free.
THEOREM SecNoTakeover == SecSpec => NoTakeover
<1>1. SecTypeOK /\ [SecNext]_secVars =>
        [\A ch \in Channels :
            m_bSet[ch] /\ m_bSet'[ch] => m_ClientId'[ch] = m_ClientId[ch]]_secVars
    BY DEF SecTypeOK, SecNext, Connect, Disconnect, SetChannels,
           FreeChannelsFromAClient, FreeThese, Start, Stop, secVars, IsFree
<1> QED
    BY <1>1, SecTypeCorrect, PTL DEF SecSpec, NoTakeover

-----------------------------------------------------------------------------
\* Hash entries are never removed, so the clients a peer lists have one.
ListedAreKnown ==
    \A p \in Peers : \A i \in DOMAIN m_peerClientsHash[p] :
        m_peerClientsHash[p][i] \in KnownClients

LEMMA ListedAreKnownStep ==
    ASSUME SecTypeOK, ListedAreKnown, [SecNext]_secVars
    PROVE  ListedAreKnown'
<1>1. ASSUME NEW c \in Clients, NEW n \in 1 .. EcUnitCount, SetChannels(c, n)
      PROVE  ListedAreKnown'
    <2> DEFINE q == PeerOf[c]
               list == m_peerClientsHash[q]
    <2>1. FirstFree(n) # {}
        BY <1>1, FirstFreeNotEmpty DEF SetChannels
    <2>2. m_ClientECalcHash' = [m_ClientECalcHash EXCEPT ![c] = FirstFree(n)]
        BY <1>1 DEF SetChannels
    <2>3. KnownClients \cup {c} \subseteq KnownClients'
        BY <2>1, <2>2 DEF KnownClients, SecTypeOK
    <2>4. /\ q \in Peers
          /\ list \in Seq(Clients)
          /\ m_peerClientsHash' =
                [m_peerClientsHash EXCEPT ![q] =
                    IF \E i \in DOMAIN list : list[i] = c
                    THEN list ELSE Append(list, c)]
        BY <1>1, SecAssumption DEF SetChannels, SecTypeOK
    <2>5. ASSUME NEW p \in Peers, NEW i \in DOMAIN m_peerClientsHash'[p]
          PROVE  \/ m_peerClientsHash'[p][i] = c
                 \/ /\ i \in DOMAIN m_peerClientsHash[p]
                    /\ m_peerClientsHash'[p][i] = m_peerClientsHash[p][i]
        <3>1. CASE m_peerClientsHash'[p] = m_peerClientsHash[p]
            BY <3>1
        <3>2. CASE p = q /\ m_peerClientsHash'[p] = Append(list, c)
            BY <3>2, <2>4, <2>5
        <3> QED
            BY <3>1, <3>2, <2>4 DEF SecTypeOK
    <2> QED
        BY <2>3, <2>5 DEF ListedAreKnown
<1>2. CASE UNCHANGED <<m_ClientECalcHash, m_peerClientsHash>>
    BY <1>2 DEF ListedAreKnown, KnownClients
<1> QED
    BY <1>1, <1>2 DEF SecNext, Connect, Disconnect, FreeChannelsFromAClient,
            Start, Stop, secVars

\* Whatever clients send, freeChannelsForThisPeer never gives up: the warning
\* "SEC resources could not be freed" is unreachable.
THEOREM SecEveryClientIsFreed == SecSpec => []EveryClientIsFreed
<1>1. SecInit => ListedAreKnown
    BY DEF SecInit, ListedAreKnown
<1>2. SecTypeOK /\ ListedAreKnown /\ [SecNext]_secVars => ListedAreKnown'
    BY ListedAreKnownStep
<1>3. SecTypeOK /\ ListedAreKnown => EveryClientIsFreed
    <2> SUFFICES ASSUME SecTypeOK, ListedAreKnown,
                        NEW p \in Peers, NEW i \in DOMAIN m_peerClientsHash[p]
                 PROVE  m_peerClientsHash[p][i] \in ClientsFreedWith(p)
        BY DEF EveryClientIsFreed
    <2>1. m_peerClientsHash[p] \in Seq(Clients)
        BY DEF SecTypeOK
    <2>2. \A j \in 1 .. i : j \in DOMAIN m_peerClientsHash[p]
        BY <2>1
    <2> QED
        BY <2>2 DEF ClientsFreedWith, ListedAreKnown
<1> QED
    BY <1>1, <1>2, <1>3, SecTypeCorrect, PTL DEF SecSpec

-----------------------------------------------------------------------------
(* A well-behaved process: all clients share its one connection.  The       *)
(* book-keeping of the service then agrees with what the clients believe.   *)

SharedPeer == \A c, d \in Clients : PeerOf[c] = PeerOf[d]

\* The peer's list holds the client, and all listed clients have a hash entry.
Listed(c) == \E i \in DOMAIN m_peerClientsHash[PeerOf[c]] :
                m_peerClientsHash[PeerOf[c]][i] = c

\* HolderIsOwner is not inductive: FREE releases the hash entry of the client,
\* and a disconnect the entries of the listed clients, so the invariant says
\* that the entry of a holder is exactly what it holds, and where it is found.
PoliteInv ==
    /\ SecTypeOK
    /\ HolderIsOwner
    /\ \A ch \in Channels :
            m_bSet[ch] => m_ClientId[ch] \in Clients /\ ch \in granted[m_ClientId[ch]]
    /\ \A c \in Clients :
            granted[c] # {} => /\ m_ClientECalcHash[c] = granted[c]
                               /\ CanSend(c)
                               /\ Listed(c)
    /\ \A p \in Peers : \A i \in DOMAIN m_peerClientsHash[p] :
            /\ m_peerClientsHash[p][i] \in KnownClients
            /\ PeerOf[m_peerClientsHash[p][i]] = p
    /\ FreeIsStopped

LEMMA PoliteIsSec == [PoliteNext]_secVars => [SecNext]_secVars
BY DEF PoliteNext, SecNext

LEMMA PoliteInit == SecInit => PoliteInv
BY TypeInit DEF SecInit, PoliteInv, HolderIsOwner, FreeIsStopped, IsFree

LEMMA AllListedAreFreed ==
    ASSUME PoliteInv, NEW c \in Clients, Listed(c)
    PROVE  c \in ClientsFreedWith(PeerOf[c])
<1> DEFINE list == m_peerClientsHash[PeerOf[c]]
<1>1. PeerOf[c] \in Peers /\ list \in Seq(Clients)
    BY SecAssumption DEF PoliteInv, SecTypeOK
<1>2. PICK i \in DOMAIN list : list[i] = c
    BY DEF Listed
<1>3. \A j \in 1 .. i : j \in DOMAIN list
    BY <1>1, <1>2
<1>4. \A j \in 1 .. i : list[j] \in KnownClients
    BY <1>1, <1>3 DEF PoliteInv
<1> QED
    BY <1>2, <1>4 DEF ClientsFreedWith

LEMMA PoliteStep ==
    ASSUME SharedPeer, PoliteInv, [PoliteNext]_secVars
    PROVE  PoliteInv'
<1> SecTypeOK /\ SecTypeOK'
    BY PoliteIsSec, TypeStep DEF PoliteInv
<1> USE DEF SecTypeOK
<1>0. PeerOf \in [Clients -> Peers] /\ NoClient \notin Clients
    BY SecAssumption
<1>1. ASSUME NEW p \in Peers, Connect(p) PROVE PoliteInv'
    BY <1>1, <1>0 DEF Connect, PoliteInv, HolderIsOwner, FreeIsStopped,
            IsFree, CanSend, Listed, KnownClients, Authorized
<1>2. ASSUME NEW p \in Peers, Disconnect(p) PROVE PoliteInv'
    <2> DEFINE freed == HashedChannels(ClientsFreedWith(p))
    <2>1. CASE \A c \in Clients : PeerOf[c] = p
        \* Everybody loses everything.
        <3>1. granted' = [c \in Clients |-> {}]
            BY <1>2, <2>1 DEF Disconnect
        <3>2. ASSUME NEW ch \in Channels, m_bSet[ch] PROVE ch \in freed
            <4>1. PICK c \in Clients : m_ClientId[ch] = c /\ ch \in granted[c]
                BY <3>2 DEF PoliteInv
            <4>2. ch \in m_ClientECalcHash[c] /\ Listed(c)
                BY <4>1 DEF PoliteInv
            <4>3. c \in ClientsFreedWith(p)
                BY <4>2, <2>1, AllListedAreFreed
            <4> QED
                BY <4>2, <4>3 DEF HashedChannels
        <3>3. \A ch \in Channels : ~m_bSet'[ch]
            BY <1>2, <3>2 DEF Disconnect, FreeThese
        <3>4. FreeIsStopped'
            BY <1>2, <3>2 DEF Disconnect, FreeThese, PoliteInv, FreeIsStopped, IsFree
        <3> QED
            BY <1>2, <3>1, <3>3, <3>4 DEF Disconnect, PoliteInv, HolderIsOwner,
                    KnownClients
    <2>2. CASE \A c \in Clients : PeerOf[c] # p
        \* Nobody ever used this connection.
        <3>1. freed = {}
            BY <1>2, <2>2 DEF HashedChannels, ClientsFreedWith, PoliteInv
        <3>2. UNCHANGED <<m_bSet, running, granted>>
            BY <1>2, <2>2, <3>1 DEF Disconnect, FreeThese
        <3> QED
            BY <1>2, <2>2, <3>2 DEF Disconnect, PoliteInv, HolderIsOwner,
                    FreeIsStopped, IsFree, CanSend, Listed, KnownClients, Authorized
    <2> QED
        BY <2>1, <2>2 DEF SharedPeer
<1>3. ASSUME NEW c \in Clients, NEW n \in 1 .. EcUnitCount,
             granted[c] = {}, SetChannels(c, n)
      PROVE  PoliteInv'
    <2> DEFINE sel == FirstFree(n)
               p == PeerOf[c]
               list == m_peerClientsHash[p]
    <2>1. /\ sel \in SUBSET Channels
          /\ \A ch \in sel : ~m_bSet[ch]
        BY FirstFreeIsFree DEF FreeChannels, IsFree
    <2>2. /\ granted' = [granted EXCEPT ![c] = sel]
          /\ m_ClientECalcHash' = [m_ClientECalcHash EXCEPT ![c] = sel]
          /\ m_ClientId' = [ch \in Channels |->
                                IF ch \in sel THEN c ELSE m_ClientId[ch]]
          /\ m_bSet' = [ch \in Channels |-> m_bSet[ch] \/ ch \in sel]
          /\ UNCHANGED <<connected, running>>
        BY <1>3, <2>1 DEF SetChannels, IsFree
    <2>3. sel # {}
        BY <1>3, FirstFreeNotEmpty DEF SetChannels
    <2>4. HolderIsOwner'
        BY <2>1, <2>2 DEF PoliteInv, HolderIsOwner, Authorized
    <2>5. \A ch \in Channels : m_bSet'[ch] =>
            m_ClientId'[ch] \in Clients /\ ch \in granted'[m_ClientId'[ch]]
        BY <2>1, <2>2, <1>3 DEF PoliteInv
    <2>6. /\ list \in Seq(Clients) /\ p \in Peers
          /\ \/ m_peerClientsHash' = m_peerClientsHash /\ \E i \in DOMAIN list : list[i] = c
             \/ m_peerClientsHash' = [m_peerClientsHash EXCEPT ![p] = Append(list, c)]
        BY <1>3, <1>0 DEF SetChannels
    <2>7. ASSUME NEW d \in Clients, d = c \/ Listed(d) PROVE Listed(d)'
        <3> DEFINE q == PeerOf[d]
        <3>1. q \in Peers /\ m_peerClientsHash[q] \in Seq(Clients)
            BY <1>0
        <3>2. CASE m_peerClientsHash' = m_peerClientsHash /\ \E i \in DOMAIN list : list[i] = c
            BY <3>2, <2>7 DEF Listed
        <3>3. CASE m_peerClientsHash' = [m_peerClientsHash EXCEPT ![p] = Append(list, c)]
            <4>1. CASE q # p
                BY <3>1, <3>3, <4>1, <2>7 DEF Listed
            <4>2. CASE q = p
                <5>1. m_peerClientsHash'[q] = Append(list, c)
                    BY <3>1, <3>3, <4>2
                <5>2. \E i \in DOMAIN Append(list, c) : Append(list, c)[i] = d
                    <6>1. CASE d = c
                        <7>1. /\ Len(list) + 1 \in DOMAIN Append(list, c)
                              /\ Append(list, c)[Len(list) + 1] = c
                            BY <2>6
                        <7> QED
                            BY <6>1, <7>1
                    <6>2. ASSUME NEW i \in DOMAIN list, list[i] = d
                          PROVE  i \in DOMAIN Append(list, c) /\ Append(list, c)[i] = d
                        BY <2>6, <6>2
                    <6> QED
                        BY <6>1, <6>2, <2>7, <4>2 DEF Listed
                <5> QED
                    BY <5>1, <5>2 DEF Listed
            <4> QED
                BY <4>1, <4>2
        <3> QED
            BY <2>6, <3>2, <3>3
    <2>8. ASSUME NEW d \in Clients, granted'[d] # {}
          PROVE  m_ClientECalcHash'[d] = granted'[d] /\ CanSend(d)' /\ Listed(d)'
        BY <2>2, <2>7, <2>8, <1>3 DEF PoliteInv, SetChannels, CanSend
    <2>9. ASSUME NEW q \in Peers, NEW i \in DOMAIN m_peerClientsHash'[q]
          PROVE  /\ m_peerClientsHash'[q][i] \in KnownClients'
                 /\ PeerOf[m_peerClientsHash'[q][i]] = q
        <3>1. \A d \in KnownClients \cup {c} : d \in KnownClients'
            BY <2>2, <2>3 DEF KnownClients
        <3>2. m_peerClientsHash'[q][i] \in KnownClients \cup {c} /\ PeerOf[m_peerClientsHash'[q][i]] = q
            <4>1. CASE m_peerClientsHash'[q] = m_peerClientsHash[q]
                BY <4>1 DEF PoliteInv
            <4>2. CASE q = p /\ m_peerClientsHash'[q] = Append(list, c)
                <5>1. i \in DOMAIN list \/ i = Len(list) + 1
                    BY <4>2, <2>6
                <5> QED
                    BY <4>2, <5>1, <2>6 DEF PoliteInv
            <4> QED
                BY <2>6, <4>1, <4>2
        <3> QED
            BY <3>1, <3>2
    <2>10. FreeIsStopped'
        BY <2>2 DEF PoliteInv, FreeIsStopped, IsFree
    <2> QED
        BY <2>4, <2>5, <2>8, <2>9, <2>10 DEF PoliteInv
<1>4. ASSUME NEW c \in Clients, granted[c] # {}, FreeChannelsFromAClient(c)
      PROVE  PoliteInv'
    <2>1. m_ClientECalcHash[c] = granted[c]
        BY <1>4 DEF PoliteInv
    <2>2. /\ granted' = [granted EXCEPT ![c] = {}]
          /\ m_bSet' = [ch \in Channels |-> m_bSet[ch] /\ ch \notin granted[c]]
          /\ running' = [ch \in Channels |->
                            running[ch] /\ ~(m_bSet[ch] /\ ch \in granted[c])]
          /\ UNCHANGED <<connected, m_ClientId, m_ClientECalcHash, m_peerClientsHash>>
        BY <1>4, <2>1 DEF FreeChannelsFromAClient, FreeThese
    <2>3. HolderIsOwner'
        BY <2>2 DEF PoliteInv, HolderIsOwner, Authorized
    <2>4. \A ch \in Channels : m_bSet'[ch] =>
            m_ClientId'[ch] \in Clients /\ ch \in granted'[m_ClientId'[ch]]
        BY <2>2 DEF PoliteInv
    <2>5. FreeIsStopped'
        BY <2>2 DEF PoliteInv, FreeIsStopped, IsFree
    <2> QED
        BY <2>2, <2>3, <2>4, <2>5 DEF PoliteInv, CanSend, Listed, KnownClients
<1>5. ASSUME NEW c \in Clients, NEW ch \in granted[c], Start(c, ch) \/ Stop(c, ch)
      PROVE  PoliteInv'
    BY <1>5, <1>0 DEF Start, Stop, PoliteInv, HolderIsOwner, FreeIsStopped,
            IsFree, CanSend, Listed, KnownClients, Authorized
<1>6. CASE UNCHANGED secVars
    BY <1>6 DEF secVars, PoliteInv, HolderIsOwner, FreeIsStopped,
            IsFree, CanSend, Listed, KnownClients, Authorized
<1> QED
    BY <1>1, <1>2, <1>3, <1>4, <1>5, <1>6 DEF PoliteNext

LEMMA PoliteInvariant == SharedPeer => (PoliteSpec => []PoliteInv)
<1>1. ASSUME SharedPeer PROVE PoliteInv /\ [PoliteNext]_secVars => PoliteInv'
    BY <1>1, PoliteStep
<1>2. ASSUME SharedPeer PROVE PoliteSpec => []PoliteInv
    BY <1>1, <1>2, PoliteInit, PTL DEF PoliteSpec
<1> QED
    BY <1>2

\* With one connection per process and clients that free what they hold, a
\* client that was given a channel is the one the service obeys on it.
THEOREM SecHolderIsOwner == SharedPeer => (PoliteSpec => []HolderIsOwner)
<1>1. PoliteInv => HolderIsOwner
    BY DEF PoliteInv
<1> QED
    BY <1>1, PoliteInvariant, PTL

\* ... and no channel is lost.
THEOREM SecNoLeak == SharedPeer => (PoliteSpec => []NoLeak)
<1>1. PoliteInv => NoLeak
    BY DEF PoliteInv, NoLeak, Authorized
<1> QED
    BY <1>1, PoliteInvariant, PTL

\* ... and the owner of an occupied channel has not closed its connection.
THEOREM SecOccupiedHasLivePeer ==
    SharedPeer => (PoliteSpec => []OccupiedHasLivePeer)
<1>1. PoliteInv => OccupiedHasLivePeer
    BY DEF PoliteInv, OccupiedHasLivePeer, Authorized
<1> QED
    BY <1>1, PoliteInvariant, PTL

\* ... and the next owner finds its channel stopped.
THEOREM SecFreeIsStopped == SharedPeer => (PoliteSpec => []FreeIsStopped)
<1>1. PoliteInv => FreeIsStopped
    BY DEF PoliteInv
<1> QED
    BY <1>1, PoliteInvariant, PTL

-----------------------------------------------------------------------------
LEMMA OwnershipInit == SecInit => Ownership!Init
BY SecAssumption DEF SecInit, Ownership!Init, OwnerOf

LEMMA OwnershipStep ==
    ASSUME SharedPeer, PoliteInv, PoliteInv', [PoliteNext]_secVars
    PROVE  [Ownership!Next]_([ch \in Channels |-> OwnerOf(ch)])
<1> DEFINE own == [ch \in Channels |-> OwnerOf(ch)]
<1> USE DEF OwnerOf
<1>0. SecTypeOK /\ SecTypeOK' /\ SecAssumption
    BY SecAssumption DEF PoliteInv
<1>a. \A ch \in Channels : /\ own[ch] \in Clients \cup {NoClient}
                           /\ \A c \in Clients : own[ch] = c <=> ch \in granted[c]
    BY <1>0 DEF PoliteInv, HolderIsOwner, Authorized, SecTypeOK, SecAssumption
<1>b. \A ch \in Channels : /\ own'[ch] \in Clients \cup {NoClient}
                           /\ \A c \in Clients : own'[ch] = c <=> ch \in granted'[c]
    BY <1>0 DEF PoliteInv, HolderIsOwner, Authorized, SecTypeOK, SecAssumption
<1>1. ASSUME NEW p \in Peers, Connect(p) PROVE own' = own
    BY <1>1 DEF Connect
<1>2. ASSUME NEW p \in Peers, Disconnect(p)
      PROVE  \E cs \in SUBSET Clients : Ownership!TakeBack(cs)
    <2> DEFINE cs == {c \in Clients : PeerOf[c] = p}
    <2>1. \A c \in Clients : granted'[c] = IF c \in cs THEN {} ELSE granted[c]
        BY <1>2 DEF Disconnect
    <2>2. \A ch \in Channels : own'[ch] = IF own[ch] \in cs THEN NoClient ELSE own[ch]
        <3> SUFFICES ASSUME NEW ch \in Channels
                     PROVE  own'[ch] = IF own[ch] \in cs THEN NoClient ELSE own[ch]
            OBVIOUS
        <3> HIDE DEF own
        <3>1. CASE own[ch] \in Clients
            BY <3>1, <2>1, <1>0, <1>a, <1>b DEF SecAssumption
        <3>2. CASE own[ch] = NoClient
            BY <3>2, <2>1, <1>0, <1>a, <1>b DEF SecAssumption
        <3> QED
            BY <3>1, <3>2, <1>a
    <2>3. Ownership!TakeBack(cs)
        BY <2>2 DEF Ownership!TakeBack
    <2> QED
        BY <2>3
<1>3. ASSUME NEW c \in Clients, NEW n \in 1 .. EcUnitCount,
             granted[c] = {}, SetChannels(c, n)
      PROVE  Ownership!Grant(c, FirstFree(n))
    <2> DEFINE sel == FirstFree(n)
    <2>1. sel \in SUBSET Channels /\ \A ch \in sel : ~m_bSet[ch]
        BY FirstFreeIsFree DEF FreeChannels, IsFree
    <2>2. Ownership!OwnedBy({c}) = {}
        BY <1>3, <1>a DEF Ownership!OwnedBy
    <2>3. \A ch \in sel : own[ch] = NoClient
        BY <2>1
    <2>4. \A ch \in Channels : own'[ch] = IF ch \in sel THEN c ELSE own[ch]
        BY <1>3, <2>1, <1>0 DEF SetChannels, IsFree, SecTypeOK
    <2> QED
        BY <2>1, <2>2, <2>3, <2>4 DEF Ownership!Grant
<1>4. ASSUME NEW c \in Clients, granted[c] # {}, FreeChannelsFromAClient(c)
      PROVE  Ownership!TakeBack({c})
    <2>1. \A d \in Clients : granted'[d] = IF d = c THEN {} ELSE granted[d]
        BY <1>4, <1>0 DEF FreeChannelsFromAClient, SecTypeOK
    <2>2. \A ch \in Channels : own'[ch] = IF own[ch] \in {c} THEN NoClient ELSE own[ch]
        <3> SUFFICES ASSUME NEW ch \in Channels
                     PROVE  own'[ch] = IF own[ch] \in {c} THEN NoClient ELSE own[ch]
            OBVIOUS
        <3> HIDE DEF own
        <3>1. CASE own[ch] \in Clients
            BY <3>1, <2>1, <1>0, <1>a, <1>b DEF SecAssumption
        <3>2. CASE own[ch] = NoClient
            BY <3>2, <2>1, <1>0, <1>a, <1>b DEF SecAssumption
        <3> QED
            BY <3>1, <3>2, <1>a
    <2> QED
        BY <2>2 DEF Ownership!TakeBack
<1>5. ASSUME NEW c \in Clients, NEW ch \in granted[c], Start(c, ch) \/ Stop(c, ch)
      PROVE  own' = own
    BY <1>5 DEF Start, Stop
<1>7. \A n \in 1 .. EcUnitCount : FirstFree(n) \in SUBSET Channels
    BY FirstFreeIsFree
<1> QED
    <2>1. CASE \E p \in Peers : Disconnect(p)
        BY <1>2, <2>1 DEF Ownership!Next
    <2>2. CASE \E c \in Clients, n \in 1 .. EcUnitCount :
                    granted[c] = {} /\ SetChannels(c, n)
        <3>1. PICK c \in Clients, n \in 1 .. EcUnitCount :
                    granted[c] = {} /\ SetChannels(c, n)
            BY <2>2
        <3>2. PICK chs \in SUBSET Channels : Ownership!Grant(c, chs)
            <4>1. Ownership!Grant(c, FirstFree(n))
                BY <1>3, <3>1
            <4>2. FirstFree(n) \in SUBSET Channels
                BY <1>7
            <4> DEFINE sel == FirstFree(n)
            <4>3. Ownership!Grant(c, sel) /\ sel \in SUBSET Channels
                BY <4>1, <4>2
            <4> HIDE DEF sel
            <4> QED
                BY <4>3 DEF Ownership!Grant
        <3>3. Ownership!Next
            BY <3>1, <3>2 DEF Ownership!Next
        <3> QED
            BY <3>3
    <2>3. CASE \E c \in Clients : granted[c] # {} /\ FreeChannelsFromAClient(c)
        BY <1>4, <2>3 DEF Ownership!Next
    <2>4. CASE \E p \in Peers : Connect(p)
        BY <1>1, <2>4
    <2>5. CASE \E c \in Clients, ch \in Channels :
                    ch \in granted[c] /\ (Start(c, ch) \/ Stop(c, ch))
        BY <1>5, <2>5
    <2>6. CASE UNCHANGED secVars
        BY <2>6 DEF secVars
    <2>7. PoliteNext \/ UNCHANGED secVars
        OBVIOUS
    <2> QED
        BY <2>1, <2>2, <2>3, <2>4, <2>5, <2>6, <2>7 DEF PoliteNext

\* The service with its hashes and peer lists implements plain ownership.
THEOREM SecImplementsOwnership == SharedPeer => (PoliteSpec => ImplementsOwnership)
<1>1. ASSUME SharedPeer
      PROVE  PoliteInv /\ PoliteInv' /\ [PoliteNext]_secVars
                => [Ownership!Next]_([ch \in Channels |-> OwnerOf(ch)])
    BY <1>1, OwnershipStep
<1>2. ASSUME SharedPeer PROVE PoliteSpec => []PoliteInv
    BY <1>2, PoliteInvariant
<1>3. ASSUME SharedPeer PROVE PoliteSpec => ImplementsOwnership
    BY <1>1, <1>2, <1>3, OwnershipInit, PTL
       DEF PoliteSpec, ImplementsOwnership, Ownership!Spec
<1> QED
    BY <1>3

-----------------------------------------------------------------------------
(* SecServer: interrupts and notifications.                                 *)

TypeOK ==
    /\ m_notifierRegisterList \in Seq(Notify!Registration)
    /\ m_nValue \in [Channels -> SUBSET IntBits]
    /\ intReg \in [Channels -> SUBSET IntBits]
    /\ pipe \in Nat
    /\ ack \in {NoAck} \cup
           [channel : Channels, bits : SUBSET IntBits, reg : SUBSET IntBits]
    /\ prepared \in SUBSET Channels

\* A channel that can be started has an owner, which listens to it and has been
\* told of all that is latched; what runs was prepared.
PreparedIsHeard ==
    /\ \A ch \in prepared : \E c \in Clients : ch \in granted[c]
    /\ \A c \in Clients : \A ch \in granted[c] : Alive(c) /\ ch \in prepared =>
        /\ Listening(c, ch)
        /\ \A b \in m_nValue[ch] : <<c, ch, b>> \in told

RunningIsPrepared ==
    \A c \in Clients : \A ch \in granted[c] : Alive(c) /\ running[ch] => ch \in prepared

\* What the register of a channel holds when the handler on its way is done.
Settled(ch) ==
    IF ack # NoAck /\ ack.channel = ch THEN ack.reg \ ack.bits ELSE intReg[ch]

\* NothingUnseen, for channels that could be started, too, and in the middle of an
\* acknowledge.
NothingUnread ==
    pipe = 0 =>
        \A ch \in Channels : running[ch] \/ ch \in prepared =>
            Settled(ch) \subseteq m_nValue[ch]

ServerInv ==
    /\ PoliteInv
    /\ TypeOK
    /\ RegistrationsMatch
    /\ PreparedIsHeard
    /\ RunningIsPrepared
    /\ NothingUnread

-----------------------------------------------------------------------------
LEMMA NoAckIsNone ==
    ASSUME NEW a \in [channel : Channels, bits : SUBSET IntBits, reg : SUBSET IntBits]
    PROVE  a # NoAck
BY DEF NoAck

\* The steps of the service, seen from its channels.
LEMMA ServerIsPolite ==
    ASSUME [ServerNext]_serverVars
    PROVE  [PoliteNext]_secVars
<1>1. CASE UNCHANGED serverVars
    BY <1>1 DEF serverVars
<1>2. CASE DeviceNext
    BY <1>2 DEF DeviceNext, HwInterrupt, SECIntHandler, ResetInterruptWrite
<1>3. CASE StartPrepared
    BY <1>3 DEF StartPrepared, Starting, PoliteNext
<1>4. CASE ModuleNext
    BY <1>4 DEF ModuleNext, Connecting, PeerClosed, Setting, Registering,
       ResetInterruptRead, Stopping, QueryIntReg, Unregistering, Freeing, Release,
       PoliteNext
<1> QED
    BY <1>1, <1>2, <1>3, <1>4 DEF ServerNext

LEMMA OneOwner ==
    ASSUME PoliteInv, NEW c \in Clients, NEW d \in Clients, NEW ch \in granted[c],
           ch \in granted[d]
    PROVE  c = d
BY DEF PoliteInv, HolderIsOwner, Authorized

LEMMA FreeIsNobodys ==
    ASSUME PoliteInv, NEW ch \in FreeChannels
    PROVE  (\A c \in Clients : ch \notin granted[c]) /\ ~ running[ch]
BY DEF PoliteInv, HolderIsOwner, FreeIsStopped, FreeChannels, IsFree

-----------------------------------------------------------------------------
(* The list of registrations.                                              *)

LEMMA Registered ==
    ASSUME TypeOK, NEW i \in DOMAIN m_notifierRegisterList
    PROVE  /\ m_notifierRegisterList[i].client \in Clients
           /\ m_notifierRegisterList[i].notifier \in Channels
<1>1. m_notifierRegisterList[i] \in Notify!Registration
    BY DEF TypeOK
<1> QED
    BY <1>1 DEF Notify!Registration

LEMMA KeepList ==
    ASSUME m_notifierRegisterList \in Seq(Notify!Registration),
           NEW S \in SUBSET DOMAIN m_notifierRegisterList, Notify!Keep(S)
    PROVE  /\ m_notifierRegisterList' \in Seq(Notify!Registration)
           /\ \E index \in [DOMAIN m_notifierRegisterList' -> S] :
                /\ \A k \in DOMAIN m_notifierRegisterList' :
                      m_notifierRegisterList'[k] = m_notifierRegisterList[index[k]]
                /\ \A j, k \in DOMAIN m_notifierRegisterList' : j # k => index[j] # index[k]
                /\ \A i \in S : \E k \in DOMAIN m_notifierRegisterList' : index[k] = i
<1> DEFINE list == m_notifierRegisterList
<1>1. PICK n \in Nat : \E index \in [1 .. n -> S] :
        /\ \A j, k \in 1 .. n : j < k => index[j] < index[k]
        /\ \A i \in S : \E k \in 1 .. n : index[k] = i
        /\ list' = [k \in 1 .. n |-> list[index[k]]]
    <2>1. Len(list) \in Nat
        OBVIOUS
    <2>2. 0 .. Len(list) \subseteq Nat
        BY <2>1
    <2>3. PICK n \in 0 .. Len(list) : \E index \in [1 .. n -> S] :
            /\ \A j, k \in 1 .. n : j < k => index[j] < index[k]
            /\ \A i \in S : \E k \in 1 .. n : index[k] = i
            /\ list' = [k \in 1 .. n |-> list[index[k]]]
        BY DEF Notify!Keep
    <2> QED
        BY <2>2, <2>3
<1>2. PICK index \in [1 .. n -> S] :
        /\ \A j, k \in 1 .. n : j < k => index[j] < index[k]
        /\ \A i \in S : \E k \in 1 .. n : index[k] = i
        /\ list' = [k \in 1 .. n |-> list[index[k]]]
    BY <1>1
<1>3. \A k \in 1 .. n : index[k] \in S /\ index[k] \in Nat /\ list[index[k]] \in Notify!Registration
    OBVIOUS
<1>4. list' \in Seq(Notify!Registration) /\ DOMAIN list' = 1 .. n
    BY <1>1, <1>2, <1>3
<1>5. ASSUME NEW j \in 1 .. n, NEW k \in 1 .. n, j # k
      PROVE  index[j] # index[k]
    <2>1. j < k \/ k < j
        BY <1>5
    <2>2. index[j] < index[k] \/ index[k] < index[j]
        BY <1>2, <2>1
    <2>3. index[j] \in Nat /\ index[k] \in Nat
        BY <1>3
    <2> QED
        BY <2>2, <2>3
<1> QED
    BY <1>2, <1>4, <1>5

\* What doUnregisterNotifier leaves.
LEMMA Unregistered ==
    ASSUME m_notifierRegisterList \in Seq(Notify!Registration), RegistrationsMatch,
           NEW cs, Notify!DoUnregisterNotifier(cs)
    PROVE  /\ m_notifierRegisterList' \in Seq(Notify!Registration)
           /\ m_notifierRegisterNext' = <<>>
           /\ \A i, j \in DOMAIN m_notifierRegisterList' :
                 m_notifierRegisterList'[i] = m_notifierRegisterList'[j] => i = j
           /\ \A k \in DOMAIN m_notifierRegisterList' :
                 /\ m_notifierRegisterList'[k].client \notin cs
                 /\ \E i \in DOMAIN m_notifierRegisterList :
                        m_notifierRegisterList'[k] = m_notifierRegisterList[i]
           /\ \A c, ch : c \notin cs /\ Listening(c, ch) => Listening(c, ch)'
<1> DEFINE list == m_notifierRegisterList
           S == {i \in DOMAIN list : list[i].client \notin cs}
<1>1. Notify!Keep(S) /\ S \subseteq DOMAIN list
    BY DEF Notify!DoUnregisterNotifier
<1>2. /\ list' \in Seq(Notify!Registration)
      /\ \E index \in [DOMAIN list' -> S] :
           /\ \A k \in DOMAIN list' : list'[k] = list[index[k]]
           /\ \A j, k \in DOMAIN list' : j # k => index[j] # index[k]
           /\ \A i \in S : \E k \in DOMAIN list' : index[k] = i
    BY <1>1, KeepList
<1>3. PICK index \in [DOMAIN list' -> S] :
        /\ \A k \in DOMAIN list' : list'[k] = list[index[k]]
        /\ \A j, k \in DOMAIN list' : j # k => index[j] # index[k]
        /\ \A i \in S : \E k \in DOMAIN list' : index[k] = i
    BY <1>2
<1>4. m_notifierRegisterNext' = <<>>
    BY DEF Notify!DoUnregisterNotifier, RegistrationsMatch
<1>5. \A i, j \in DOMAIN list' : list'[i] = list'[j] => i = j
    BY <1>3 DEF RegistrationsMatch
<1>6. ASSUME NEW k \in DOMAIN list'
      PROVE  list'[k].client \notin cs /\ \E i \in DOMAIN list : list'[k] = list[i]
    BY <1>3
<1>7. ASSUME NEW c, NEW ch, c \notin cs, Listening(c, ch)
      PROVE  Listening(c, ch)'
    <2>1. PICK i \in DOMAIN list : list[i].client = c /\ list[i].notifier = ch
        BY <1>7 DEF Listening, ListenedTo
    <2>2. PICK k \in DOMAIN list' : index[k] = i
        BY <1>3, <1>7, <2>1
    <2>3. list'[k].client = c /\ list'[k].notifier = ch
        BY <1>3, <2>1, <2>2
    <2> QED
        BY <2>3 DEF Listening, ListenedTo
<1> QED
    BY <1>2, <1>4, <1>5, <1>6, <1>7

-----------------------------------------------------------------------------
LEMMA ServerInvInit ==
    ASSUME ServerInit
    PROVE  ServerInv
<1>1. PoliteInv
    BY PoliteInit DEF ServerInit
<1>2. m_notifierRegisterList = <<>> /\ m_notifierRegisterNext = <<>>
    BY DEF ServerInit, Notify!NotifyInit
<1>3. TypeOK
    BY <1>2 DEF ServerInit, Notify!NotifyInit, TypeOK
<1>4. RegistrationsMatch
    BY <1>2 DEF RegistrationsMatch
<1>5. \A c \in Clients : granted[c] = {}
    BY DEF ServerInit, SecInit
<1> QED
    BY <1>1, <1>3, <1>4, <1>5 DEF ServerInit, SecInit, ServerInv, PreparedIsHeard,
       RunningIsPrepared, NothingUnread, Settled

\* Steps of the channels that nobody who listens is concerned by: connecting,
\* taking free channels, starting what is prepared, stopping.
LEMMA Channels_Inv ==
    ASSUME ServerInv, PoliteInv', UNCHANGED <<notifyVars, deviceVars, clientVars>>,
           \A c \in Clients : \A ch \in granted'[c] : ch \in granted[c] \/ ch \in FreeChannels,
           \A c \in Clients : granted[c] \subseteq granted'[c],
           \A ch \in Channels : running'[ch] => running[ch] \/ ch \in prepared
    PROVE  ServerInv'
<1> USE DEF ServerInv
<1>1. UNCHANGED <<m_notifierRegisterNext, m_notifierRegisterList, m_nValue, intReg, pipe,
                  ack, gone, prepared, told>>
    BY DEF notifyVars, deviceVars, clientVars
<1>2. TypeOK'
    BY <1>1 DEF TypeOK
<1>3. ASSUME NEW i \in DOMAIN m_notifierRegisterList
      PROVE  m_notifierRegisterList[i].client \in Clients
    BY Registered
<1>4. RegistrationsMatch'
    BY <1>1, <1>3 DEF RegistrationsMatch, Alive
<1>5. \A ch \in FreeChannels : ch \notin prepared /\ ~ running[ch]
    BY FreeIsNobodys, SecAssumption DEF PreparedIsHeard
<1>6. \A c, ch : Listening(c, ch)' = Listening(c, ch)
    BY <1>1 DEF Listening, ListenedTo
<1>7. PreparedIsHeard'
    BY <1>1, <1>5, <1>6 DEF PreparedIsHeard, Alive
<1>8. \A c \in Clients : granted'[c] \subseteq Channels
    BY DEF PoliteInv, SecTypeOK
<1>9. RunningIsPrepared'
    BY <1>1, <1>5, <1>8 DEF RunningIsPrepared, Alive
<1>10. NothingUnread'
    BY <1>1 DEF NothingUnread, Settled
<1> QED
    BY <1>2, <1>4, <1>7, <1>9, <1>10

LEMMA Setting_Inv ==
    ASSUME ServerInv, PoliteInv', NEW c \in Clients, NEW n \in 1 .. EcUnitCount,
           Setting(c, n)
    PROVE  ServerInv'
<1>1. FirstFree(n) \subseteq FreeChannels
    BY FirstFreeIsFree
<1>2. /\ granted' = [granted EXCEPT ![c] = @ \cup FirstFree(n)]
      /\ UNCHANGED running
    BY DEF Setting, SetChannels
<1>3. granted \in [Clients -> SUBSET Channels]
    BY DEF ServerInv, PoliteInv, SecTypeOK
<1> QED
    BY <1>1, <1>2, <1>3, Channels_Inv DEF Setting

LEMMA StartStop_Inv ==
    ASSUME ServerInv, PoliteInv', NEW c \in Clients, NEW ch \in Channels,
           Stopping(c, ch) \/ (ch \in prepared /\ Starting(c, ch))
    PROVE  ServerInv'
<1>1. running \in [Channels -> BOOLEAN]
    BY DEF ServerInv, PoliteInv, SecTypeOK
<1>2. \A d \in Channels : running'[d] => running[d] \/ d \in prepared
    BY <1>1 DEF Stopping, Starting, Start, Stop
<1> QED
    BY <1>2, Channels_Inv DEF Stopping, Starting, Start, Stop

LEMMA Connecting_Inv ==
    ASSUME ServerInv, PoliteInv', NEW p \in Peers, Connecting(p)
    PROVE  ServerInv'
BY Channels_Inv DEF Connecting, Connect

-----------------------------------------------------------------------------
\* Steps that end the registrations of some clients: none of them is left with a
\* channel that could be started.
LEMMA Ending_Inv ==
    ASSUME ServerInv, PoliteInv', NEW cs,
           Notify!DoUnregisterNotifier(cs), UNCHANGED deviceVars,
           gone \subseteq gone', gone' \ gone \subseteq cs,
           {t \in told : t[1] \notin cs} \subseteq told',
           prepared' \subseteq prepared,
           \A c \in Clients : granted'[c] \subseteq granted[c],
           \A c \in Clients : c \notin cs =>
                granted'[c] = granted[c] /\ prepared' \cap granted[c] = prepared \cap granted[c],
           \A c \in Clients : c \in cs =>
                \/ c \in gone' /\ granted'[c] = granted[c]
                \/ prepared' \cap granted[c] = {} /\ \A ch \in granted'[c] : ~ running'[ch],
           \A ch \in Channels : running'[ch] => running[ch]
    PROVE  ServerInv'
<1> USE DEF ServerInv
<1> DEFINE list == m_notifierRegisterList
<1>1. UNCHANGED <<intReg, pipe, ack>>
    BY DEF deviceVars
<1>2. UNCHANGED m_nValue
    BY DEF Notify!DoUnregisterNotifier
<1>3. /\ list' \in Seq(Notify!Registration)
      /\ m_notifierRegisterNext' = <<>>
      /\ \A i, j \in DOMAIN list' : list'[i] = list'[j] => i = j
      /\ \A k \in DOMAIN list' :
            /\ list'[k].client \notin cs
            /\ \E i \in DOMAIN list : list'[k] = list[i]
      /\ \A c, ch : c \notin cs /\ Listening(c, ch) => Listening(c, ch)'
    BY Unregistered DEF TypeOK
<1>4. TypeOK'
    BY <1>1, <1>2, <1>3 DEF TypeOK
<1>5. RegistrationsMatch'
    <2>1. ASSUME NEW k \in DOMAIN list'
          PROVE  list'[k].notifier \in granted'[list'[k].client] /\ list'[k].client \notin gone'
        <3>1. PICK i \in DOMAIN list : list'[k] = list[i]
            BY <1>3
        <3>2. list[i].client \in Clients /\ list[i].client \notin cs
            BY <1>3, <3>1, Registered
        <3>3. list[i].notifier \in granted[list[i].client] /\ Alive(list[i].client)
            BY DEF RegistrationsMatch
        <3> QED
            BY <3>1, <3>2, <3>3 DEF Alive
    <2> QED
        BY <1>3, <2>1 DEF RegistrationsMatch, Alive
<1>6. PreparedIsHeard'
    <2>1. ASSUME NEW ch \in prepared'
          PROVE  \E c \in Clients : ch \in granted'[c]
        <3>1. PICK c \in Clients : ch \in granted[c]
            BY DEF PreparedIsHeard
        <3> QED
            BY <3>1
    <2>2. ASSUME NEW c \in Clients, NEW ch \in granted'[c], Alive(c)', ch \in prepared'
          PROVE  Listening(c, ch)' /\ \A b \in m_nValue'[ch] : <<c, ch, b>> \in told'
        <3>1. c \notin cs /\ ch \in granted[c] /\ ch \in prepared /\ Alive(c)
            BY <2>2 DEF Alive
        <3>2. Listening(c, ch) /\ \A b \in m_nValue[ch] : <<c, ch, b>> \in told
            BY <3>1 DEF PreparedIsHeard
        <3> QED
            BY <1>2, <1>3, <3>1, <3>2
    <2> QED
        BY <2>1, <2>2 DEF PreparedIsHeard
<1>7. RunningIsPrepared'
    <2> SUFFICES ASSUME NEW c \in Clients, NEW ch \in granted'[c], Alive(c)', running'[ch]
                 PROVE  ch \in prepared'
        BY DEF RunningIsPrepared
    <2>1. ch \in Channels /\ ch \in granted[c] /\ running[ch] /\ Alive(c)
        BY DEF PoliteInv, SecTypeOK, Alive
    <2>2. c \notin cs
        BY DEF Alive
    <2> QED
        BY <2>1, <2>2 DEF RunningIsPrepared
<1>8. NothingUnread'
    BY <1>1, <1>2 DEF NothingUnread, Settled
<1> QED
    BY <1>4, <1>5, <1>6, <1>7, <1>8

LEMMA Release_Inv ==
    ASSUME ServerInv, PoliteInv', NEW c \in Clients, Release(c)
    PROVE  ServerInv'
<1>1. {t \in told : t[1] \notin {c}} \subseteq told'
    BY DEF Release, Forget
<1>2. /\ gone' = gone \cup {c} /\ Notify!DoUnregisterNotifier({c})
      /\ UNCHANGED <<secVars, deviceVars, prepared>>
    BY DEF Release
<1>3. UNCHANGED <<granted, running>>
    BY <1>2 DEF secVars
<1> QED
    BY <1>1, <1>2, <1>3, Ending_Inv

LEMMA Unregistering_Inv ==
    ASSUME ServerInv, PoliteInv', NEW c \in Clients, Unregistering(c),
           \A ch \in granted[c] : ~ running[ch]
    PROVE  ServerInv'
<1>1. {t \in told : t[1] \notin {c}} \subseteq told'
    BY DEF Unregistering, Forget
<1>2. /\ Notify!DoUnregisterNotifier({c}) /\ prepared' = prepared \ granted[c]
      /\ UNCHANGED <<secVars, deviceVars, gone>>
    BY DEF Unregistering
<1>3. \A d \in Clients : d # c => granted[d] \cap granted[c] = {}
    BY OneOwner DEF ServerInv
<1> QED
    BY <1>1, <1>2, <1>3, Ending_Inv DEF secVars

LEMMA PeerClosed_Inv ==
    ASSUME ServerInv, PoliteInv', NEW p \in Peers, PeerClosed(p)
    PROVE  ServerInv'
<1> DEFINE cs == Notify!BehindPeer(p)
<1>1. cs = {c \in Clients : PeerOf[c] = p}
    BY DEF Notify!BehindPeer
<1>2. /\ Notify!DoUnregisterNotifier(cs) /\ told' = {t \in told : t[1] \notin cs}
      /\ prepared' = prepared \ UNION {granted[c] : c \in cs}
      /\ UNCHANGED <<deviceVars, gone>>
      /\ Disconnect(p)
    BY DEF PeerClosed
<1>3. \A c \in Clients : granted'[c] = IF c \in cs THEN {} ELSE granted[c]
    BY <1>1, <1>2 DEF Disconnect
<1>4. \A ch \in Channels : running'[ch] => running[ch]
    BY <1>2 DEF Disconnect, FreeThese
<1>5. \A d \in Clients : d \notin cs =>
        granted[d] \cap UNION {granted[c] : c \in cs} = {}
    BY <1>1, OneOwner DEF ServerInv
<1> HIDE DEF cs
<1>6. \A d \in Clients : d \notin cs => prepared' \cap granted[d] = prepared \cap granted[d]
    BY <1>2, <1>5
<1>7. \A d \in Clients : d \in cs => prepared' \cap granted[d] = {}
    BY <1>2
<1> QED
    BY <1>2, <1>3, <1>4, <1>6, <1>7, Ending_Inv

-----------------------------------------------------------------------------
LEMMA Freeing_Inv ==
    ASSUME ServerInv, PoliteInv', NEW c \in Clients, Freeing(c), ListenedTo(c) = {}
    PROVE  ServerInv'
<1> USE DEF ServerInv
<1>1. /\ granted' = [granted EXCEPT ![c] = {}]
      /\ \A ch \in Channels : running'[ch] => running[ch]
    BY DEF Freeing, FreeChannelsFromAClient, FreeThese
<1>2. /\ UNCHANGED <<m_notifierRegisterNext, m_notifierRegisterList, m_nValue, intReg, pipe,
                     ack, gone>>
      /\ prepared' = prepared \ granted[c]
      /\ told' = {t \in told : ~(t[1] = c /\ t[2] \in Channels)}
    BY DEF Freeing, notifyVars, deviceVars, Forget
<1>3. granted'[c] = {} /\ \A d \in Clients : d # c => granted'[d] = granted[d]
    BY <1>1 DEF PoliteInv, SecTypeOK
<1>4. \A d \in Clients : d # c => granted[d] \cap granted[c] = {}
    BY OneOwner
<1>5. TypeOK'
    BY <1>2 DEF TypeOK
<1>6. RegistrationsMatch'
    <2>1. ASSUME NEW i \in DOMAIN m_notifierRegisterList
          PROVE  m_notifierRegisterList[i].client \in Clients \ {c}
        BY Registered DEF ListenedTo
    <2> QED
        BY <1>2, <1>3, <2>1 DEF RegistrationsMatch, Alive
<1>7. PreparedIsHeard'
    <2>1. ASSUME NEW ch \in prepared'
          PROVE  \E d \in Clients : ch \in granted'[d]
        <3>1. PICK d \in Clients : ch \in granted[d]
            BY <1>2 DEF PreparedIsHeard
        <3> QED
            BY <1>2, <1>3, <3>1
    <2>2. ASSUME NEW d \in Clients, NEW ch \in granted'[d], Alive(d)', ch \in prepared'
          PROVE  Listening(d, ch)' /\ \A b \in m_nValue'[ch] : <<d, ch, b>> \in told'
        <3>1. d # c /\ ch \in granted[d] /\ ch \in prepared /\ Alive(d)
            BY <1>2, <1>3, <2>2 DEF Alive
        <3>2. Listening(d, ch) /\ \A b \in m_nValue[ch] : <<d, ch, b>> \in told
            BY <3>1 DEF PreparedIsHeard
        <3>3. Listening(d, ch)'
            BY <1>2, <3>2 DEF Listening, ListenedTo
        <3> QED
            BY <1>2, <3>1, <3>2, <3>3
    <2> QED
        BY <2>1, <2>2 DEF PreparedIsHeard
<1>8. RunningIsPrepared'
    <2> SUFFICES ASSUME NEW d \in Clients, NEW ch \in granted'[d], Alive(d)', running'[ch]
                 PROVE  ch \in prepared'
        BY DEF RunningIsPrepared
    <2>1. d # c /\ ch \in granted[d] /\ Alive(d) /\ ch \in Channels
        BY <1>2, <1>3 DEF Alive, PoliteInv, SecTypeOK
    <2> QED
        BY <1>1, <1>2, <1>4, <2>1 DEF RunningIsPrepared
<1>9. NothingUnread'
    BY <1>1, <1>2 DEF NothingUnread, Settled
<1> QED
    BY <1>5, <1>6, <1>7, <1>8, <1>9

LEMMA QueryIntReg_Inv ==
    ASSUME ServerInv, PoliteInv', NEW c \in Clients, NEW ch \in Channels, QueryIntReg(c, ch)
    PROVE  ServerInv'
<1>1. UNCHANGED <<secVars, m_notifierRegisterNext, m_notifierRegisterList, m_nValue,
                  deviceVars, clientVars>>
    BY DEF QueryIntReg, Notify!QueryNotifier, Notify!OnEstablishNewNotifier, ServerInv,
           RegistrationsMatch
<1> QED
    BY <1>1, Channels_Inv DEF notifyVars, secVars

LEMMA Registering_Inv ==
    ASSUME ServerInv, PoliteInv', NEW c \in Clients, NEW ch \in Channels,
           ch \in granted[c], ~ Listening(c, ch), Registering(c, ch)
    PROVE  ServerInv'
<1> USE DEF ServerInv
<1> DEFINE list == m_notifierRegisterList
           new == [client |-> c, notifier |-> ch]
<1>1. m_notifierRegisterNext' = <<>> /\ list' = Append(list, new)
    <2>1. m_notifierRegisterNext = <<>>
        BY DEF RegistrationsMatch
    <2>2. /\ Append(<<>>, c) # <<>> /\ Tail(Append(<<>>, c)) = <<>>
          /\ Head(Append(<<>>, c)) = c
        OBVIOUS
    <2>3. Notify!OnEstablishNewNotifier(Append(<<>>, c), ch)
        BY <2>1 DEF Registering, Notify!RegisterNotifier
    <2> QED
        BY <2>2, <2>3 DEF Notify!OnEstablishNewNotifier
<1>2. UNCHANGED <<secVars, m_nValue, intReg, pipe, ack, gone, prepared, told>> /\ Alive(c)
    BY DEF Registering, Notify!RegisterNotifier, deviceVars, clientVars
<1>3. /\ list' \in Seq(Notify!Registration) /\ Len(list) \in Nat
      /\ DOMAIN list = 1 .. Len(list) /\ DOMAIN list' = 1 .. Len(list) + 1
      /\ \A i \in DOMAIN list : list'[i] = list[i]
      /\ list'[Len(list) + 1] = new
    <2>1. new \in Notify!Registration /\ list \in Seq(Notify!Registration)
        BY DEF Notify!Registration, TypeOK
    <2> QED
        BY <1>1, <2>1
<1>4. TypeOK'
    BY <1>2, <1>3 DEF TypeOK
<1>5. \A i \in DOMAIN list : list[i] # new
    BY DEF Listening, ListenedTo
<1>6. RegistrationsMatch'
    <2>1. ASSUME NEW i \in DOMAIN list', NEW j \in DOMAIN list', list'[i] = list'[j]
          PROVE  i = j
        BY <1>3, <1>5, <2>1 DEF RegistrationsMatch
    <2>2. ASSUME NEW i \in DOMAIN list'
          PROVE  list'[i].notifier \in granted[list'[i].client] /\ list'[i].client \notin gone
        <3>1. CASE i \in DOMAIN list
            BY <1>3, <3>1 DEF RegistrationsMatch, Alive
        <3>2. CASE i = Len(list) + 1
            BY <1>2, <1>3, <3>2 DEF Alive
        <3> QED
            BY <1>3, <3>1, <3>2
    <2> QED
        BY <1>1, <1>2, <2>1, <2>2 DEF RegistrationsMatch, Alive, secVars
<1>7. \A d, k : Listening(d, k) => Listening(d, k)'
    <2> SUFFICES ASSUME NEW d, NEW k, Listening(d, k) PROVE Listening(d, k)'
        OBVIOUS
    <2>1. PICK i \in DOMAIN list : list[i].client = d /\ list[i].notifier = k
        BY DEF Listening, ListenedTo
    <2>2. i \in DOMAIN list' /\ list'[i] = list[i]
        BY <1>3
    <2> QED
        BY <2>1, <2>2 DEF Listening, ListenedTo
<1>8. PreparedIsHeard'
    BY <1>2, <1>7 DEF PreparedIsHeard, Alive, secVars
<1>9. RunningIsPrepared' /\ NothingUnread'
    BY <1>2 DEF RunningIsPrepared, NothingUnread, Settled, Alive, secVars
<1> QED
    BY <1>4, <1>6, <1>8, <1>9

-----------------------------------------------------------------------------
(* The interrupts.                                                         *)

LEMMA HwInterrupt_Inv ==
    ASSUME ServerInv, PoliteInv', NEW ch \in Channels, NEW b \in IntBits, HwInterrupt(ch, b)
    PROVE  ServerInv'
<1> USE DEF ServerInv
<1>1. UNCHANGED <<secVars, m_notifierRegisterNext, m_notifierRegisterList, m_nValue, ack,
                  gone, prepared, told>>
    BY DEF HwInterrupt, notifyVars, clientVars
<1>2. intReg' \in [Channels -> SUBSET IntBits]
    BY DEF HwInterrupt, TypeOK
<1>3. pipe' \in Nat /\ pipe' # 0
    BY SecServerAssumption DEF HwInterrupt, TypeOK
<1> QED
    BY <1>1, <1>2, <1>3 DEF secVars, TypeOK, RegistrationsMatch, PreparedIsHeard,
       RunningIsPrepared, NothingUnread, Alive, Listening, ListenedTo

LEMMA SECIntHandler_Inv ==
    ASSUME ServerInv, PoliteInv', SECIntHandler
    PROVE  ServerInv'
<1> USE DEF ServerInv
<1> DEFINE list == m_notifierRegisterList
<1>1. UNCHANGED <<secVars, m_notifierRegisterNext, m_notifierRegisterList, intReg, ack,
                  gone, prepared>>
    BY DEF SECIntHandler
<1>2. ack = NoAck /\ pipe' \in Nat
    BY DEF SECIntHandler, Idle, TypeOK
<1>3. m_nValue' = [ch \in Channels |-> m_nValue[ch] \cup intReg[ch]]
    BY DEF SECIntHandler, Notify!SetValues
<1>4. TypeOK'
    BY <1>1, <1>2, <1>3 DEF TypeOK
<1>5. RegistrationsMatch' /\ RunningIsPrepared'
    BY <1>1 DEF RegistrationsMatch, RunningIsPrepared, Alive, secVars
<1>6. NothingUnread'
    BY <1>1, <1>2, <1>3 DEF NothingUnread, Settled
<1>7. ASSUME NEW c \in Clients, NEW ch \in Channels, Listening(c, ch),
             NEW b \in m_nValue'[ch], b \notin m_nValue[ch]
      PROVE  <<c, ch, b>> \in told'
    <2>1. PICK i \in DOMAIN list : list[i].client = c /\ list[i].notifier = ch
        BY <1>7 DEF Listening, ListenedTo
    <2>2. b \in Notify!RisingEdge(intReg)[ch]
        BY <1>3, <1>7 DEF Notify!RisingEdge
    <2> DEFINE e == list[i]
    <2>3. <<e.client, e.notifier, b>> \in Notify!IrqsSent(intReg)
        <3>1. e \in {list[k] : k \in DOMAIN list}
            OBVIOUS
        <3>2. b \in Notify!RisingEdge(intReg)[e.notifier]
            BY <2>1, <2>2
        <3> HIDE DEF e
        <3> QED
            BY <3>1, <3>2 DEF Notify!IrqsSent
    <2> QED
        BY <2>1, <2>3 DEF SECIntHandler
<1>8. PreparedIsHeard'
    <2>1. told \subseteq told'
        BY DEF SECIntHandler
    <2>2. ASSUME NEW c \in Clients, NEW ch \in granted[c], Alive(c), ch \in prepared
          PROVE  Listening(c, ch) /\ \A b \in m_nValue'[ch] : <<c, ch, b>> \in told'
        <3>1. Listening(c, ch) /\ \A b \in m_nValue[ch] : <<c, ch, b>> \in told
            BY <2>2 DEF PreparedIsHeard
        <3>2. ch \in Channels
            BY DEF PoliteInv, SecTypeOK
        <3> QED
            BY <1>7, <2>1, <3>1, <3>2
    <2> QED
        BY <1>1, <2>2 DEF PreparedIsHeard, Alive, Listening, ListenedTo, secVars
<1> QED
    BY <1>4, <1>5, <1>6, <1>8

LEMMA ResetInterruptRead_Inv ==
    ASSUME ServerInv, PoliteInv', NEW c \in Clients, NEW ch \in Channels,
           NEW bits \in SUBSET IntBits, ch \in granted[c], ResetInterruptRead(c, ch, bits)
    PROVE  ServerInv'
<1> USE DEF ServerInv
<1>1. UNCHANGED <<secVars, m_notifierRegisterNext, m_notifierRegisterList, intReg, pipe,
                  gone>>
    BY DEF ResetInterruptRead
<1>2. /\ m_nValue' = [m_nValue EXCEPT ![ch] = @ \ bits]
      /\ ack = NoAck /\ ack' = [channel |-> ch, bits |-> bits, reg |-> intReg[ch]]
      /\ prepared' = IF ch \in ListenedTo(c) /\ bits = IntBits
                     THEN prepared \cup {ch} ELSE prepared
    BY DEF ResetInterruptRead, Notify!ClrValue, Idle
<1>3. /\ ack' # NoAck /\ ack'.channel = ch /\ ack'.bits = bits /\ ack'.reg = intReg[ch]
      /\ ack' \in [channel : Channels, bits : SUBSET IntBits, reg : SUBSET IntBits]
    BY <1>2, NoAckIsNone DEF TypeOK
<1>4. /\ m_nValue'[ch] = m_nValue[ch] \ bits
      /\ \A d \in Channels : d # ch => m_nValue'[d] = m_nValue[d]
    BY <1>2 DEF TypeOK
<1>5. TypeOK'
    BY <1>1, <1>2, <1>3 DEF TypeOK
<1>6. RegistrationsMatch' /\ RunningIsPrepared'
    BY <1>1, <1>2 DEF RegistrationsMatch, RunningIsPrepared, Alive, secVars
<1>7. PreparedIsHeard'
    <2>1. \A d \in prepared' : \E e \in Clients : d \in granted'[e]
        BY <1>1, <1>2 DEF PreparedIsHeard, secVars
    <2>2. ASSUME NEW e \in Clients, NEW d \in granted[e], Alive(e), d \in prepared'
          PROVE  Listening(e, d) /\ \A b \in m_nValue'[d] : <<e, d, b>> \in told'
        <3>1. told' = {t \in told : ~(t[1] = c /\ t[2] = ch /\ t[3] \in bits)}
            BY DEF ResetInterruptRead
        <3>2. d \in Channels
            BY DEF PoliteInv, SecTypeOK
        <3>3. CASE d \in prepared
            <4>1. Listening(e, d) /\ \A b \in m_nValue[d] : <<e, d, b>> \in told
                BY <2>2, <3>3 DEF PreparedIsHeard
            <4> QED
                BY <1>4, <3>1, <3>2, <4>1
        <3>4. CASE d = ch /\ d \notin prepared
            <4>1. e = c
                BY <3>4, OneOwner
            <4>2. ch \in ListenedTo(c) /\ bits = IntBits
                BY <1>2, <2>2, <3>4
            <4>3. m_nValue'[d] = {}
                BY <1>4, <3>4, <4>2 DEF TypeOK
            <4> QED
                BY <3>4, <4>1, <4>2, <4>3 DEF Listening
        <3> QED
            BY <1>2, <2>2, <3>3, <3>4
    <2> QED
        BY <1>1, <2>1, <2>2 DEF PreparedIsHeard, Alive, Listening, ListenedTo, secVars
<1>8. NothingUnread'
    <2> SUFFICES ASSUME pipe = 0, NEW d \in Channels, running[d] \/ d \in prepared'
                 PROVE  Settled(d)' \subseteq m_nValue'[d]
        BY <1>1 DEF NothingUnread, secVars
    <2>1. CASE d # ch
        <3>1. Settled(d)' = intReg[d] /\ Settled(d) = intReg[d]
            BY <1>1, <1>2, <1>3, <2>1 DEF Settled
        <3>2. running[d] \/ d \in prepared
            BY <1>2, <2>1
        <3> QED
            BY <1>4, <2>1, <3>1, <3>2 DEF NothingUnread
    <2>2. CASE d = ch
        <3>1. Settled(d)' = intReg[ch] \ bits /\ Settled(ch) = intReg[ch]
            BY <1>2, <1>3, <2>2 DEF Settled
        <3>2. CASE running[ch] \/ ch \in prepared
            BY <1>4, <2>2, <3>1, <3>2 DEF NothingUnread
        <3>3. CASE bits = IntBits
            BY <1>4, <2>2, <3>1, <3>3 DEF TypeOK
        <3> QED
            BY <1>2, <2>2, <3>2, <3>3
    <2> QED
        BY <2>1, <2>2
<1> QED
    BY <1>5, <1>6, <1>7, <1>8

LEMMA ResetInterruptWrite_Inv ==
    ASSUME ServerInv, PoliteInv', ResetInterruptWrite
    PROVE  ServerInv'
<1> USE DEF ServerInv
<1>1. UNCHANGED <<secVars, m_notifierRegisterNext, m_notifierRegisterList, m_nValue, pipe,
                  gone, prepared, told>>
    BY DEF ResetInterruptWrite, notifyVars, clientVars
<1>2. /\ ack # NoAck /\ ack' = NoAck
      /\ intReg' = [intReg EXCEPT ![ack.channel] = ack.reg \ ack.bits]
      /\ ack \in [channel : Channels, bits : SUBSET IntBits, reg : SUBSET IntBits]
    BY DEF ResetInterruptWrite, Idle, TypeOK
<1>3. TypeOK'
    BY <1>1, <1>2 DEF TypeOK
<1>4. \A ch \in Channels : Settled(ch)' = Settled(ch)
    BY <1>2 DEF Settled, TypeOK
<1>5. NothingUnread'
    BY <1>1, <1>4 DEF NothingUnread, secVars
<1> QED
    BY <1>1, <1>3, <1>5 DEF secVars, RegistrationsMatch, PreparedIsHeard,
       RunningIsPrepared, Alive, Listening, ListenedTo

-----------------------------------------------------------------------------
LEMMA ServerInvStep ==
    ASSUME SharedPeer, ServerInv, [ServerNext]_serverVars
    PROVE  ServerInv'
<1>1. PoliteInv'
    BY ServerIsPolite, PoliteStep DEF ServerInv
<1>2. CASE UNCHANGED serverVars
    BY <1>1, <1>2, Channels_Inv DEF serverVars, secVars
<1>3. CASE DeviceNext
    BY <1>1, <1>3, HwInterrupt_Inv, SECIntHandler_Inv, ResetInterruptWrite_Inv DEF DeviceNext
<1>4. CASE StartPrepared
    BY <1>1, <1>4, StartStop_Inv DEF StartPrepared
<1>5. CASE ModuleNext
    <2>1. ASSUME NEW p \in Peers, Connecting(p) \/ PeerClosed(p) PROVE ServerInv'
        BY <1>1, <2>1, Connecting_Inv, PeerClosed_Inv
    <2>2. ASSUME NEW c \in Clients, NEW n \in 1 .. EcUnitCount, Setting(c, n)
          PROVE  ServerInv'
        BY <1>1, <2>2, Setting_Inv
    <2>3. ASSUME NEW c \in Clients, NEW ch \in Channels, ch \in granted[c],
                 \/ ~ Listening(c, ch) /\ Registering(c, ch)
                 \/ Stopping(c, ch)
                 \/ QueryIntReg(c, ch)
          PROVE  ServerInv'
        BY <1>1, <2>3, Registering_Inv, StartStop_Inv, QueryIntReg_Inv
    <2>4. ASSUME NEW c \in Clients, NEW ch \in Channels, NEW bits \in SUBSET IntBits,
                 ch \in granted[c], ResetInterruptRead(c, ch, bits)
          PROVE  ServerInv'
        BY <1>1, <2>4, ResetInterruptRead_Inv
    <2>5. ASSUME NEW c \in Clients, \A ch \in granted[c] : ~ running[ch], Unregistering(c)
          PROVE  ServerInv'
        BY <1>1, <2>5, Unregistering_Inv
    <2>6. ASSUME NEW c \in Clients, ListenedTo(c) = {}, Freeing(c)
          PROVE  ServerInv'
        BY <1>1, <2>6, Freeing_Inv
    <2>7. ASSUME NEW c \in Clients, Release(c)
          PROVE  ServerInv'
        BY <1>1, <2>7, Release_Inv
    <2> QED
        BY <1>5, <2>1, <2>2, <2>3, <2>4, <2>5, <2>6, <2>7 DEF ModuleNext
<1> QED
    BY <1>2, <1>3, <1>4, <1>5 DEF ServerNext

\* The invariant holds in every state, when the clients share a connection.
THEOREM ServerInvariant == SharedPeer => (ServerSpec => []ServerInv)
<1>1. ASSUME SharedPeer PROVE ServerInv /\ [ServerNext]_serverVars => ServerInv'
    BY <1>1, ServerInvStep
<1>2. ASSUME SharedPeer PROVE ServerSpec => []ServerInv
    BY <1>1, <1>2, ServerInvInit, PTL DEF ServerSpec
<1> QED
    BY <1>2

\* Every registration belongs to the owner of its channel, once, and no client
\* waits for a notifier that another one gets.
THEOREM SecRegistrationsMatch == SharedPeer => (ServerSpec => []RegistrationsMatch)
<1>1. ServerInv => RegistrationsMatch
    BY DEF ServerInv
<1> QED
    BY <1>1, ServerInvariant, PTL

\* No bit of a running channel stays latched without its owner having been told.
THEOREM SecLatchedIsTold == SharedPeer => (ServerSpec => []LatchedIsTold)
<1>1. ServerInv => LatchedIsTold
    BY DEF ServerInv, LatchedIsTold, PreparedIsHeard, RunningIsPrepared
<1> QED
    BY <1>1, ServerInvariant, PTL

\* One wake-up of the interrupt handler serves all channels, however many bytes the
\* pipe has lost.
THEOREM SecNothingUnseen == SharedPeer => (ServerSpec => []NothingUnseen)
<1>1. ServerInv => NothingUnseen
    BY DEF ServerInv, NothingUnread, NothingUnseen, Settled, Idle
<1> QED
    BY <1>1, ServerInvariant, PTL

=============================================================================
