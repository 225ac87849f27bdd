------------------------ MODULE ServiceClientsProofs ------------------------
(***************************************************************************)
(* Proofs about Proxy, for any clients, services and peers, and about the  *)
(* clients, their messages and the service that ServiceClients adds.       *)
(***************************************************************************)
EXTENDS ServiceClients, FiniteSetTheorems, TLAPS

-----------------------------------------------------------------------------
(* Proxy: the connections.                                                  *)

\* What the properties of Proxy need to be inductive: a client works on a peer that
\* has been constructed, and a client that is not in the hash has been told nothing
\* and has asked for nothing, so that nothing of a former life is left when it
\* comes.
UnusedPeersAreFree ==
    \A p \in NetPeers : m_peerState[p] = "unused" =>
        ClientsConnectedToPeer(p) = {} /\ p \notin deletedLater

AbsentClientsAreBlank ==
    /\ startRequested \subseteq Living
    /\ Living \subseteq uuids
    /\ \A c \in ProxyClients \ Living : told[c] = "nothing"

ProxyInv ==
    /\ ProxyTypeOK
    /\ ToldTheTruth
    /\ PeersServeClients
    /\ OneConnectionPerService
    /\ UnusedPeersAreFree
    /\ AbsentClientsAreBlank

-----------------------------------------------------------------------------
LEMMA PeerOfLiving ==
    ASSUME ProxyTypeOK, NEW c \in Living
    PROVE  c \in ProxyClients /\ m_ConnectionHash[c] \in NetPeers
BY DEF ProxyTypeOK, Living

LEMMA NewPeer_Unused ==
    ASSUME ProxyAssumption, NewPeer # NoPeer
    PROVE  NewPeer \in NetPeers /\ m_peerState[NewPeer] = "unused"
<1> DEFINE U == {p \in NetPeers : m_peerState[p] = "unused"}
<1>1. U # {}
    BY DEF NewPeer
<1>2. NewPeer = CHOOSE p \in U : TRUE
    BY <1>1 DEF NewPeer
<1>3. (CHOOSE p \in U : TRUE) \in U
    BY <1>1
<1> QED
    BY <1>2, <1>3

-----------------------------------------------------------------------------
LEMMA ProxyInvInit == ASSUME ProxyAssumption, ProxyInit PROVE ProxyInv
BY DEF ProxyAssumption, ProxyInit, ProxyInv, ProxyTypeOK, ToldTheTruth, PeersServeClients,
       OneConnectionPerService, UnusedPeersAreFree, AbsentClientsAreBlank,
       Living, ClientsConnectedToPeer, PeerStates

LEMMA Shared_Inv ==
    ASSUME ProxyAssumption, ProxyInv, NEW c \in ProxyClients, GetConnectionSmart(c),
           SearchConnection(c) # {}
    PROVE  ProxyInv'
<1> USE DEF ProxyInv
<1>1. PICK p \in SearchConnection(c) :
            m_ConnectionHash' = [m_ConnectionHash EXCEPT ![c] = p]
    BY DEF GetConnectionSmart
<1>2. PICK e \in Living : p = m_ConnectionHash[e] /\ AddressOf[e] = AddressOf[c]
    BY DEF SearchConnection
<1>3. p \in NetPeers /\ p # NoPeer
    BY <1>2, PeerOfLiving DEF ProxyAssumption
<1>4. c \notin Living /\ c \notin startRequested /\ told[c] = "nothing"
    BY DEF AbsentClientsAreBlank, GetConnectionSmart
<1>5. UNCHANGED <<m_peerState, deletedLater, serverSees, startRequested, told>>
    BY DEF GetConnectionSmart
<1>6. Living' = Living \cup {c}
    BY <1>1, <1>3 DEF Living, ProxyTypeOK
<1>7. /\ m_ConnectionHash'[c] = p
      /\ \A d \in Living : m_ConnectionHash'[d] = m_ConnectionHash[d]
    BY <1>1, <1>4 DEF ProxyTypeOK
<1>8. ProxyTypeOK'
    BY <1>1, <1>3, <1>5 DEF ProxyTypeOK, GetConnectionSmart
<1>9. ToldTheTruth'
    BY <1>4, <1>5, <1>6, <1>7 DEF ToldTheTruth
<1>10. ClientsConnectedToPeer(p) # {}
    BY <1>2 DEF ClientsConnectedToPeer, Living
<1>11. \A q \in NetPeers : ClientsConnectedToPeer(q)' =
            IF q = p THEN ClientsConnectedToPeer(q) \cup {c} ELSE ClientsConnectedToPeer(q)
    BY <1>1, <1>3, <1>4 DEF ClientsConnectedToPeer, ProxyTypeOK, Living, ProxyAssumption
<1>12. PeersServeClients'
    BY <1>5, <1>10, <1>11 DEF PeersServeClients
<1>13. UnusedPeersAreFree'
    BY <1>5, <1>10, <1>11 DEF UnusedPeersAreFree
<1>14. AbsentClientsAreBlank'
    BY <1>5, <1>6 DEF AbsentClientsAreBlank, GetConnectionSmart
<1>15. OneConnectionPerService'
    <2>1. \A d \in Living : (m_ConnectionHash[d] = p) <=> (AddressOf[d] = AddressOf[c])
        BY <1>2 DEF OneConnectionPerService
    <2> QED
        BY <1>6, <1>7, <2>1 DEF OneConnectionPerService
<1> QED
    BY <1>8, <1>9, <1>12, <1>13, <1>14, <1>15

LEMMA Alone_Inv ==
    ASSUME ProxyAssumption, ProxyInv, NEW c \in ProxyClients, GetConnectionSmart(c),
           SearchConnection(c) = {}
    PROVE  ProxyInv'
<1> USE DEF ProxyInv
<1> DEFINE p == NewPeer
<1>1. /\ NewPeer # NoPeer
      /\ m_ConnectionHash' = [m_ConnectionHash EXCEPT ![c] = NewPeer]
      /\ m_peerState' = [m_peerState EXCEPT ![NewPeer] = "idle"]
    BY DEF GetConnectionSmart
<1>2. p \in NetPeers /\ p # NoPeer /\ m_peerState[p] = "unused"
    BY <1>1, NewPeer_Unused
<1> HIDE DEF p
<1>3. /\ m_ConnectionHash' = [m_ConnectionHash EXCEPT ![c] = p]
      /\ m_peerState' = [m_peerState EXCEPT ![p] = "idle"]
    BY <1>1 DEF p
<1>4. c \notin Living /\ c \notin startRequested /\ told[c] = "nothing"
    BY DEF AbsentClientsAreBlank, GetConnectionSmart
<1>5. UNCHANGED <<deletedLater, serverSees, startRequested, told>>
    BY DEF GetConnectionSmart
<1>6. Living' = Living \cup {c}
    BY <1>2, <1>3 DEF Living, ProxyTypeOK
<1>7. /\ m_ConnectionHash'[c] = p
      /\ \A d \in Living : m_ConnectionHash'[d] = m_ConnectionHash[d]
    BY <1>3, <1>4 DEF ProxyTypeOK
<1>8. ClientsConnectedToPeer(p) = {} /\ p \notin deletedLater
    BY <1>2 DEF UnusedPeersAreFree
<1>9. \A d \in Living : m_ConnectionHash[d] # p
    BY <1>8 DEF ClientsConnectedToPeer, Living
<1>10. /\ m_peerState'[p] = "idle"
       /\ \A q \in NetPeers : q # p => m_peerState'[q] = m_peerState[q]
    BY <1>2, <1>3 DEF ProxyTypeOK
<1>11. ProxyTypeOK'
    BY <1>2, <1>3, <1>5 DEF ProxyTypeOK, GetConnectionSmart, PeerStates
<1>12. ToldTheTruth'
    <2>1. ASSUME NEW d \in Living
          PROVE  m_peerState'[m_ConnectionHash'[d]] = m_peerState[m_ConnectionHash[d]]
        BY <1>7, <1>9, <1>10, PeerOfLiving
    <2>2. m_peerState'[m_ConnectionHash'[c]] = "idle"
        BY <1>7, <1>10
    <2> QED
        BY <1>4, <1>5, <1>6, <2>1, <2>2 DEF ToldTheTruth
<1>13. \A q \in NetPeers : ClientsConnectedToPeer(q)' =
            IF q = p THEN {c} ELSE ClientsConnectedToPeer(q)
    BY <1>2, <1>3, <1>4, <1>8 DEF ClientsConnectedToPeer, ProxyTypeOK, Living, ProxyAssumption
<1>14. PeersServeClients'
    BY <1>5, <1>8, <1>10, <1>13 DEF PeersServeClients
<1>15. UnusedPeersAreFree'
    BY <1>5, <1>10, <1>13 DEF UnusedPeersAreFree
<1>16. AbsentClientsAreBlank'
    BY <1>5, <1>6 DEF AbsentClientsAreBlank, GetConnectionSmart
<1>17. OneConnectionPerService'
    <2>1. \A d \in Living : AddressOf[d] # AddressOf[c]
        BY DEF SearchConnection
    <2> QED
        BY <1>6, <1>7, <1>9, <2>1 DEF OneConnectionPerService
<1> QED
    BY <1>11, <1>12, <1>14, <1>15, <1>16, <1>17

\* The hash, and with it who lives where, stays.
LEMMA SameHash ==
    ASSUME UNCHANGED m_ConnectionHash
    PROVE  /\ Living' = Living
           /\ \A p : ClientsConnectedToPeer(p)' = ClientsConnectedToPeer(p)
           /\ OneConnectionPerService => OneConnectionPerService'
BY DEF Living, ClientsConnectedToPeer, OneConnectionPerService

LEMMA Start_Inv ==
    ASSUME ProxyAssumption, ProxyInv, NEW c \in ProxyClients, StartConnectionSmart(c)
    PROVE  ProxyInv'
<1> USE DEF ProxyInv
<1> DEFINE p == m_ConnectionHash[c]
<1>1. p \in NetPeers /\ c \in Living
    BY PeerOfLiving DEF StartConnectionSmart
<1>2. /\ m_peerState' = [m_peerState EXCEPT ![p] = IF @ = "idle" THEN "connecting" ELSE @]
      /\ told' = [told EXCEPT ![c] = IF m_peerState[p] = "open" THEN "connected" ELSE @]
      /\ startRequested' = startRequested \cup {c}
      /\ UNCHANGED <<m_ConnectionHash, uuids, deletedLater, serverSees>>
    BY DEF StartConnectionSmart
<1>3. \A q \in NetPeers : \/ m_peerState'[q] = m_peerState[q]
                          \/ m_peerState[q] = "idle" /\ m_peerState'[q] = "connecting"
    BY <1>1, <1>2 DEF ProxyTypeOK
<1>4. /\ told'[c] = IF m_peerState[p] = "open" THEN "connected" ELSE told[c]
      /\ \A d \in ProxyClients : d # c => told'[d] = told[d]
    BY <1>2 DEF ProxyTypeOK
<1>5. ProxyTypeOK'
    <2>1. m_peerState' \in [NetPeers -> PeerStates]
        BY <1>1, <1>2 DEF ProxyTypeOK, PeerStates
    <2>2. told' \in [ProxyClients -> {"nothing", "connected", "disconnected", "error"}]
        BY <1>2 DEF ProxyTypeOK
    <2> QED
        BY <2>1, <2>2, <1>2 DEF ProxyTypeOK
<1>6. ToldTheTruth'
    <2> SUFFICES ASSUME NEW d \in Living
                 PROVE  LET state == m_peerState'[m_ConnectionHash[d]]
                        IN  /\ told'[d] = "connected" => state = "open"
                            /\ state = "open" /\ d \in startRequested' => told'[d] = "connected"
                            /\ told'[d] = "disconnected" => state = "closed"
                            /\ told'[d] = "error" => state = "failed"
        BY <1>2, SameHash DEF ToldTheTruth
    <2>1. m_ConnectionHash[d] \in NetPeers /\ d \in ProxyClients
        BY PeerOfLiving
    <2>2. CASE d = c
        BY <2>1, <2>2, <1>3, <1>4 DEF ToldTheTruth
    <2>3. CASE d # c
        BY <2>1, <2>3, <1>2, <1>3, <1>4 DEF ToldTheTruth
    <2> QED
        BY <2>2, <2>3
<1>7. PeersServeClients' /\ UnusedPeersAreFree'
    BY <1>2, <1>3, SameHash DEF PeersServeClients, UnusedPeersAreFree
<1>8. AbsentClientsAreBlank'
    BY <1>1, <1>2, <1>4, SameHash DEF AbsentClientsAreBlank
<1> QED
    BY <1>2, <1>5, <1>6, <1>7, <1>8, SameHash

LEMMA Release_Inv ==
    ASSUME ProxyAssumption, ProxyInv, NEW c \in ProxyClients, ReleaseConnection(c)
    PROVE  ProxyInv'
<1> USE DEF ProxyInv
<1>0. PICK p : p = m_ConnectionHash[c]
    OBVIOUS
<1>1. p \in NetPeers /\ c \in Living
    BY <1>0, PeerOfLiving DEF ReleaseConnection
<1>2. /\ m_ConnectionHash' = [m_ConnectionHash EXCEPT ![c] = NoPeer]
      /\ deletedLater' = deletedLater \cup DeletePeerOnAllClientsGone(p, {c})
      /\ startRequested' = startRequested \ {c}
      /\ told' = [told EXCEPT ![c] = "nothing"]
      /\ UNCHANGED <<uuids, m_peerState, serverSees>>
    BY <1>0 DEF ReleaseConnection
<1>3. Living' = Living \ {c}
    BY <1>2 DEF Living, ProxyTypeOK
<1>4. \A d \in Living \ {c} : /\ m_ConnectionHash'[d] = m_ConnectionHash[d]
                              /\ told'[d] = told[d]
    BY <1>2, PeerOfLiving DEF ProxyTypeOK
<1>5. \A q \in NetPeers : ClientsConnectedToPeer(q)' = ClientsConnectedToPeer(q) \ {c}
    BY <1>0, <1>2 DEF ClientsConnectedToPeer, ProxyTypeOK, ProxyAssumption
<1>6. deletedLater' = deletedLater \cup
                        (IF ClientsConnectedToPeer(p)' = {} THEN {p} ELSE {})
    BY <1>1, <1>2, <1>5 DEF DeletePeerOnAllClientsGone
<1>7. \A q \in NetPeers : q # p => ClientsConnectedToPeer(q)' = ClientsConnectedToPeer(q)
    BY <1>0, <1>5 DEF ClientsConnectedToPeer
<1>8. ProxyTypeOK'
    <2>1. deletedLater' \subseteq NetPeers
        BY <1>1, <1>6 DEF ProxyTypeOK
    <2>2. told' \in [ProxyClients -> {"nothing", "connected", "disconnected", "error"}]
        BY <1>2 DEF ProxyTypeOK
    <2> QED
        BY <1>2, <2>1, <2>2 DEF ProxyTypeOK
<1>9. ToldTheTruth'
    BY <1>2, <1>3, <1>4 DEF ToldTheTruth
<1>10. PeersServeClients'
    <2> SUFFICES ASSUME NEW q \in NetPeers
                 PROVE  /\ q \in deletedLater' => ClientsConnectedToPeer(q)' = {}
                        /\ m_peerState[q] = "deleted" => q \in deletedLater'
                        /\ m_peerState[q] # "unused" =>
                              q \in deletedLater' \/ ClientsConnectedToPeer(q)' # {}
        BY <1>2 DEF PeersServeClients
    <2>1. CASE q = p
        BY <2>1, <1>5, <1>6 DEF PeersServeClients
    <2>2. CASE q # p
        BY <2>2, <1>6, <1>7 DEF PeersServeClients
    <2> QED
        BY <2>1, <2>2
<1>11. UnusedPeersAreFree'
    <2>1. m_peerState[p] # "unused"
        BY <1>0, <1>1 DEF UnusedPeersAreFree, ClientsConnectedToPeer
    <2> QED
        BY <2>1, <1>2, <1>6, <1>7 DEF UnusedPeersAreFree
<1>12. AbsentClientsAreBlank'
    BY <1>2, <1>3 DEF AbsentClientsAreBlank, ProxyTypeOK
<1>13. OneConnectionPerService'
    BY <1>3, <1>4 DEF OneConnectionPerService
<1> QED
    BY <1>8, <1>9, <1>10, <1>11, <1>12, <1>13

\* What Established, Refused and ConnectionClosed have in common: one peer gets a
\* new state, and its clients are told so.
LEMMA Signal_Inv ==
    ASSUME ProxyAssumption, ProxyInv, NEW p \in NetPeers, NEW s, NEW signal,
           \/ s = "open" /\ signal = "connected"
           \/ s = "failed" /\ signal = "error"
           \/ s = "closed" /\ signal = "disconnected",
           m_peerState[p] \in {"connecting", "open"},
           m_peerState' = [m_peerState EXCEPT ![p] = s],
           Signal(p, signal),
           serverSees' \subseteq NetPeers,
           UNCHANGED <<m_ConnectionHash, uuids, deletedLater, startRequested>>
    PROVE  ProxyInv'
<1> USE DEF ProxyInv
<1>1. /\ m_peerState'[p] = s
      /\ \A q \in NetPeers : q # p => m_peerState'[q] = m_peerState[q]
    BY DEF ProxyTypeOK
<1>2. /\ \A d \in ClientsConnectedToPeer(p) : told'[d] = signal
      /\ \A d \in ProxyClients \ ClientsConnectedToPeer(p) : told'[d] = told[d]
    BY DEF Signal, ClientsConnectedToPeer
<1>3. ProxyTypeOK'
    <2>1. told' \in [ProxyClients -> {"nothing", "connected", "disconnected", "error"}]
        BY DEF Signal, ProxyTypeOK
    <2> QED
        BY <2>1 DEF ProxyTypeOK, PeerStates
<1>4. ToldTheTruth'
    <2> SUFFICES ASSUME NEW d \in Living
                 PROVE  LET state == m_peerState'[m_ConnectionHash[d]]
                        IN  /\ told'[d] = "connected" => state = "open"
                            /\ state = "open" /\ d \in startRequested => told'[d] = "connected"
                            /\ told'[d] = "disconnected" => state = "closed"
                            /\ told'[d] = "error" => state = "failed"
        BY SameHash DEF ToldTheTruth
    <2>1. m_ConnectionHash[d] \in NetPeers /\ d \in ProxyClients
        BY PeerOfLiving
    <2>2. CASE m_ConnectionHash[d] = p
        BY <1>1, <1>2, <2>1, <2>2 DEF ClientsConnectedToPeer
    <2>3. CASE m_ConnectionHash[d] # p
        BY <1>1, <1>2, <2>1, <2>3 DEF ClientsConnectedToPeer, ToldTheTruth
    <2> QED
        BY <2>2, <2>3
<1>5. PeersServeClients'
    BY <1>1, SameHash DEF PeersServeClients
<1>6. UnusedPeersAreFree'
    BY <1>1, SameHash DEF UnusedPeersAreFree
<1>7. AbsentClientsAreBlank'
    BY <1>2, SameHash DEF AbsentClientsAreBlank, ClientsConnectedToPeer, Living,
                          ProxyAssumption
<1> QED
    BY <1>3, <1>4, <1>5, <1>6, <1>7, SameHash

LEMMA DeletePeer_Inv ==
    ASSUME ProxyAssumption, ProxyInv, NEW p \in NetPeers, DeletePeer(p)
    PROVE  ProxyInv'
<1> USE DEF ProxyInv
<1>1. /\ m_peerState'[p] = "deleted" /\ p \in deletedLater
      /\ \A q \in NetPeers : q # p => m_peerState'[q] = m_peerState[q]
      /\ UNCHANGED <<m_ConnectionHash, uuids, deletedLater, serverSees,
                     startRequested, told>>
    BY DEF DeletePeer, ProxyTypeOK
<1>2. ClientsConnectedToPeer(p) = {}
    BY <1>1 DEF PeersServeClients
<1>3. ProxyTypeOK'
    BY DEF DeletePeer, ProxyTypeOK, PeerStates
<1>4. \A d \in Living : m_peerState'[m_ConnectionHash[d]] = m_peerState[m_ConnectionHash[d]]
    BY <1>1, <1>2, PeerOfLiving DEF ClientsConnectedToPeer
<1>5. ToldTheTruth'
    BY <1>1, <1>4, SameHash DEF ToldTheTruth
<1>6. PeersServeClients' /\ UnusedPeersAreFree'
    BY <1>1, SameHash DEF PeersServeClients, UnusedPeersAreFree
<1>7. AbsentClientsAreBlank'
    BY <1>1, SameHash DEF AbsentClientsAreBlank
<1> QED
    BY <1>1, <1>3, <1>5, <1>6, <1>7, SameHash

LEMMA ServerLosesPeer_Inv ==
    ASSUME ProxyAssumption, ProxyInv, NEW p \in NetPeers, ServerLosesPeer(p)
    PROVE  ProxyInv'
<1> USE DEF ProxyInv
<1>1. /\ serverSees' \subseteq NetPeers
      /\ UNCHANGED <<m_ConnectionHash, uuids, m_peerState, deletedLater,
                     startRequested, told>>
    BY DEF ServerLosesPeer, ProxyTypeOK
<1> QED
    BY <1>1, SameHash DEF ProxyTypeOK, ToldTheTruth, PeersServeClients, UnusedPeersAreFree,
                AbsentClientsAreBlank

LEMMA ProxyInvStep == ASSUME ProxyAssumption, ProxyInv, [ProxyNext]_proxyVars PROVE ProxyInv'
<1>1. ASSUME NEW c \in ProxyClients, GetConnectionSmart(c) PROVE ProxyInv'
    BY <1>1, Shared_Inv, Alone_Inv
<1>2. ASSUME NEW c \in ProxyClients, StartConnectionSmart(c) PROVE ProxyInv'
    BY <1>2, Start_Inv
<1>3. ASSUME NEW c \in ProxyClients, ReleaseConnection(c) PROVE ProxyInv'
    BY <1>3, Release_Inv
<1>4. ASSUME NEW p \in NetPeers, DeletePeer(p) PROVE ProxyInv'
    BY <1>4, DeletePeer_Inv
<1>5. ASSUME NEW p \in NetPeers, Established(p) PROVE ProxyInv'
    <2>1. serverSees' \subseteq NetPeers
        BY <1>5 DEF Established, ProxyInv, ProxyTypeOK
    <2> QED
        BY <1>5, <2>1, Signal_Inv DEF Established
<1>6. ASSUME NEW p \in NetPeers, Refused(p) PROVE ProxyInv'
    <2>1. serverSees' \subseteq NetPeers
        BY <1>6 DEF Refused, ProxyInv, ProxyTypeOK
    <2> QED
        BY <1>6, <2>1, Signal_Inv DEF Refused
<1>7. ASSUME NEW p \in NetPeers, ConnectionClosed(p) PROVE ProxyInv'
    <2>1. serverSees' \subseteq NetPeers
        BY <1>7 DEF ConnectionClosed, ProxyInv, ProxyTypeOK
    <2> QED
        BY <1>7, <2>1, Signal_Inv DEF ConnectionClosed
<1>8. ASSUME NEW p \in NetPeers, ServerLosesPeer(p) PROVE ProxyInv'
    BY <1>8, ServerLosesPeer_Inv
<1>9. ASSUME UNCHANGED proxyVars PROVE ProxyInv'
    BY <1>9, SameHash DEF ProxyInv, proxyVars, ProxyTypeOK, ToldTheTruth, PeersServeClients,
                UnusedPeersAreFree, AbsentClientsAreBlank
<1> QED
    BY <1>1, <1>2, <1>3, <1>4, <1>5, <1>6, <1>7, <1>8, <1>9 DEF ProxyNext

-----------------------------------------------------------------------------
LEMMA ProxyInvAlways == ProxySpec => []ProxyInv
<1> USE ProxyAssumption
<1>1. ProxyInit => ProxyInv
    BY ProxyInvInit
<1>2. ProxyInv /\ [ProxyNext]_proxyVars => ProxyInv'
    BY ProxyInvStep
<1> QED
    BY <1>1, <1>2, PTL DEF ProxySpec

\* The proxy's bookkeeping keeps its shape, whatever connections do.
THEOREM ProxyTypeCorrect == ProxySpec => []ProxyTypeOK
<1>1. ProxyInv => ProxyTypeOK
    BY DEF ProxyInv
<1> QED
    BY <1>1, ProxyInvAlways, PTL

\* The signals of the proxy say the truth about the connection, for any number of
\* clients that share it, join it late or leave.
THEOREM SignalsAreTrue == ProxySpec => []ToldTheTruth
<1>1. ProxyInv => ToldTheTruth
    BY DEF ProxyInv
<1> QED
    BY <1>1, ProxyInvAlways, PTL

\* deletePeerOnAllClientsGone deletes no peer too early and forgets none.
THEOREM PeersLiveAsLongAsNeeded == ProxySpec => []PeersServeClients
<1>1. ProxyInv => PeersServeClients
    BY DEF ProxyInv
<1> QED
    BY <1>1, ProxyInvAlways, PTL

\* Two clients share a connection exactly when they are meant for one service.
THEOREM ConnectionsAreShared == ProxySpec => []OneConnectionPerService
<1>1. ProxyInv => OneConnectionPerService
    BY DEF ProxyInv
<1> QED
    BY <1>1, ProxyInvAlways, PTL

-----------------------------------------------------------------------------
(* ServiceClients: what is true of Proxy is true of the whole.              *)

LEMMA StepsOfProxy == ASSUME [Next]_vars PROVE [ProxyNext]_proxyVars
<1>1. ASSUME NEW c \in ProxyClients, Process(c) PROVE [ProxyNext]_proxyVars
    <2>1. CASE Connect(c) \/ StartConnection(c) \/ Release(c)
        BY <2>1 DEF Connect, StartConnection, Release, ProxyNext
    <2>2. ASSUME NEW call, NEW n, NEW text, SendCommand(c, call, n, text)
          PROVE  UNCHANGED proxyVars
        BY <2>2 DEF SendCommand
    <2>3. CASE Ask(c) \/ SetRange(c) \/ RegisterNotifier(c) \/ UnregisterNotifiers(c)
               \/ Read(c)
        BY <2>2, <2>3 DEF Ask, SetRange, RegisterNotifier, UnregisterNotifiers, Read
    <2> QED
        BY <1>1, <2>1, <2>3 DEF Process
<1>2. ASSUME NEW p \in NetPeers, Serve(p) PROVE UNCHANGED proxyVars
    BY <1>2 DEF Serve, Serves, ServeRelease, ServeRegister, ServeUnregister, ServeRead,
                ServePlain, ServeSetRange
<1>3. ASSUME NEW p \in NetPeers, Connection(p) PROVE [ProxyNext]_proxyVars
    BY <1>3 DEF Connection, Establish, Refuse, LoseConnection, DeleteNetPeer,
                NotifyPeerConnectionClosed, ProxyNext
<1>4. ASSUME NEW p \in NetPeers, ReceiveAnswer(p) PROVE UNCHANGED proxyVars
    BY <1>4 DEF ReceiveAnswer
<1>5. CASE CmdDone \/ \E n \in Notifiers : Assign(n) \/ Trigger(n)
    BY <1>5 DEF CmdDone, Assign, Trigger
<1>6. CASE UNCHANGED vars
    BY <1>6 DEF vars
<1> QED
    BY <1>1, <1>2, <1>3, <1>4, <1>5, <1>6 DEF Next

\* The commands, the answers and the service do to the connections what Proxy
\* says, and nothing else.
THEOREM ClientsUseProxy == Spec => ProxySpec
<1>1. Init => ProxyInit
    BY DEF Init
<1>2. [Next]_vars => [ProxyNext]_proxyVars
    BY StepsOfProxy
<1> QED
    BY <1>1, <1>2, PTL DEF Spec, ProxySpec

LEMMA ProxyInvHolds == Spec => []ProxyInv
BY ClientsUseProxy, ProxyInvAlways, PTL

\* The signals stay true while commands, answers and notifications are on their way.
THEOREM ClientsHearTheTruth == Spec => []ToldTheTruth
BY ClientsUseProxy, SignalsAreTrue, PTL

-----------------------------------------------------------------------------
(* ServiceClients: types.                                                   *)

\* A message of a client leaves the interface as a command.
LEMMA CallOfClient ==
    ASSUME ServiceClientsAssumption, NEW c \in ProxyClients, NEW call \in Uses[c]
    PROVE  /\ call \in CallNames /\ call # "RELEASE"
           /\ Calls[KindOf[c]][call] \in Enumerators
<1>1. KindOf[c] \in InterfaceKinds /\ call \in DOMAIN Calls[KindOf[c]]
    BY DEF ServiceClientsAssumption
<1> QED
    BY <1>1 DEF ServiceClientsAssumption, CallNames, Enumerators

LEMMA MessageOfClient ==
    ASSUME ServiceClientsAssumption, m_nMsgNr \in 0 .. MsgNrLimit - 1,
           NEW c \in ProxyClients, NEW call \in Uses[c], NEW n \in Notifiers,
           NEW text \in Texts \cup {NoText}, call = "setRange" => text \in Texts
    PROVE  /\ GetMsgNr \in MsgNrs
           /\ [client |-> c, nr |-> GetMsgNr, call |-> call, notifier |-> n, text |-> text]
                \in Command
<1>1. MsgNrLimit \in Nat /\ MsgNrLimit > 2
    BY DEF ServiceClientsAssumption
<1>2. GetMsgNr \in 1 .. MsgNrLimit - 1
    BY <1>1 DEF GetMsgNr
<1>3. GetMsgNr \in 0 .. MsgNrLimit - 1
    BY <1>1, <1>2
<1>4. call \in CallNames
    BY CallOfClient
<1>5. PICK nr \in 0 .. MsgNrLimit - 1 : nr = GetMsgNr
    BY <1>3
<1>6. [client |-> c, nr |-> nr, call |-> call, notifier |-> n, text |-> text] \in Command
    BY <1>4 DEF Command, Message
<1> QED
    BY <1>2, <1>5, <1>6 DEF MsgNrs

LEMMA ReleaseMessage ==
    ASSUME ServiceClientsAssumption, NEW c \in ProxyClients
    PROVE  [client |-> c, nr |-> 0, call |-> "RELEASE",
            notifier |-> CHOOSE n \in Notifiers : TRUE, text |-> NoText] \in Command
<1>1. PICK n \in Notifiers : n = CHOOSE k \in Notifiers : TRUE
    BY DEF ServiceClientsAssumption
<1>2. PICK call \in CallNames : call = "RELEASE"
    BY DEF CallNames
<1>3. PICK nr \in 0 .. MsgNrLimit - 1 : nr = 0
    BY DEF ServiceClientsAssumption
<1>4. [client |-> c, nr |-> nr, call |-> call, notifier |-> n, text |-> NoText] \in Command
    BY <1>2 DEF Command, Message
<1> QED
    BY <1>1, <1>2, <1>3, <1>4

LEMMA KeptOf ==
    ASSUME NEW T, NEW seq \in Seq(T), NEW S \in SUBSET DOMAIN seq, NEW list \in Kept(seq, S)
    PROVE  /\ list \in Seq(T)
           /\ \A i \in DOMAIN list : \E j \in S : list[i] = seq[j]
<1>1. PICK n \in 0 .. Len(seq) : \E index \in [1 .. n -> S] :
        list = [j \in DOMAIN index |-> seq[index[j]]]
    BY DEF Kept
<1>2. PICK index \in [1 .. n -> S] : list = [j \in DOMAIN index |-> seq[index[j]]]
    BY <1>1
<1>3. n \in Nat /\ DOMAIN index = 1 .. n
    OBVIOUS
<1>4. list = [j \in 1 .. n |-> seq[index[j]]]
    BY <1>2, <1>3
<1>5. \A j \in 1 .. n : index[j] \in S /\ seq[index[j]] \in T
    OBVIOUS
<1>6. list \in Seq(T)
    BY <1>3, <1>4, <1>5
<1> QED
    BY <1>4, <1>5, <1>6

\* onRemoveSubscribers leaves what belongs to another peer or another client.
LEMMA SubscribersLeft ==
    ASSUME SubscriptionTypeOK, NEW p, NEW cs, RemoveAllSubscribers(p, cs)
    PROVE  /\ m_subscriberVector' \in [Notifiers -> Seq(ScpiNotificationSubscriber)]
           /\ \A n \in Notifiers : \A i \in DOMAIN m_subscriberVector'[n] :
                \E j \in DOMAIN m_subscriberVector[n] :
                    /\ m_subscriberVector'[n][i] = m_subscriberVector[n][j]
                    /\ \/ m_subscriberVector[n][j].netPeer # p
                       \/ m_subscriberVector[n][j].client \notin cs
<1> DEFINE stay(n) == {i \in DOMAIN m_subscriberVector[n] :
                         \/ m_subscriberVector[n][i].netPeer # p
                         \/ m_subscriberVector[n][i].client \notin cs}
<1>1. /\ DOMAIN m_subscriberVector' = Notifiers
      /\ m_subscriberVector' = [n \in Notifiers |-> m_subscriberVector'[n]]
      /\ \A n \in Notifiers : m_subscriberVector'[n] \in Kept(m_subscriberVector[n], stay(n))
    BY DEF RemoveAllSubscribers, OneOfEach
<1>2. ASSUME NEW n \in Notifiers
      PROVE  /\ m_subscriberVector'[n] \in Seq(ScpiNotificationSubscriber)
             /\ \A i \in DOMAIN m_subscriberVector'[n] :
                    \E j \in stay(n) : m_subscriberVector'[n][i] = m_subscriberVector[n][j]
    <2>1. m_subscriberVector[n] \in Seq(ScpiNotificationSubscriber)
        BY DEF SubscriptionTypeOK
    <2>2. stay(n) \in SUBSET DOMAIN m_subscriberVector[n]
        OBVIOUS
    <2>3. m_subscriberVector'[n] \in Kept(m_subscriberVector[n], stay(n))
        BY <1>1
    <2> HIDE DEF stay
    <2> QED
        BY <2>1, <2>2, <2>3, KeptOf
<1>3. m_subscriberVector' \in [Notifiers -> Seq(ScpiNotificationSubscriber)]
    BY <1>1, <1>2
<1> QED
    BY <1>2, <1>3

-----------------------------------------------------------------------------
\* What SendTo does to one of two families of queues.
LEMMA SentTyped ==
    ASSUME NEW D, NEW T, NEW queues \in [D -> Seq(T)], NEW p \in D,
           NEW messages \in Seq(T), NEW isUp \in BOOLEAN
    PROVE  SendTo(queues, p, messages, isUp) \in [D -> Seq(T)]
<1>1. queues[p] \o messages \in Seq(T)
    OBVIOUS
<1> QED
    BY <1>1 DEF SendTo

LEMMA Sent_Types ==
    ASSUME ServiceClientsAssumption, ClientsTypeOK,
           NEW c \in ProxyClients, NEW call, NEW n \in Notifiers,
           NEW text \in Texts \cup {NoText}, call = "setRange" => text \in Texts,
           SendCommand(c, call, n, text)
    PROVE  /\ m_nMsgNr' \in 0 .. MsgNrLimit - 1
           /\ m_MsgNrCmdList' \in [ProxyClients -> [MsgNrs -> Enumerators]]
           /\ toServer' \in [NetPeers -> Seq(Command)]
           /\ UNCHANGED <<subscriptionVars, toClient, delayed>>
<1> DEFINE p == m_ConnectionHash[c]
           m == [client |-> c, nr |-> GetMsgNr, call |-> call, notifier |-> n, text |-> text]
           isUp == m_peerState[p] = "open" /\ p \in serverSees
<1>1. /\ p \in NetPeers /\ call \in Uses[c]
      /\ ServerGets(p, m)
      /\ m_nMsgNr' = GetMsgNr
      /\ m_MsgNrCmdList' = [m_MsgNrCmdList EXCEPT ![c][GetMsgNr] = Calls[KindOf[c]][call]]
      /\ UNCHANGED <<subscriptionVars, toClient, delayed>>
    BY DEF SendCommand, ClientsTypeOK, ProxyTypeOK, Living
<1>2. GetMsgNr \in MsgNrs /\ m \in Command
    BY <1>1, MessageOfClient DEF ClientsTypeOK
<1>3. Calls[KindOf[c]][call] \in Enumerators
    BY <1>1, CallOfClient
<1>4. toServer' = SendTo(toServer, p, <<m>>, isUp)
    BY <1>1 DEF ServerGets
<1>5. <<m>> \in Seq(Command)
    BY <1>2
<1>6. toServer \in [NetPeers -> Seq(Command)] /\ isUp \in BOOLEAN
    BY DEF ClientsTypeOK
<1> HIDE DEF m, p, isUp
<1>7. toServer' \in [NetPeers -> Seq(Command)]
    BY <1>1, <1>4, <1>5, <1>6, SentTyped
<1>8. m_nMsgNr' \in 0 .. MsgNrLimit - 1
    BY <1>1, <1>2 DEF MsgNrs, ServiceClientsAssumption
<1>9. m_MsgNrCmdList' \in [ProxyClients -> [MsgNrs -> Enumerators]]
    <2>1. m_MsgNrCmdList \in [ProxyClients -> [MsgNrs -> Enumerators]]
        BY DEF ClientsTypeOK
    <2>2. PICK cmd \in Enumerators : cmd = Calls[KindOf[c]][call]
        BY <1>3
    <2>3. PICK nr \in MsgNrs : nr = GetMsgNr
        BY <1>2
    <2>4. [m_MsgNrCmdList EXCEPT ![c][nr] = cmd] \in [ProxyClients -> [MsgNrs -> Enumerators]]
        BY <2>1
    <2> QED
        BY <1>1, <2>2, <2>3, <2>4
<1> QED
    BY <1>1, <1>7, <1>8, <1>9

LEMMA Release_Types ==
    ASSUME ServiceClientsAssumption, ClientsTypeOK, ProxyTypeOK',
           NEW c \in ProxyClients, Release(c)
    PROVE  ClientsTypeOK'
<1> DEFINE p == m_ConnectionHash[c]
           m == [client |-> c, nr |-> 0, call |-> "RELEASE",
                 notifier |-> CHOOSE n \in Notifiers : TRUE, text |-> NoText]
           isUp == m_peerState[p] = "open" /\ p \in serverSees
<1>1. p \in NetPeers /\ ServerGets(p, m)
    BY DEF Release, ReleaseConnection, ClientsTypeOK, ProxyTypeOK, Living
<1>2. <<m>> \in Seq(Command)
    BY ReleaseMessage
<1>3. toServer' = SendTo(toServer, p, <<m>>, isUp)
    BY <1>1 DEF ServerGets
<1>4. toServer \in [NetPeers -> Seq(Command)] /\ isUp \in BOOLEAN
    BY DEF ClientsTypeOK
<1> HIDE DEF m, p, isUp
<1>5. toServer' \in [NetPeers -> Seq(Command)]
    BY <1>1, <1>2, <1>3, <1>4, SentTyped
<1>6. [n \in MsgNrs |-> NoCommand] \in [MsgNrs -> Enumerators]
    BY DEF Enumerators
<1>7. m_MsgNrCmdList' \in [ProxyClients -> [MsgNrs -> Enumerators]]
    BY <1>6 DEF Release, ClientsTypeOK
<1>8. [n \in Notifiers |-> NoText] \in [Notifiers -> Texts \cup {NoText}]
    OBVIOUS
<1>9. /\ wants' \in [ProxyClients -> SUBSET Notifiers]
      /\ heard' \in [ProxyClients -> [Notifiers -> Texts \cup {NoText}]]
    BY <1>8 DEF Release, ClientsTypeOK
<1> QED
    BY <1>5, <1>7, <1>9 DEF Release, ClientsTypeOK, SubscriptionTypeOK, subscriptionVars

LEMMA Process_Types ==
    ASSUME ServiceClientsAssumption, ClientsTypeOK, ProxyTypeOK',
           NEW c \in ProxyClients, Process(c)
    PROVE  ClientsTypeOK'
<1>1. CASE Connect(c) \/ StartConnection(c)
    BY <1>1 DEF Connect, StartConnection, subscriptionVars, clientVars, ClientsTypeOK,
                SubscriptionTypeOK
<1>2. CASE Release(c)
    BY <1>2, Release_Types
<1>3. ASSUME NEW call, NEW n \in Notifiers, NEW text \in Texts \cup {NoText},
             call = "setRange" => text \in Texts, SendCommand(c, call, n, text),
             wants' \in [ProxyClients -> SUBSET Notifiers],
             heard' \in [ProxyClients -> [Notifiers -> Texts \cup {NoText}]]
      PROVE  ClientsTypeOK'
    <2>1. /\ m_nMsgNr' \in 0 .. MsgNrLimit - 1
          /\ m_MsgNrCmdList' \in [ProxyClients -> [MsgNrs -> Enumerators]]
          /\ toServer' \in [NetPeers -> Seq(Command)]
          /\ UNCHANGED <<subscriptionVars, toClient, delayed>>
        BY <1>3, Sent_Types
    <2> QED
        BY <1>3, <2>1 DEF ClientsTypeOK, SubscriptionTypeOK, subscriptionVars
<1>4. (CHOOSE n \in Notifiers : TRUE) \in Notifiers
    BY DEF ServiceClientsAssumption
<1>5. NoText \in Texts \cup {NoText}
    OBVIOUS
<1>6. CASE Ask(c)
    BY <1>3, <1>4, <1>5, <1>6 DEF Ask, NotifierCalls, ClientsTypeOK
<1>7. CASE SetRange(c)
    BY <1>3, <1>7 DEF SetRange, ClientsTypeOK
<1>8. CASE RegisterNotifier(c)
    <2>1. wants' \in [ProxyClients -> SUBSET Notifiers] /\ heard' = heard
        BY <1>8 DEF RegisterNotifier, ClientsTypeOK
    <2>2. PICK n \in Notifiers, t \in {NoText, FirstText} :
                SendCommand(c, "registerNotifier", n, t)
        BY <1>8 DEF RegisterNotifier
    <2>3. t \in Texts \cup {NoText}
        BY DEF ServiceClientsAssumption
    <2> QED
        BY <1>3, <2>1, <2>2, <2>3 DEF ClientsTypeOK
<1>9. CASE UnregisterNotifiers(c)
    <2>1. [n \in Notifiers |-> NoText] \in [Notifiers -> Texts \cup {NoText}]
        OBVIOUS
    <2>2. /\ wants' \in [ProxyClients -> SUBSET Notifiers]
          /\ heard' \in [ProxyClients -> [Notifiers -> Texts \cup {NoText}]]
        BY <1>9, <2>1 DEF UnregisterNotifiers, ClientsTypeOK
    <2> QED
        BY <1>3, <1>4, <1>5, <1>9, <2>2 DEF UnregisterNotifiers
<1>10. CASE Read(c)
    BY <1>3, <1>5, <1>10 DEF Read, ClientsTypeOK
<1> QED
    BY <1>1, <1>2, <1>6, <1>7, <1>8, <1>9, <1>10 DEF Process

LEMMA HeadTyped ==
    ASSUME ClientsTypeOK, NEW p \in NetPeers, toServer[p] # <<>>
    PROVE  /\ Head(toServer[p]) \in Command
           /\ [toServer EXCEPT ![p] = Tail(@)] \in [NetPeers -> Seq(Command)]
<1>1. toServer \in [NetPeers -> Seq(Command)] /\ toServer[p] \in Seq(Command)
    BY DEF ClientsTypeOK
<1>2. Tail(toServer[p]) \in Seq(Command) /\ Head(toServer[p]) \in Command
    BY <1>1
<1> QED
    BY <1>1, <1>2

LEMMA Answer_Types ==
    ASSUME ClientsTypeOK, NEW p \in NetPeers, NEW m \in Message, NEW text \in Texts \cup {NoText},
           ClientGets(p, <<Answer(m, text)>>)
    PROVE  toClient' \in [NetPeers -> Seq(Message \cup Notified)]
<1>1. Answer(m, text) \in Message
    BY DEF Answer, Message
<1>2. <<Answer(m, text)>> \in Seq(Message \cup Notified)
    BY <1>1
<1>3. PICK isUp \in BOOLEAN : isUp = (m_peerState[p] = "open")
    OBVIOUS
<1>4. toClient' = SendTo(toClient, p, <<Answer(m, text)>>, isUp)
    BY <1>3 DEF ClientGets
<1>5. toClient \in [NetPeers -> Seq(Message \cup Notified)]
    BY DEF ClientsTypeOK
<1> QED
    BY <1>2, <1>4, <1>5, SentTyped

LEMMA Serve_Types ==
    ASSUME ServiceClientsAssumption, ClientsTypeOK, ProxyTypeOK', NEW p \in NetPeers, Serve(p)
    PROVE  ClientsTypeOK'
<1> DEFINE m == Head(toServer[p])
<1>1. Subscribers = ProxyClients /\ ServerPeers = NetPeers
    BY DEF ServiceClientsAssumption
<1>2. ASSUME NEW calls, Serves(p, calls)
      PROVE  /\ m \in Command /\ m.call \in calls
             /\ toServer' \in [NetPeers -> Seq(Command)]
             /\ UNCHANGED <<m_nMsgNr, m_MsgNrCmdList, wants, heard>>
    BY <1>2, HeadTyped DEF Serves
<1>3. NoText \in Texts \cup {NoText}
    OBVIOUS
<1>4. SubscriptionTypeOK
    BY DEF ClientsTypeOK
<1>5. CASE ServeRelease(p)
    <2>1. Serves(p, {"RELEASE"}) /\ UNCHANGED <<m_sValue, toClient, delayed>>
        BY <1>5 DEF ServeRelease
    <2>2. PICK cs : RemoveAllSubscribers(p, cs)
        BY <1>5 DEF ServeRelease
    <2>3. m_subscriberVector' \in [Notifiers -> Seq(ScpiNotificationSubscriber)]
        BY <1>4, <2>2, SubscribersLeft
    <2> QED
        BY <1>2, <2>1, <2>3 DEF ClientsTypeOK, SubscriptionTypeOK
<1>6. CASE ServeUnregister(p)
    <2>1. /\ Serves(p, {"unregisterNotifiers"}) /\ UNCHANGED <<m_sValue, delayed>>
          /\ ClientGets(p, <<Answer(m, NoText)>>)
        BY <1>6 DEF ServeUnregister
    <2>2. PICK cs : RemoveAllSubscribers(p, cs)
        BY <1>6 DEF ServeUnregister
    <2>3. m_subscriberVector' \in [Notifiers -> Seq(ScpiNotificationSubscriber)]
        BY <1>4, <2>2, SubscribersLeft
    <2>4. m \in Message
        BY <1>2, <2>1 DEF Command
    <2>5. toClient' \in [NetPeers -> Seq(Message \cup Notified)]
        BY <1>3, <2>1, <2>4, Answer_Types
    <2> QED
        BY <1>2, <2>1, <2>3, <2>5 DEF ClientsTypeOK, SubscriptionTypeOK
<1>7. CASE ServeRegister(p)
    <2> DEFINE s == [netPeer |-> p, client |-> m.client, withValue |-> m.text # NoText]
    <2>1. /\ Serves(p, {"registerNotifier"}) /\ UNCHANGED <<m_sValue, delayed>>
          /\ AddSubscriber(m.notifier, s)
          /\ ClientGets(p, <<Answer(m, NoText)>>)
        BY <1>7 DEF ServeRegister
    <2>2. m \in Message
        BY <1>2, <2>1 DEF Command
    <2>3. s \in ScpiNotificationSubscriber /\ m.notifier \in Notifiers
        BY <1>1, <2>2 DEF Message, ScpiNotificationSubscriber
    <2>4. toClient' \in [NetPeers -> Seq(Message \cup Notified)]
        BY <1>3, <2>1, <2>2, Answer_Types
    <2> HIDE DEF s
    <2>5. m_subscriberVector' \in [Notifiers -> Seq(ScpiNotificationSubscriber)]
        <3>1. m_subscriberVector \in [Notifiers -> Seq(ScpiNotificationSubscriber)]
            BY <1>4 DEF SubscriptionTypeOK
        <3>2. Append(m_subscriberVector[m.notifier], s) \in Seq(ScpiNotificationSubscriber)
            BY <2>3, <3>1
        <3>3. [m_subscriberVector EXCEPT ![m.notifier] = Append(@, s)]
                    \in [Notifiers -> Seq(ScpiNotificationSubscriber)]
            BY <2>3, <3>1, <3>2
        <3> QED
            BY <2>1, <3>1, <3>3 DEF AddSubscriber
    <2> QED
        BY <1>2, <2>1, <2>4, <2>5 DEF ClientsTypeOK, SubscriptionTypeOK
<1>8. CASE ServeRead(p)
    <2>1. /\ Serves(p, {"getRange"}) /\ UNCHANGED <<subscriptionVars, delayed>>
          /\ ClientGets(p, <<Answer(m, m_sValue[m.notifier])>>)
        BY <1>8 DEF ServeRead
    <2>2. m \in Message
        BY <1>2, <2>1 DEF Command
    <2>3. m_sValue[m.notifier] \in Texts \cup {NoText}
        BY <1>4, <2>2 DEF SubscriptionTypeOK, Message
    <2>4. toClient' \in [NetPeers -> Seq(Message \cup Notified)]
        BY <2>1, <2>2, <2>3, Answer_Types
    <2> QED
        BY <1>2, <2>1, <2>4 DEF ClientsTypeOK, SubscriptionTypeOK, subscriptionVars
<1>9. CASE ServePlain(p)
    <2>1. /\ \E calls : Serves(p, calls)
          /\ UNCHANGED <<subscriptionVars, delayed>>
          /\ ClientGets(p, <<Answer(m, NoText)>>)
        BY <1>9 DEF ServePlain
    <2>2. m \in Message
        BY <1>2, <2>1 DEF Command
    <2>3. toClient' \in [NetPeers -> Seq(Message \cup Notified)]
        BY <1>3, <2>1, <2>2, Answer_Types
    <2> QED
        BY <1>2, <2>1, <2>3 DEF ClientsTypeOK, SubscriptionTypeOK, subscriptionVars
<1>10. CASE ServeSetRange(p)
    <2> DEFINE d == [peer |-> p, client |-> m.client, nr |-> m.nr,
                     notifier |-> m.notifier, text |-> m.text, call |-> m.call]
    <2>1. /\ Serves(p, {"setRange"}) /\ UNCHANGED <<subscriptionVars, toClient>>
          /\ delayed' = Append(delayed, d)
        BY <1>10 DEF ServeSetRange
    <2>2. m \in Command /\ m.call = "setRange"
        BY <1>2, <2>1
    <2>3. d \in DelayedCmd
        BY <2>2 DEF Command, Message, DelayedCmd
    <2>4. delayed \in Seq(DelayedCmd)
        BY DEF ClientsTypeOK
    <2> HIDE DEF d
    <2>5. delayed' \in Seq(DelayedCmd)
        BY <2>1, <2>3, <2>4
    <2> QED
        BY <1>2, <2>1, <2>5 DEF ClientsTypeOK, SubscriptionTypeOK, subscriptionVars
<1> QED
    BY <1>5, <1>6, <1>7, <1>8, <1>9, <1>10 DEF Serve

-----------------------------------------------------------------------------
\* What the subscribers behind p are told: notifications, without a number.
LEMMA NotifiedTyped ==
    ASSUME ServiceClientsAssumption, SubscriptionTypeOK, NEW n \in Notifiers,
           NEW text \in Texts, NEW p, NEW list \in NotifiedOf(n, text, p)
    PROVE  list \in Seq(Notified)
<1> DEFINE S == {i \in DOMAIN m_subscriberVector[n] : m_subscriberVector[n][i].netPeer = p}
<1>1. PICK behind \in Behind(n, p) :
            list = [i \in DOMAIN behind |-> Notification(n, behind[i], text)]
    BY DEF NotifiedOf
<1>2. m_subscriberVector[n] \in Seq(ScpiNotificationSubscriber) /\ S \in SUBSET DOMAIN m_subscriberVector[n]
    BY DEF SubscriptionTypeOK
<1>3. behind \in Kept(m_subscriberVector[n], S)
    BY <1>1 DEF Behind
<1> HIDE DEF S
<1>4. behind \in Seq(ScpiNotificationSubscriber)
    BY <1>2, <1>3, KeptOf
<1>5. Len(behind) \in Nat /\ DOMAIN behind = 1 .. Len(behind)
    BY <1>4
<1>6. ASSUME NEW i \in 1 .. Len(behind) PROVE Notification(n, behind[i], text) \in Notified
    <2>1. behind[i] \in ScpiNotificationSubscriber
        BY <1>4, <1>5
    <2>2. behind[i].client \in ProxyClients
        BY <2>1 DEF ScpiNotificationSubscriber, ServiceClientsAssumption
    <2> QED
        BY <2>2 DEF Notification, Notified
<1>7. list = [i \in 1 .. Len(behind) |-> Notification(n, behind[i], text)]
    BY <1>1, <1>5
<1> QED
    BY <1>5, <1>6, <1>7

LEMMA NotifyTyped ==
    ASSUME ServiceClientsAssumption, SubscriptionTypeOK, NEW n \in Notifiers,
           NEW text \in Texts, NEW p
    PROVE  /\ NotifyAllSubscribers(n, text, p) \subseteq Seq(Notified)
           /\ ForceTrigger(n, p) \subseteq Seq(Notified)
<1>1. m_sValue[n] \in Texts
    BY DEF SubscriptionTypeOK
<1>2. <<>> \in Seq(Notified)
    OBVIOUS
<1>3. NotifiedOf(n, text, p) \subseteq Seq(Notified)
    BY NotifiedTyped
<1>4. NotifiedOf(n, m_sValue[n], p) \subseteq Seq(Notified)
    BY <1>1, NotifiedTyped
<1> QED
    BY <1>2, <1>3, <1>4 DEF NotifyAllSubscribers, ForceTrigger

\* The clients' queues when notifications, then answers, have been sent.
Delivered(sent, answers) ==
    [p \in NetPeers |-> IF m_peerState[p] = "open"
                          THEN toClient[p] \o sent[p] \o answers[p] ELSE toClient[p]]

\* A notification reaches the connections that are up, with the answers behind it.
LEMMA Notifying_Sends ==
    ASSUME ServiceClientsAssumption, ClientsTypeOK, NEW n \in Notifiers,
           NEW text \in Texts, NEW answers, Notifying(n, text, answers)
    PROVE  \E sent \in [NetPeers -> Seq(Notified)] : toClient' = Delivered(sent, answers)
<1>1. PICK sent :
        /\ sent = [p \in NetPeers |-> sent[p]]
        /\ \A p \in NetPeers : sent[p] \in NotifyAllSubscribers(n, text, p)
        /\ toClient' = Delivered(sent, answers)
    BY DEF Notifying, OneOfEach, Delivered
<1>2. SubscriptionTypeOK
    BY DEF ClientsTypeOK
<1>3. \A p \in NetPeers : sent[p] \in Seq(Notified)
    BY <1>1, <1>2, NotifyTyped
<1>4. sent \in [NetPeers -> Seq(Notified)]
    BY <1>1, <1>3
<1> QED
    BY <1>1, <1>4

LEMMA Trigger_Sends ==
    ASSUME ServiceClientsAssumption, ClientsTypeOK, NEW n \in Notifiers, Trigger(n)
    PROVE  \E sent \in [NetPeers -> Seq(Notified)] :
                toClient' = [p \in NetPeers |->
                                IF m_peerState[p] = "open"
                                  THEN toClient[p] \o sent[p] ELSE toClient[p]]
<1>1. PICK sent :
        /\ sent = [p \in NetPeers |-> sent[p]]
        /\ \A p \in NetPeers : sent[p] \in ForceTrigger(n, p)
        /\ toClient' = [p \in NetPeers |->
                            IF m_peerState[p] = "open" THEN toClient[p] \o sent[p] ELSE toClient[p]]
    BY DEF Trigger, OneOfEach
<1>2. SubscriptionTypeOK
    BY DEF ClientsTypeOK
<1>3. PICK text \in Texts : text = m_sValue[n]
    BY <1>2 DEF SubscriptionTypeOK
<1>4. \A p \in NetPeers : sent[p] \in Seq(Notified)
    BY <1>1, <1>2, <1>3, NotifyTyped
<1>5. sent \in [NetPeers -> Seq(Notified)]
    BY <1>1, <1>4
<1> QED
    BY <1>1, <1>5

LEMMA QueuesTyped ==
    ASSUME ClientsTypeOK, NEW sent \in [NetPeers -> Seq(Notified)],
           NEW answers \in [NetPeers -> Seq(Message)],
           toClient' = Delivered(sent, answers)
    PROVE  toClient' \in [NetPeers -> Seq(Message \cup Notified)]
<1>1. ASSUME NEW p \in NetPeers
      PROVE  /\ toClient[p] \in Seq(Message \cup Notified)
             /\ toClient[p] \o sent[p] \o answers[p] \in Seq(Message \cup Notified)
    <2> DEFINE T == Message \cup Notified
    <2>1. toClient[p] \in Seq(T)
        BY DEF ClientsTypeOK
    <2>2. sent[p] \in Seq(Notified) /\ answers[p] \in Seq(Message)
        OBVIOUS
    <2>3. Notified \subseteq T /\ Message \subseteq T
        OBVIOUS
    <2> HIDE DEF T
    <2>4. sent[p] \in Seq(T) /\ answers[p] \in Seq(T)
        BY <2>2, <2>3
    <2> QED
        BY <2>1, <2>4 DEF T
<1> QED
    BY <1>1 DEF Delivered

LEMMA CmdDone_Types ==
    ASSUME ServiceClientsAssumption, ClientsTypeOK, ProxyTypeOK', CmdDone
    PROVE  ClientsTypeOK'
<1> DEFINE m == Head(delayed)
           answers == [p \in NetPeers |->
                IF p = m.peer /\ p \in serverSees THEN <<Answer(m, NoText)>> ELSE <<>>]
<1>1. delayed \in Seq(DelayedCmd) /\ delayed # <<>>
    BY DEF ClientsTypeOK, CmdDone
<1>2. Tail(delayed) \in Seq(DelayedCmd) /\ m \in DelayedCmd
    BY <1>1
<1>3. Answer(m, NoText) \in Message
    BY <1>2 DEF DelayedCmd, Answer, Message
<1>4. answers \in [NetPeers -> Seq(Message)]
    BY <1>3
<1>5. m.notifier \in Notifiers /\ m.text \in Texts
    BY <1>2 DEF DelayedCmd
<1>6. Notifying(m.notifier, m.text, answers)
    BY DEF CmdDone
<1> HIDE DEF answers
<1>12. PICK n \in Notifiers, text \in Texts, ans \in [NetPeers -> Seq(Message)] :
            n = m.notifier /\ text = m.text /\ ans = answers
    BY <1>4, <1>5
<1>13. Notifying(n, text, ans)
    BY <1>6, <1>12
<1>7. PICK sent \in [NetPeers -> Seq(Notified)] :
            toClient' = Delivered(sent, ans)
    BY <1>12, <1>13, Notifying_Sends
<1>8. toClient' \in [NetPeers -> Seq(Message \cup Notified)]
    BY <1>4, <1>7, <1>12, QueuesTyped
<1>9. m_sValue' = [m_sValue EXCEPT ![m.notifier] = m.text]
    BY <1>6 DEF Notifying, SetText
<1>10. m_sValue' \in [Notifiers -> Texts]
    BY <1>5, <1>9 DEF ClientsTypeOK, SubscriptionTypeOK
<1>11. /\ delayed' = Tail(delayed)
       /\ UNCHANGED <<m_subscriberVector, m_nMsgNr, m_MsgNrCmdList, toServer, wants, heard>>
    BY DEF CmdDone
<1> QED
    BY <1>2, <1>8, <1>10, <1>11 DEF ClientsTypeOK, SubscriptionTypeOK

LEMMA Assign_Types ==
    ASSUME ServiceClientsAssumption, ClientsTypeOK, ProxyTypeOK', NEW n \in Notifiers,
           Assign(n) \/ Trigger(n)
    PROVE  ClientsTypeOK'
<1> DEFINE answers == [p \in NetPeers |-> <<>>]
<1>1. answers \in [NetPeers -> Seq(Message)]
    OBVIOUS
<1>2. CASE Assign(n)
    <2>1. PICK text \in Texts : Notifying(n, text, answers)
        BY <1>2 DEF Assign
    <2>7. PICK ans : ans = answers
        OBVIOUS
    <2>8. Notifying(n, text, ans)
        BY <2>1, <2>7
    <2> HIDE DEF answers
    <2>2. PICK sent \in [NetPeers -> Seq(Notified)] :
            toClient' = Delivered(sent, ans)
        BY <2>7, <2>8, Notifying_Sends
    <2>3. toClient' \in [NetPeers -> Seq(Message \cup Notified)]
        BY <1>1, <2>2, <2>7, QueuesTyped
    <2>4. m_sValue' = [m_sValue EXCEPT ![n] = text]
        BY <2>1 DEF Notifying, SetText
    <2>5. m_sValue' \in [Notifiers -> Texts]
        BY <2>4 DEF ClientsTypeOK, SubscriptionTypeOK
    <2>6. UNCHANGED <<m_subscriberVector, m_nMsgNr, m_MsgNrCmdList, toServer, delayed, wants,
                      heard>>
        BY <1>2 DEF Assign
    <2> QED
        BY <2>3, <2>5, <2>6 DEF ClientsTypeOK, SubscriptionTypeOK
<1>3. CASE Trigger(n)
    <2>1. PICK sent \in [NetPeers -> Seq(Notified)] :
            toClient' = [p \in NetPeers |->
                            IF m_peerState[p] = "open"
                              THEN toClient[p] \o sent[p] ELSE toClient[p]]
        BY <1>3, Trigger_Sends
    <2>2. \A p \in NetPeers : toClient[p] \o sent[p] \o answers[p] = toClient[p] \o sent[p]
        <3> SUFFICES ASSUME NEW p \in NetPeers
                     PROVE  toClient[p] \o sent[p] \o <<>> = toClient[p] \o sent[p]
            OBVIOUS
        <3> DEFINE T == Message \cup Notified
        <3>1. toClient[p] \in Seq(T) /\ sent[p] \in Seq(Notified) /\ Notified \subseteq T
            BY DEF ClientsTypeOK
        <3> HIDE DEF T
        <3>2. sent[p] \in Seq(T)
            BY <3>1
        <3>3. toClient[p] \o sent[p] \in Seq(T)
            BY <3>1, <3>2
        <3> QED
            BY <3>3
    <2> HIDE DEF answers
    <2>3. toClient' = Delivered(sent, answers)
        BY <2>1, <2>2 DEF Delivered
    <2>4. toClient' \in [NetPeers -> Seq(Message \cup Notified)]
        BY <1>1, <2>3, QueuesTyped
    <2>5. UNCHANGED <<m_subscriberVector, m_sValue, m_nMsgNr, m_MsgNrCmdList, toServer,
                      delayed, wants, heard>>
        BY <1>3 DEF Trigger, subscriptionVars
    <2> QED
        BY <2>4, <2>5 DEF ClientsTypeOK, SubscriptionTypeOK
<1> QED
    BY <1>2, <1>3

LEMMA ReceiveAnswer_Types ==
    ASSUME ServiceClientsAssumption, ClientsTypeOK, ProxyTypeOK', NEW p \in NetPeers,
           ReceiveAnswer(p)
    PROVE  ClientsTypeOK'
<1> DEFINE m == Head(toClient[p])
           T == Message \cup Notified
<1>1. toClient \in [NetPeers -> Seq(T)] /\ toClient[p] \in Seq(T) /\ toClient[p] # <<>>
    BY DEF ClientsTypeOK, ReceiveAnswer
<1>2. Tail(toClient[p]) \in Seq(T) /\ m \in T
    BY <1>1
<1>3. toClient' \in [NetPeers -> Seq(T)]
    BY <1>1, <1>2 DEF ReceiveAnswer
<1>4. /\ m.text \in Texts \cup {NoText} /\ m.nr \in 0 .. MsgNrLimit - 1
      /\ m.client \in ProxyClients
    BY <1>2 DEF Message, Notified, ServiceClientsAssumption
<1>5. m.nr # 0 => m.nr \in MsgNrs
    BY <1>4 DEF MsgNrs, ServiceClientsAssumption
<1>6. /\ UNCHANGED <<subscriptionVars, m_nMsgNr, toServer, delayed, wants>>
      /\ \/ UNCHANGED m_MsgNrCmdList
         \/ m_MsgNrCmdList' = TakeEntry(m.client, m.nr)
      /\ \/ UNCHANGED heard
         \/ /\ m.notifier \in wants[m.client]
            /\ heard' = [heard EXCEPT ![m.client][m.notifier] = m.text]
    BY DEF ReceiveAnswer
<1> HIDE DEF m
<1>7. m_MsgNrCmdList' \in [ProxyClients -> [MsgNrs -> Enumerators]]
    <2>1. m_MsgNrCmdList \in [ProxyClients -> [MsgNrs -> Enumerators]]
        BY DEF ClientsTypeOK
    <2>2. NoCommand \in Enumerators
        BY DEF Enumerators
    <2>3. m.nr # 0 => [m_MsgNrCmdList EXCEPT ![m.client][m.nr] = NoCommand]
                            \in [ProxyClients -> [MsgNrs -> Enumerators]]
        BY <1>4, <1>5, <2>1, <2>2
    <2> QED
        BY <1>6, <2>1, <2>3 DEF TakeEntry
<1>8. heard' \in [ProxyClients -> [Notifiers -> Texts \cup {NoText}]]
    <2>1. heard \in [ProxyClients -> [Notifiers -> Texts \cup {NoText}]]
        BY DEF ClientsTypeOK
    <2>2. m.notifier \in wants[m.client] => m.notifier \in Notifiers
        BY <1>4 DEF ClientsTypeOK
    <2> QED
        BY <1>4, <1>6, <2>1, <2>2
<1> QED
    BY <1>3, <1>6, <1>7, <1>8 DEF ClientsTypeOK, SubscriptionTypeOK, subscriptionVars

LEMMA Connection_Types ==
    ASSUME ServiceClientsAssumption, ClientsTypeOK, ProxyTypeOK', NEW p \in NetPeers,
           Connection(p)
    PROVE  ClientsTypeOK'
<1>1. CASE Establish(p) \/ Refuse(p)
    BY <1>1 DEF Establish, Refuse, subscriptionVars, clientVars, ClientsTypeOK,
                SubscriptionTypeOK
<1>2. CASE LoseConnection(p) \/ DeleteNetPeer(p)
    <2>1. toClient' = [toClient EXCEPT ![p] = <<>>]
        BY <1>2 DEF LoseConnection, DeleteNetPeer, Unread
    <2>2. <<>> \in Seq(Message \cup Notified)
        OBVIOUS
    <2>3. toClient' \in [NetPeers -> Seq(Message \cup Notified)]
        BY <2>1, <2>2 DEF ClientsTypeOK
    <2> QED
        BY <1>2, <2>3 DEF LoseConnection, DeleteNetPeer, subscriptionVars, ClientsTypeOK,
                          SubscriptionTypeOK
<1>3. CASE NotifyPeerConnectionClosed(p)
    <2>1. toServer' = [toServer EXCEPT ![p] = <<>>]
        BY <1>3 DEF NotifyPeerConnectionClosed
    <2>2. <<>> \in Seq(Command)
        OBVIOUS
    <2>3. toServer' \in [NetPeers -> Seq(Command)]
        BY <2>1, <2>2 DEF ClientsTypeOK
    <2>4. PICK cs : RemoveAllSubscribers(p, cs)
        BY <1>3 DEF NotifyPeerConnectionClosed
    <2>5. m_subscriberVector' \in [Notifiers -> Seq(ScpiNotificationSubscriber)]
        BY <2>4, SubscribersLeft DEF ClientsTypeOK
    <2> QED
        BY <1>3, <2>3, <2>5 DEF NotifyPeerConnectionClosed, ClientsTypeOK, SubscriptionTypeOK
<1> QED
    BY <1>1, <1>2, <1>3 DEF Connection

LEMMA ClientsTypeOKStep ==
    ASSUME ServiceClientsAssumption, ProxyTypeOK', ClientsTypeOK, [Next]_vars
    PROVE  ClientsTypeOK'
<1>1. CASE UNCHANGED vars
    BY <1>1 DEF vars, subscriptionVars, clientVars, ClientsTypeOK, SubscriptionTypeOK
<1> QED
    BY <1>1, Process_Types, Serve_Types, ReceiveAnswer_Types, Connection_Types, CmdDone_Types,
       Assign_Types DEF Next

LEMMA ClientsTypeOKHolds == Spec => []ClientsTypeOK
<1>1. Init /\ ProxyInv => ClientsTypeOK
    BY ServiceClientsAssumption DEF Init, SubscriptionInit, ProxyInv, ServiceClientsAssumption,
       ClientsTypeOK, SubscriptionTypeOK, Enumerators
<1>2. ClientsTypeOK /\ ProxyInv' /\ [Next]_vars => ClientsTypeOK'
    BY ServiceClientsAssumption, ClientsTypeOKStep DEF ProxyInv
<1> QED
    BY <1>1, <1>2, ProxyInvHolds, PTL DEF Spec

\* Every message is one that its end of the connection can take, whatever order
\* commands, answers, notifications and the ends of connections come in.
THEOREM ClientsTypeCorrect == Spec => []ClientsTypeOK
BY ClientsTypeOKHolds

-----------------------------------------------------------------------------
(* Subscriptions and who ends them.                                         *)

\* The client c is connected to p, or the end of its subscriptions at p is to come:
\* by the connection, or by a message behind position i.
IsBound(c, p, i) ==
    \/ m_ConnectionHash[c] = p
    \/ m_peerState[p] # "open"
    \/ p \in deletedLater
    \/ \E k \in DOMAIN toServer[p] : /\ k > i
                                     /\ toServer[p][k].call = "RELEASE"
                                     /\ toServer[p][k].client = c

\* The service sees connections that have been open, and has no messages of others.
SeenWereOpen ==
    /\ \A p \in serverSees : m_peerState[p] \in {"open", "closed", "deleted"}
    /\ \A p \in NetPeers \ serverSees : toServer[p] = <<>>

\* Who may still subscribe is connected, or released by a message behind.
PendingAreBound ==
    \A p \in NetPeers : \A i \in DOMAIN toServer[p] :
        toServer[p][i].call # "RELEASE" => IsBound(toServer[p][i].client, p, i)

SubscribersAreBound ==
    \A n \in Notifiers : \A i \in DOMAIN m_subscriberVector[n] :
        /\ m_subscriberVector[n][i].netPeer \in serverSees
        /\ IsBound(m_subscriberVector[n][i].client, m_subscriberVector[n][i].netPeer, 0)

OrphansInv == SeenWereOpen /\ PendingAreBound /\ SubscribersAreBound

\* Steps that leave the messages to the service and the subscriptions alone.
LEMMA NothingServed ==
    ASSUME ProxyTypeOK, ClientsTypeOK, OrphansInv, UNCHANGED <<m_subscriberVector, toServer>>,
           serverSees \subseteq serverSees', serverSees' \subseteq NetPeers,
           \A p \in serverSees' : m_peerState'[p] \in {"open", "closed", "deleted"},
           \A c \in ProxyClients : m_ConnectionHash[c] \in NetPeers =>
                                       m_ConnectionHash'[c] = m_ConnectionHash[c],
           \A p \in serverSees : m_peerState[p] # "open" => m_peerState'[p] # "open",
           deletedLater \subseteq deletedLater',
           Subscribers = ProxyClients
    PROVE  OrphansInv'
<1>1. ASSUME NEW c \in ProxyClients, NEW p \in serverSees, NEW i, IsBound(c, p, i)
      PROVE  IsBound(c, p, i)'
    <2>1. p \in NetPeers
        BY DEF ProxyTypeOK
    <2> QED
        BY <1>1, <2>1 DEF IsBound
<1>2. SeenWereOpen'
    BY DEF OrphansInv, SeenWereOpen
<1>3. PendingAreBound'
    <2> SUFFICES ASSUME NEW p \in NetPeers, NEW i \in DOMAIN toServer[p],
                        toServer[p][i].call # "RELEASE"
                 PROVE  IsBound(toServer[p][i].client, p, i)'
        BY DEF PendingAreBound
    <2>1. p \in serverSees
        BY DEF OrphansInv, SeenWereOpen
    <2>2. toServer[p][i].client \in ProxyClients
        <3>1. toServer[p] \in Seq(Command)
            BY DEF ClientsTypeOK, SubscriptionTypeOK
        <3>2. toServer[p][i] \in Command
            BY <3>1
        <3> QED
            BY <3>2 DEF Command, Message
    <2>3. IsBound(toServer[p][i].client, p, i)
        BY DEF OrphansInv, PendingAreBound
    <2>4. PICK c \in ProxyClients : c = toServer[p][i].client
        BY <2>2
    <2>5. IsBound(c, p, i)'
        BY <1>1, <2>1, <2>3, <2>4
    <2> QED
        BY <2>4, <2>5 DEF IsBound
<1>4. SubscribersAreBound'
    <2> SUFFICES ASSUME NEW n \in Notifiers, NEW i \in DOMAIN m_subscriberVector[n]
                 PROVE  /\ m_subscriberVector[n][i].netPeer \in serverSees'
                        /\ IsBound(m_subscriberVector[n][i].client,
                                   m_subscriberVector[n][i].netPeer, 0)'
        BY DEF SubscribersAreBound
    <2>1. PICK c, p : c = m_subscriberVector[n][i].client /\ p = m_subscriberVector[n][i].netPeer
        OBVIOUS
    <2>2. c \in ProxyClients
        <3>1. m_subscriberVector[n] \in Seq(ScpiNotificationSubscriber)
            BY DEF ClientsTypeOK, SubscriptionTypeOK
        <3>2. m_subscriberVector[n][i] \in ScpiNotificationSubscriber
            BY <3>1
        <3> QED
            BY <2>1, <3>2 DEF ScpiNotificationSubscriber
    <2>3. p \in serverSees /\ IsBound(c, p, 0)
        BY <2>1 DEF OrphansInv, SubscribersAreBound
    <2>4. IsBound(c, p, 0)'
        BY <1>1, <2>2, <2>3
    <2> QED
        BY <2>1, <2>3, <2>4 DEF IsBound
<1> QED
    BY <1>2, <1>3, <1>4 DEF OrphansInv

\* A message for the service: of a client that is connected, or of one that leaves.
LEMMA MessagePushed ==
    ASSUME ProxyTypeOK, ClientsTypeOK, OrphansInv, Subscribers = ProxyClients,
           NEW p \in NetPeers, NEW m \in Command,
           toServer' = SendTo(toServer, p, <<m>>, m_peerState[p] = "open" /\ p \in serverSees),
           UNCHANGED <<m_peerState, serverSees, m_subscriberVector>>,
           deletedLater \subseteq deletedLater',
           m_ConnectionHash[m.client] = p,
           m.call # "RELEASE" => m_ConnectionHash'[m.client] = p,
           \A d \in ProxyClients :
                d = m.client \/ m_ConnectionHash'[d] = m_ConnectionHash[d]
    PROVE  OrphansInv'
<1> DEFINE isUp == m_peerState[p] = "open" /\ p \in serverSees
<1>1. toServer \in [NetPeers -> Seq(Command)]
    BY DEF ClientsTypeOK, SubscriptionTypeOK
<1>2. /\ isUp => toServer' = [toServer EXCEPT ![p] = @ \o <<m>>]
      /\ ~ isUp => toServer' = toServer
    BY DEF SendTo
<1> HIDE DEF isUp
<1>3. /\ toServer[p] \in Seq(Command) /\ toServer[p] \o <<m>> \in Seq(Command)
      /\ Len(toServer[p]) \in Nat
      /\ Len(toServer[p] \o <<m>>) = Len(toServer[p]) + 1
      /\ DOMAIN (toServer[p] \o <<m>>) = 1 .. Len(toServer[p]) + 1
      /\ (toServer[p] \o <<m>>)[Len(toServer[p]) + 1] = m
      /\ \A i \in DOMAIN toServer[p] : (toServer[p] \o <<m>>)[i] = toServer[p][i]
    BY <1>1
<1>5. SeenWereOpen'
    <2>1. \A q \in NetPeers \ serverSees : toServer'[q] = toServer[q]
        BY <1>1, <1>2 DEF isUp
    <2> QED
        BY <2>1 DEF OrphansInv, SeenWereOpen
<1>6. ASSUME NEW d \in ProxyClients, NEW q \in serverSees,
             NEW i \in 0 .. Len(toServer[q]), IsBound(d, q, i)
      PROVE  IsBound(d, q, i)'
    <2>0. q \in NetPeers /\ i \in Nat
        BY DEF ProxyTypeOK
    <2>1. CASE m_peerState[q] # "open" \/ q \in deletedLater
        BY <2>1 DEF IsBound
    <2>2. CASE \E k \in DOMAIN toServer[q] : /\ k > i
                                              /\ toServer[q][k].call = "RELEASE"
                                              /\ toServer[q][k].client = d
        <3>1. \A k \in DOMAIN toServer[q] :
                    k \in DOMAIN toServer'[q] /\ toServer'[q][k] = toServer[q][k]
            <4>1. CASE q = p /\ isUp
                <5>1. toServer'[q] = toServer[p] \o <<m>>
                    BY <1>1, <1>2, <4>1
                <5>2. \A k \in DOMAIN toServer[p] : k \in 1 .. Len(toServer[p]) + 1
                    BY <1>3
                <5> QED
                    BY <1>3, <4>1, <5>1, <5>2
            <4>2. CASE ~ (q = p /\ isUp)
                BY <1>1, <1>2, <2>0, <4>2
            <4> QED
                BY <4>1, <4>2
        <3> QED
            BY <2>2, <3>1 DEF IsBound
    <2>3. CASE m_ConnectionHash[d] = q /\ d # m.client
        BY <2>3 DEF IsBound
    <2>4. CASE m_ConnectionHash[d] = q /\ d = m.client /\ m.call # "RELEASE"
        BY <2>4 DEF IsBound
    <2>5. CASE m_ConnectionHash[d] = q /\ d = m.client /\ m.call = "RELEASE"
                 /\ m_peerState[q] = "open"
        <3>1. q = p /\ isUp
            BY <2>5 DEF isUp
        <3>2. toServer'[q] = toServer[p] \o <<m>>
            BY <1>1, <1>2, <3>1
        <3>3. Len(toServer[p]) + 1 \in DOMAIN toServer'[q] /\ Len(toServer[p]) + 1 > i
            BY <1>3, <3>1, <3>2, <2>0
        <3>4. toServer'[q][Len(toServer[p]) + 1] = m
            BY <1>3, <3>2
        <3> QED
            BY <2>5, <3>3, <3>4 DEF IsBound
    <2>6. \/ m_ConnectionHash[d] = q
          \/ m_peerState[q] # "open" \/ q \in deletedLater
          \/ \E k \in DOMAIN toServer[q] : /\ k > i
                                           /\ toServer[q][k].call = "RELEASE"
                                           /\ toServer[q][k].client = d
        BY <1>6 DEF IsBound
    <2> QED
        BY <2>1, <2>2, <2>3, <2>4, <2>5, <2>6
<1>7. PendingAreBound'
    <2> SUFFICES ASSUME NEW q \in NetPeers, NEW i \in DOMAIN toServer'[q],
                        toServer'[q][i].call # "RELEASE"
                 PROVE  IsBound(toServer[q][i].client, q, i)'
        BY DEF PendingAreBound
    <2>1. CASE i \in DOMAIN toServer[q] /\ toServer'[q][i] = toServer[q][i]
        <3>1. toServer[q] \in Seq(Command)
            BY <1>1
        <3>2. toServer[q][i] \in Command /\ i \in 0 .. Len(toServer[q])
            BY <2>1, <3>1
        <3>3. toServer[q][i].client \in ProxyClients
            BY <3>2 DEF Command, Message
        <3>4. q \in serverSees
            BY <2>1 DEF OrphansInv, SeenWereOpen
        <3>5. IsBound(toServer[q][i].client, q, i)
            BY <2>1 DEF OrphansInv, PendingAreBound
        <3>6. PICK d \in ProxyClients : d = toServer[q][i].client
            BY <3>3
        <3>7. IsBound(d, q, i)'
            BY <1>6, <3>2, <3>4, <3>5, <3>6
        <3> QED
            BY <2>1, <3>6, <3>7 DEF IsBound
    <2>2. CASE q = p /\ isUp /\ i = Len(toServer[p]) + 1
        <3>1. toServer'[q][i] = m
            BY <1>1, <1>2, <1>3, <2>2
        <3> QED
            BY <2>2, <3>1 DEF IsBound
    <2>3. CASE ~ (q = p /\ isUp)
        <3>1. toServer'[q] = toServer[q]
            BY <1>1, <1>2, <2>3
        <3> QED
            BY <2>1, <3>1
    <2>4. CASE q = p /\ isUp
        <3>1. toServer'[q] = toServer[p] \o <<m>>
            BY <1>1, <1>2, <2>4
        <3>2. i \in DOMAIN toServer[p] \/ i = Len(toServer[p]) + 1
            BY <1>3, <3>1
        <3> QED
            BY <1>3, <2>1, <2>2, <2>4, <3>1, <3>2
    <2> QED
        BY <2>3, <2>4
<1>8. SubscribersAreBound'
    <2> SUFFICES ASSUME NEW n \in Notifiers, NEW i \in DOMAIN m_subscriberVector[n]
                 PROVE  /\ m_subscriberVector[n][i].netPeer \in serverSees'
                        /\ IsBound(m_subscriberVector[n][i].client,
                                   m_subscriberVector[n][i].netPeer, 0)'
        BY DEF SubscribersAreBound
    <2>1. PICK c, q : c = m_subscriberVector[n][i].client /\ q = m_subscriberVector[n][i].netPeer
        OBVIOUS
    <2>2. m_subscriberVector[n] \in Seq(ScpiNotificationSubscriber)
        BY DEF ClientsTypeOK, SubscriptionTypeOK
    <2>3. m_subscriberVector[n][i] \in ScpiNotificationSubscriber
        BY <2>2
    <2>4. c \in ProxyClients
        BY <2>1, <2>3 DEF ScpiNotificationSubscriber
    <2>5. q \in serverSees /\ IsBound(c, q, 0)
        BY <2>1 DEF OrphansInv, SubscribersAreBound
    <2>6. Len(toServer[q]) \in Nat
        BY <1>1, <2>5 DEF ProxyTypeOK
    <2>7. IsBound(c, q, 0)'
        BY <1>6, <2>4, <2>5, <2>6
    <2> QED
        BY <2>1, <2>5, <2>7 DEF IsBound
<1> QED
    BY <1>5, <1>7, <1>8 DEF OrphansInv

\* The service takes the first message of p: what stays of the subscriptions does
\* not belong to a client whose RELEASE that was, and what comes belongs to the client.
LEMMA MessageTaken ==
    ASSUME ProxyTypeOK, ClientsTypeOK, OrphansInv, Subscribers = ProxyClients,
           NEW p \in serverSees, toServer[p] # <<>>,
           toServer' = [toServer EXCEPT ![p] = Tail(@)],
           UNCHANGED <<m_ConnectionHash, m_peerState, serverSees, deletedLater>>,
           m_subscriberVector' \in [Notifiers -> Seq(ScpiNotificationSubscriber)],
           \A n \in Notifiers : \A i \in DOMAIN m_subscriberVector'[n] :
               \/ \E j \in DOMAIN m_subscriberVector[n] :
                     /\ m_subscriberVector'[n][i] = m_subscriberVector[n][j]
                     /\ Head(toServer[p]).call = "RELEASE" =>
                            \/ m_subscriberVector[n][j].netPeer # p
                            \/ m_subscriberVector[n][j].client # Head(toServer[p]).client
               \/ /\ Head(toServer[p]).call # "RELEASE"
                  /\ m_subscriberVector'[n][i].netPeer = p
                  /\ m_subscriberVector'[n][i].client = Head(toServer[p]).client
    PROVE  OrphansInv'
<1> DEFINE all == toServer[p]
<1>1. toServer \in [NetPeers -> Seq(Command)] /\ p \in NetPeers
    BY DEF ClientsTypeOK, ProxyTypeOK
<1>2. all \in Seq(Command) /\ all # <<>>
    BY <1>1
<1> HIDE DEF all
<1>3. /\ Tail(all) \in Seq(Command)
      /\ Len(all) \in Nat /\ Len(all) >= 1
      /\ DOMAIN all = 1 .. Len(all)
      /\ DOMAIN Tail(all) = 1 .. Len(all) - 1
      /\ \A i \in 1 .. Len(all) - 1 : Tail(all)[i] = all[i + 1]
      /\ Head(all) = all[1]
    BY <1>2
<1>4. toServer'[p] = Tail(all) /\ \A q \in NetPeers : q # p => toServer'[q] = toServer[q]
    BY <1>1 DEF all
<1>6. SeenWereOpen'
    BY <1>4 DEF OrphansInv, SeenWereOpen
<1>7. ASSUME NEW d \in ProxyClients, NEW q \in serverSees, NEW i \in Nat,
             q # p, IsBound(d, q, i)
      PROVE  IsBound(d, q, i)'
    <2>1. toServer'[q] = toServer[q]
        BY <1>4, <1>7 DEF ProxyTypeOK
    <2> QED
        BY <1>7, <2>1 DEF IsBound
<1>8. ASSUME NEW d \in ProxyClients, NEW i \in Nat, IsBound(d, p, i + 1)
      PROVE  IsBound(d, p, i)'
    <2>1. CASE \E k \in DOMAIN all : k > i + 1 /\ all[k].call = "RELEASE" /\ all[k].client = d
        <3>1. PICK k \in DOMAIN all : k > i + 1 /\ all[k].call = "RELEASE" /\ all[k].client = d
            BY <2>1
        <3>2. k - 1 \in DOMAIN Tail(all) /\ k - 1 > i /\ Tail(all)[k - 1] = all[k]
            BY <1>3, <3>1
        <3>3. /\ k - 1 \in DOMAIN toServer'[p] /\ k - 1 > i
              /\ toServer'[p][k - 1].call = "RELEASE" /\ toServer'[p][k - 1].client = d
            BY <1>4, <3>1, <3>2
        <3> QED
            BY <3>3 DEF IsBound
    <2>2. CASE m_ConnectionHash[d] = p \/ m_peerState[p] # "open" \/ p \in deletedLater
        BY <2>2 DEF IsBound
    <2> QED
        BY <1>8, <2>1, <2>2 DEF IsBound, all
<1>9. ASSUME NEW d \in ProxyClients, IsBound(d, p, 0),
             Head(all).call = "RELEASE" => d # Head(all).client
      PROVE  IsBound(d, p, 1)
    <2>1. \A k \in DOMAIN all :
                k > 0 /\ all[k].call = "RELEASE" /\ all[k].client = d => k > 1
        BY <1>3, <1>9
    <2> QED
        BY <1>9, <2>1 DEF IsBound, all
<1>10. PendingAreBound'
    <2> SUFFICES ASSUME NEW q \in NetPeers, NEW i \in DOMAIN toServer'[q],
                        toServer'[q][i].call # "RELEASE"
                 PROVE  IsBound(toServer[q][i].client, q, i)'
        BY DEF PendingAreBound
    <2>1. q \in serverSees
        BY <1>6 DEF SeenWereOpen
    <2>2. CASE q = p
        <3>1. i \in 1 .. Len(all) - 1 /\ toServer'[q][i] = all[i + 1]
            BY <1>3, <1>4, <2>2
        <3>2. i + 1 \in DOMAIN all /\ all[i + 1] \in Command /\ i \in Nat
            BY <1>2, <1>3, <3>1
        <3>3. PICK d \in ProxyClients : d = all[i + 1].client
            BY <3>2 DEF Command, Message
        <3>4. IsBound(d, p, i + 1)
            BY <2>2, <3>1, <3>2, <3>3 DEF OrphansInv, PendingAreBound, all
        <3>5. IsBound(d, p, i)'
            BY <1>8, <3>2, <3>4
        <3> QED
            BY <2>2, <3>1, <3>3, <3>5 DEF IsBound
    <2>3. CASE q # p
        <3>1. toServer'[q] = toServer[q] /\ toServer[q] \in Seq(Command)
            BY <1>1, <1>4, <2>3
        <3>2. toServer[q][i] \in Command /\ i \in Nat
            BY <3>1
        <3>3. PICK d \in ProxyClients : d = toServer[q][i].client
            BY <3>2 DEF Command, Message
        <3>4. IsBound(d, q, i)
            BY <3>1, <3>3 DEF OrphansInv, PendingAreBound
        <3>5. IsBound(d, q, i)'
            BY <1>7, <2>1, <2>3, <3>2, <3>4
        <3> QED
            BY <3>1, <3>3, <3>5 DEF IsBound
    <2> QED
        BY <2>2, <2>3
<1>11. SubscribersAreBound'
    <2> SUFFICES ASSUME NEW n \in Notifiers, NEW i \in DOMAIN m_subscriberVector'[n]
                 PROVE  /\ m_subscriberVector'[n][i].netPeer \in serverSees
                        /\ IsBound(m_subscriberVector[n][i].client,
                                   m_subscriberVector[n][i].netPeer, 0)'
        BY DEF SubscribersAreBound
    <2> DEFINE s == m_subscriberVector'[n][i]
    <2>1. m_subscriberVector'[n] \in Seq(ScpiNotificationSubscriber)
        OBVIOUS
    <2>2. s \in ScpiNotificationSubscriber
        BY <2>1
    <2>3. PICK c \in ProxyClients : c = s.client
        BY <2>2 DEF ScpiNotificationSubscriber
    <2>4. CASE \E j \in DOMAIN m_subscriberVector[n] :
                     /\ s = m_subscriberVector[n][j]
                     /\ Head(all).call = "RELEASE" =>
                            \/ m_subscriberVector[n][j].netPeer # p
                            \/ m_subscriberVector[n][j].client # Head(all).client
        <3>1. PICK j \in DOMAIN m_subscriberVector[n] :
                     /\ s = m_subscriberVector[n][j]
                     /\ Head(all).call = "RELEASE" =>
                            \/ m_subscriberVector[n][j].netPeer # p
                            \/ m_subscriberVector[n][j].client # Head(all).client
            BY <2>4
        <3>2. s.netPeer \in serverSees /\ IsBound(c, s.netPeer, 0)
            BY <2>3, <3>1 DEF OrphansInv, SubscribersAreBound
        <3>3. CASE s.netPeer # p
            BY <1>7, <2>3, <3>2, <3>3 DEF IsBound
        <3>4. CASE s.netPeer = p
            <4>1. Head(all).call = "RELEASE" => c # Head(all).client
                BY <2>3, <3>1, <3>4
            <4>2. IsBound(c, p, 1)
                BY <1>9, <3>2, <3>4, <4>1
            <4>3. IsBound(c, p, 0 + 1)
                BY <4>2
            <4>4. IsBound(c, p, 0)'
                BY <1>8, <4>3
            <4> QED
                BY <2>3, <3>2, <3>4, <4>4 DEF IsBound
        <3> QED
            BY <3>3, <3>4
    <2>5. CASE /\ Head(all).call # "RELEASE"
               /\ s.netPeer = p /\ s.client = Head(all).client
        <3>1. c = all[1].client /\ all[1].call # "RELEASE" /\ 1 \in DOMAIN all
            BY <1>3, <2>3, <2>5
        <3>2. IsBound(c, p, 1)
            BY <1>1, <3>1 DEF OrphansInv, PendingAreBound, all
        <3>3. IsBound(c, p, 0 + 1)
            BY <3>2
        <3>4. IsBound(c, p, 0)'
            BY <1>8, <3>3
        <3> QED
            BY <2>3, <2>5, <3>4 DEF IsBound
    <2> QED
        BY <2>4, <2>5 DEF all
<1> QED
    BY <1>6, <1>10, <1>11 DEF OrphansInv

LEMMA PeerClosed ==
    ASSUME ProxyTypeOK, ClientsTypeOK, OrphansInv, Subscribers = ProxyClients,
           NEW p \in NetPeers, NotifyPeerConnectionClosed(p)
    PROVE  OrphansInv'
<1>1. /\ toServer' = [toServer EXCEPT ![p] = <<>>]
      /\ serverSees' = serverSees \ {p}
      /\ UNCHANGED <<m_ConnectionHash, m_peerState, deletedLater>>
    BY DEF NotifyPeerConnectionClosed, ServerLosesPeer
<1>2. /\ m_subscriberVector' \in [Notifiers -> Seq(ScpiNotificationSubscriber)]
      /\ \A n \in Notifiers : \A i \in DOMAIN m_subscriberVector'[n] :
            \E j \in DOMAIN m_subscriberVector[n] :
                /\ m_subscriberVector'[n][i] = m_subscriberVector[n][j]
                /\ \/ m_subscriberVector[n][j].netPeer # p
                   \/ m_subscriberVector[n][j].client \notin ProxyClients
    BY SubscribersLeft DEF NotifyPeerConnectionClosed, ClientsTypeOK
<1>3. toServer \in [NetPeers -> Seq(Command)]
    BY DEF ClientsTypeOK, SubscriptionTypeOK
<1>4. toServer'[p] = <<>> /\ \A q \in NetPeers : q # p => toServer'[q] = toServer[q]
    BY <1>1, <1>3
<1>6. SeenWereOpen'
    BY <1>1, <1>4 DEF OrphansInv, SeenWereOpen
<1>7. PendingAreBound'
    <2> SUFFICES ASSUME NEW q \in NetPeers, NEW i \in DOMAIN toServer'[q],
                        toServer'[q][i].call # "RELEASE"
                 PROVE  IsBound(toServer[q][i].client, q, i)'
        BY DEF PendingAreBound
    <2>1. q # p /\ toServer'[q] = toServer[q]
        BY <1>4
    <2>2. IsBound(toServer[q][i].client, q, i)
        BY <2>1 DEF OrphansInv, PendingAreBound
    <2> QED
        BY <1>1, <2>1, <2>2 DEF IsBound
<1>8. SubscribersAreBound'
    <2> SUFFICES ASSUME NEW n \in Notifiers, NEW i \in DOMAIN m_subscriberVector'[n]
                 PROVE  /\ m_subscriberVector'[n][i].netPeer \in serverSees'
                        /\ IsBound(m_subscriberVector[n][i].client,
                                   m_subscriberVector[n][i].netPeer, 0)'
        BY DEF SubscribersAreBound
    <2>1. PICK j \in DOMAIN m_subscriberVector[n] :
                /\ m_subscriberVector'[n][i] = m_subscriberVector[n][j]
                /\ \/ m_subscriberVector[n][j].netPeer # p
                   \/ m_subscriberVector[n][j].client \notin ProxyClients
        BY <1>2
    <2> DEFINE s == m_subscriberVector[n][j]
    <2>2. m_subscriberVector[n] \in Seq(ScpiNotificationSubscriber)
        BY DEF ClientsTypeOK, SubscriptionTypeOK
    <2>3. s \in ScpiNotificationSubscriber
        BY <2>2
    <2>4. s.netPeer # p
        BY <2>1, <2>3 DEF ScpiNotificationSubscriber
    <2>5. s.netPeer \in serverSees /\ IsBound(s.client, s.netPeer, 0)
        BY DEF OrphansInv, SubscribersAreBound
    <2>6. m_subscriberVector'[n][i] = s
        BY <2>1
    <2> HIDE DEF s
    <2>7. toServer'[s.netPeer] = toServer[s.netPeer]
        BY <1>4, <2>4, <2>5 DEF ProxyTypeOK
    <2> QED
        BY <1>1, <2>4, <2>5, <2>6, <2>7 DEF IsBound
<1> QED
    BY <1>6, <1>7, <1>8 DEF OrphansInv

LEMMA Served_Orphans ==
    ASSUME ServiceClientsAssumption, ProxyTypeOK, ClientsTypeOK, OrphansInv, NEW p \in NetPeers, Serve(p)
    PROVE  OrphansInv'
<1>1. Subscribers = ProxyClients /\ ServerPeers = NetPeers
    BY DEF ServiceClientsAssumption
<1> DEFINE m == Head(toServer[p])
<1>2. ASSUME NEW calls, Serves(p, calls)
      PROVE  /\ p \in serverSees /\ toServer[p] # <<>> /\ m.call \in calls
             /\ toServer' = [toServer EXCEPT ![p] = Tail(@)]
             /\ UNCHANGED <<m_ConnectionHash, m_peerState, serverSees, deletedLater>>
    BY <1>2 DEF Serves, proxyVars
<1>3. toServer[p] # <<>> => m \in Command
    <2>1. toServer[p] \in Seq(Command)
        BY DEF ClientsTypeOK, SubscriptionTypeOK
    <2> QED
        BY <2>1
<1>4. ASSUME NEW calls, Serves(p, calls), UNCHANGED m_subscriberVector, "RELEASE" \notin calls
      PROVE  OrphansInv'
    <2>1. m_subscriberVector' \in [Notifiers -> Seq(ScpiNotificationSubscriber)]
        BY <1>4 DEF ClientsTypeOK, SubscriptionTypeOK
    <2>2. m.call # "RELEASE"
        BY <1>2, <1>4
    <2> QED
        BY <1>1, <1>2, <1>4, <2>1, <2>2, MessageTaken
<1>5. CASE ServeRelease(p)
    <2>1. Serves(p, {"RELEASE"}) /\ RemoveAllSubscribers(p, {m.client})
        BY <1>5 DEF ServeRelease
    <2>2. m.call = "RELEASE"
        BY <1>2, <2>1
    <2>3. SubscriptionTypeOK
        BY DEF ClientsTypeOK
    <2>4. PICK cs : cs = {m.client}
        OBVIOUS
    <2>5. RemoveAllSubscribers(p, cs)
        BY <2>1, <2>4
    <2>6. /\ m_subscriberVector' \in [Notifiers -> Seq(ScpiNotificationSubscriber)]
          /\ \A n \in Notifiers : \A i \in DOMAIN m_subscriberVector'[n] :
                \E j \in DOMAIN m_subscriberVector[n] :
                    /\ m_subscriberVector'[n][i] = m_subscriberVector[n][j]
                    /\ \/ m_subscriberVector[n][j].netPeer # p
                       \/ m_subscriberVector[n][j].client \notin cs
        BY <2>3, <2>5, SubscribersLeft
    <2>7. \A n \in Notifiers : \A i \in DOMAIN m_subscriberVector'[n] :
                \E j \in DOMAIN m_subscriberVector[n] :
                    /\ m_subscriberVector'[n][i] = m_subscriberVector[n][j]
                    /\ \/ m_subscriberVector[n][j].netPeer # p
                       \/ m_subscriberVector[n][j].client # m.client
        BY <2>4, <2>6
    <2>8. \A n \in Notifiers : \A i \in DOMAIN m_subscriberVector'[n] :
               \/ \E j \in DOMAIN m_subscriberVector[n] :
                     /\ m_subscriberVector'[n][i] = m_subscriberVector[n][j]
                     /\ m.call = "RELEASE" =>
                            \/ m_subscriberVector[n][j].netPeer # p
                            \/ m_subscriberVector[n][j].client # m.client
               \/ /\ m.call # "RELEASE"
                  /\ m_subscriberVector'[n][i].netPeer = p
                  /\ m_subscriberVector'[n][i].client = m.client
        BY <2>7
    <2>9. /\ p \in serverSees /\ toServer[p] # <<>>
          /\ toServer' = [toServer EXCEPT ![p] = Tail(@)]
          /\ UNCHANGED <<m_ConnectionHash, m_peerState, serverSees, deletedLater>>
        BY <1>2, <2>1
    <2> QED
        BY <1>1, <2>6, <2>8, <2>9, MessageTaken
<1>6. CASE ServeUnregister(p)
    <2>1. Serves(p, {"unregisterNotifiers"}) /\ RemoveAllSubscribers(p, {m.client})
        BY <1>6 DEF ServeUnregister
    <2>2. m.call # "RELEASE"
        BY <1>2, <2>1
    <2>3. /\ m_subscriberVector' \in [Notifiers -> Seq(ScpiNotificationSubscriber)]
          /\ \A n \in Notifiers : \A i \in DOMAIN m_subscriberVector'[n] :
                \E j \in DOMAIN m_subscriberVector[n] :
                    m_subscriberVector'[n][i] = m_subscriberVector[n][j]
        BY <2>1, SubscribersLeft DEF ClientsTypeOK
    <2> QED
        BY <1>1, <1>2, <2>1, <2>2, <2>3, MessageTaken
<1>7. CASE ServeRegister(p)
    <2> DEFINE s == [netPeer |-> p, client |-> m.client, withValue |-> m.text # NoText]
    <2>1. Serves(p, {"registerNotifier"}) /\ AddSubscriber(m.notifier, s)
        BY <1>7 DEF ServeRegister
    <2>2. m.call # "RELEASE" /\ m \in Command
        BY <1>2, <1>3, <2>1
    <2>3. s \in ScpiNotificationSubscriber /\ s.netPeer = p /\ s.client = m.client
        BY <1>1, <2>2 DEF Command, Message, ScpiNotificationSubscriber
    <2>4. m.notifier \in Notifiers
        BY <2>2 DEF Command, Message
    <2>5. m_subscriberVector \in [Notifiers -> Seq(ScpiNotificationSubscriber)]
        BY DEF ClientsTypeOK, SubscriptionTypeOK
    <2> HIDE DEF s
    <2>6. CASE UNCHANGED m_subscriberVector
        BY <1>4, <2>1, <2>6
    <2>7. CASE m_subscriberVector' = [m_subscriberVector EXCEPT ![m.notifier] = Append(@, s)]
        <3> DEFINE old == m_subscriberVector[m.notifier]
        <3>1. old \in Seq(ScpiNotificationSubscriber)
            BY <2>4, <2>5
        <3> HIDE DEF old
        <3>2. /\ Append(old, s) \in Seq(ScpiNotificationSubscriber)
              /\ Len(old) \in Nat /\ DOMAIN old = 1 .. Len(old)
              /\ DOMAIN Append(old, s) = 1 .. Len(old) + 1
              /\ Append(old, s)[Len(old) + 1] = s
              /\ \A i \in DOMAIN old : Append(old, s)[i] = old[i]
            BY <2>3, <3>1
        <3>3. \A i \in DOMAIN Append(old, s) : i \in DOMAIN old \/ i = Len(old) + 1
            BY <3>2
        <3>4. m_subscriberVector'[m.notifier] = Append(old, s)
            BY <2>4, <2>5, <2>7 DEF old
        <3>5. \A n \in Notifiers :
                n # m.notifier => m_subscriberVector'[n] = m_subscriberVector[n]
            BY <2>5, <2>7
        <3>6. m_subscriberVector' \in [Notifiers -> Seq(ScpiNotificationSubscriber)]
            BY <2>4, <2>5, <2>7, <3>2 DEF old
        <3>7. ASSUME NEW n \in Notifiers, NEW i \in DOMAIN m_subscriberVector'[n]
              PROVE  \/ \E j \in DOMAIN m_subscriberVector[n] :
                            m_subscriberVector'[n][i] = m_subscriberVector[n][j]
                     \/ /\ m_subscriberVector'[n][i].netPeer = p
                        /\ m_subscriberVector'[n][i].client = m.client
            <4>1. CASE n # m.notifier
                BY <3>5, <4>1
            <4>2. CASE n = m.notifier
                BY <2>3, <3>2, <3>3, <3>4, <4>2 DEF old
            <4> QED
                BY <4>1, <4>2
        <3>8. \A n \in Notifiers : \A i \in DOMAIN m_subscriberVector'[n] :
               \/ \E j \in DOMAIN m_subscriberVector[n] :
                     /\ m_subscriberVector'[n][i] = m_subscriberVector[n][j]
                     /\ m.call = "RELEASE" =>
                            \/ m_subscriberVector[n][j].netPeer # p
                            \/ m_subscriberVector[n][j].client # m.client
               \/ /\ m.call # "RELEASE"
                  /\ m_subscriberVector'[n][i].netPeer = p
                  /\ m_subscriberVector'[n][i].client = m.client
            BY <2>2, <3>7
        <3>9. /\ p \in serverSees /\ toServer[p] # <<>>
              /\ toServer' = [toServer EXCEPT ![p] = Tail(@)]
              /\ UNCHANGED <<m_ConnectionHash, m_peerState, serverSees, deletedLater>>
            BY <1>2, <2>1
        <3> QED
            BY <1>1, <3>6, <3>8, <3>9, MessageTaken
    <2> QED
        BY <2>1, <2>6, <2>7 DEF AddSubscriber
<1>8. CASE ServeRead(p)
    <2>1. Serves(p, {"getRange"}) /\ UNCHANGED m_subscriberVector
        BY <1>8 DEF ServeRead, subscriptionVars
    <2> QED
        BY <1>4, <2>1
<1>9. CASE ServePlain(p)
    <2> DEFINE calls == (UNION {Uses[c] : c \in ProxyClients}) \ NotifierCalls
    <2>1. Serves(p, calls) /\ UNCHANGED m_subscriberVector
        BY <1>9 DEF ServePlain, subscriptionVars
    <2>2. "RELEASE" \notin calls
        BY DEF ServiceClientsAssumption
    <2> HIDE DEF calls
    <2> QED
        BY <1>4, <2>1, <2>2
<1>10. CASE ServeSetRange(p)
    <2>1. Serves(p, {"setRange"}) /\ UNCHANGED m_subscriberVector
        BY <1>10 DEF ServeSetRange, subscriptionVars
    <2> QED
        BY <1>4, <2>1
<1> QED
    BY <1>5, <1>6, <1>7, <1>8, <1>9, <1>10 DEF Serve

LEMMA Sent_Orphans ==
    ASSUME ServiceClientsAssumption, ClientsTypeOK, OrphansInv,
           NEW c \in ProxyClients, NEW call, NEW n \in Notifiers,
           NEW text \in Texts \cup {NoText}, call = "setRange" => text \in Texts,
           SendCommand(c, call, n, text)
    PROVE  OrphansInv'
<1> DEFINE p == m_ConnectionHash[c]
           m == [client |-> c, nr |-> GetMsgNr, call |-> call, notifier |-> n, text |-> text]
<1>1. /\ p \in NetPeers /\ call \in Uses[c]
      /\ ServerGets(p, m)
      /\ UNCHANGED <<proxyVars, subscriptionVars>>
    BY DEF SendCommand, ClientsTypeOK, ProxyTypeOK, Living
<1>2. /\ UNCHANGED <<m_ConnectionHash, m_peerState, serverSees, deletedLater,
                     m_subscriberVector>>
    BY <1>1 DEF proxyVars, subscriptionVars
<1>3. call \in CallNames /\ call # "RELEASE"
    BY <1>1, CallOfClient
<1>4. ProxyTypeOK
    BY DEF ClientsTypeOK
<1>5. m \in Command
    BY <1>1, MessageOfClient DEF ClientsTypeOK
<1>6. m.client = c /\ m.call # "RELEASE"
    BY <1>3
<1>7. m_ConnectionHash[c] = p
    OBVIOUS
<1> HIDE DEF m, p
<1>8. toServer' = SendTo(toServer, p, <<m>>, m_peerState[p] = "open" /\ p \in serverSees)
    BY <1>1 DEF ServerGets
<1>9. Subscribers = ProxyClients
    BY DEF ServiceClientsAssumption
<1> QED
    BY <1>1, <1>2, <1>4, <1>5, <1>6, <1>7, <1>8, <1>9, MessagePushed

LEMMA Release_Orphans ==
    ASSUME ServiceClientsAssumption, ProxyTypeOK, ClientsTypeOK, OrphansInv, NEW c \in ProxyClients, Release(c)
    PROVE  OrphansInv'
<1> DEFINE p == m_ConnectionHash[c]
           m == [client |-> c, nr |-> 0, call |-> "RELEASE",
                 notifier |-> CHOOSE n \in Notifiers : TRUE, text |-> NoText]
<1>1. /\ p \in NetPeers
      /\ ServerGets(p, m)
      /\ ReleaseConnection(c)
      /\ UNCHANGED subscriptionVars
    BY DEF Release, ReleaseConnection, ProxyTypeOK, Living
<1>2. /\ UNCHANGED <<m_peerState, serverSees, m_subscriberVector>>
      /\ deletedLater \subseteq deletedLater'
      /\ m_ConnectionHash' = [m_ConnectionHash EXCEPT ![c] = NoPeer]
    BY <1>1 DEF ReleaseConnection, subscriptionVars
<1>3. \A d \in ProxyClients : d = c \/ m_ConnectionHash'[d] = m_ConnectionHash[d]
    BY <1>2 DEF ProxyTypeOK
<1>5. m \in Command
    BY ReleaseMessage
<1>6. m.client = c /\ m.call = "RELEASE"
    OBVIOUS
<1>7. m_ConnectionHash[c] = p
    OBVIOUS
<1> HIDE DEF m, p
<1>8. toServer' = SendTo(toServer, p, <<m>>, m_peerState[p] = "open" /\ p \in serverSees)
    BY <1>1 DEF ServerGets
<1>9. Subscribers = ProxyClients
    BY DEF ServiceClientsAssumption
<1> QED
    BY <1>1, <1>2, <1>3, <1>5, <1>6, <1>7, <1>8, <1>9, MessagePushed

LEMMA Connected_Orphans ==
    ASSUME ServiceClientsAssumption, ProxyAssumption, ProxyInv, OrphansInv,
           ClientsTypeOK, NEW c \in ProxyClients, Connect(c) \/ StartConnection(c)
    PROVE  OrphansInv'
<1>1. Subscribers = ProxyClients /\ NoPeer \notin NetPeers /\ ProxyTypeOK
    BY DEF ServiceClientsAssumption, ProxyAssumption, ProxyInv
<1>2. UNCHANGED <<m_subscriberVector, toServer, serverSees, deletedLater>>
    BY DEF Connect, StartConnection, subscriptionVars, clientVars, GetConnectionSmart,
           StartConnectionSmart
<1>3. \A p \in serverSees : m_peerState[p] \in {"open", "closed", "deleted"} /\ p \in NetPeers
    BY <1>1 DEF OrphansInv, SeenWereOpen, ProxyTypeOK
<1>4. \A p \in serverSees : m_peerState'[p] = m_peerState[p]
    <2>1. CASE StartConnection(c)
        <3>1. m_peerState' = [m_peerState EXCEPT ![m_ConnectionHash[c]] =
                                IF @ = "idle" THEN "connecting" ELSE @]
            BY <2>1 DEF StartConnection, StartConnectionSmart
        <3> QED
            BY <1>1, <1>3, <3>1 DEF ProxyTypeOK
    <2>2. CASE Connect(c) /\ NewPeer # NoPeer
                /\ m_peerState' = [m_peerState EXCEPT ![NewPeer] = "idle"]
        <3>1. NewPeer \in NetPeers /\ m_peerState[NewPeer] = "unused"
            BY <2>2, NewPeer_Unused
        <3> QED
            BY <1>1, <1>3, <2>2, <3>1 DEF ProxyTypeOK
    <2>3. CASE UNCHANGED m_peerState
        BY <2>3
    <2> QED
        BY <2>1, <2>2, <2>3 DEF Connect, GetConnectionSmart
<1>5. \A d \in ProxyClients : m_ConnectionHash[d] \in NetPeers =>
                                    m_ConnectionHash'[d] = m_ConnectionHash[d]
    <2>1. CASE StartConnection(c)
        BY <2>1 DEF StartConnection, StartConnectionSmart
    <2>2. CASE Connect(c)
        <3>1. c \notin uuids
            BY <2>2 DEF Connect, GetConnectionSmart
        <3>2. m_ConnectionHash[c] \notin NetPeers
            BY <1>1, <3>1 DEF ProxyInv, AbsentClientsAreBlank, Living
        <3>3. \E p : m_ConnectionHash' = [m_ConnectionHash EXCEPT ![c] = p]
            BY <2>2 DEF Connect, GetConnectionSmart
        <3> QED
            BY <1>1, <3>2, <3>3 DEF ProxyTypeOK
    <2> QED
        BY <2>1, <2>2
<1> QED
    BY <1>1, <1>2, <1>3, <1>4, <1>5, NothingServed

LEMMA Connection_Orphans ==
    ASSUME ServiceClientsAssumption, ProxyTypeOK, ClientsTypeOK, OrphansInv,
           NEW p \in NetPeers, Connection(p)
    PROVE  OrphansInv'
<1>1. Subscribers = ProxyClients
    BY DEF ServiceClientsAssumption
<1>2. \A q \in serverSees : m_peerState[q] \in {"open", "closed", "deleted"} /\ q \in NetPeers
    BY DEF OrphansInv, SeenWereOpen, ProxyTypeOK
<1>3. CASE NotifyPeerConnectionClosed(p)
    BY <1>1, <1>3, PeerClosed
<1>4. CASE Establish(p)
    <2>1. /\ m_peerState[p] = "connecting"
          /\ m_peerState' = [m_peerState EXCEPT ![p] = "open"]
          /\ serverSees' = serverSees \cup {p}
          /\ UNCHANGED <<m_ConnectionHash, deletedLater, m_subscriberVector, toServer>>
        BY <1>4 DEF Establish, Established, subscriptionVars, clientVars
    <2>2. p \notin serverSees
        BY <1>2, <2>1
    <2>3. m_peerState'[p] = "open" /\ \A q \in serverSees : m_peerState'[q] = m_peerState[q]
        BY <1>2, <2>1, <2>2 DEF ProxyTypeOK
    <2>4. serverSees' \subseteq NetPeers /\ serverSees \subseteq serverSees'
        BY <2>1 DEF ProxyTypeOK
    <2>5. \A q \in serverSees' : m_peerState'[q] \in {"open", "closed", "deleted"}
        BY <1>2, <2>1, <2>3
    <2> QED
        BY <1>1, <2>1, <2>3, <2>4, <2>5, NothingServed
<1>5. CASE Refuse(p) \/ LoseConnection(p) \/ DeleteNetPeer(p)
    <2>1. UNCHANGED <<m_ConnectionHash, deletedLater, serverSees, m_subscriberVector, toServer>>
        BY <1>5 DEF Refuse, Refused, LoseConnection, ConnectionClosed, DeleteNetPeer, DeletePeer,
                    subscriptionVars, clientVars
    <2>2. PICK state \in {"failed", "closed", "deleted"} :
                /\ m_peerState' = [m_peerState EXCEPT ![p] = state]
                /\ state = "failed" => m_peerState[p] = "connecting"
        BY <1>5 DEF Refuse, Refused, LoseConnection, ConnectionClosed, DeleteNetPeer, DeletePeer
    <2>3. \A q \in serverSees : /\ q # p => m_peerState'[q] = m_peerState[q]
                                /\ q = p => m_peerState'[q] = state /\ state # "failed"
        BY <1>2, <2>2 DEF ProxyTypeOK
    <2>4. \A q \in serverSees' : m_peerState'[q] \in {"open", "closed", "deleted"}
        BY <1>2, <2>1, <2>2, <2>3
    <2>5. \A q \in serverSees : m_peerState[q] # "open" => m_peerState'[q] # "open"
        BY <2>2, <2>3
    <2>6. serverSees' \subseteq NetPeers
        BY <2>1 DEF ProxyTypeOK
    <2> QED
        BY <1>1, <2>1, <2>4, <2>5, <2>6, NothingServed
<1> QED
    BY <1>3, <1>4, <1>5 DEF Connection

LEMMA Unserved_Orphans ==
    ASSUME ServiceClientsAssumption, ProxyTypeOK, ClientsTypeOK, OrphansInv,
           UNCHANGED <<proxyVars, m_subscriberVector, toServer>>
    PROVE  OrphansInv'
<1>1. Subscribers = ProxyClients
    BY DEF ServiceClientsAssumption
<1>2. UNCHANGED <<m_ConnectionHash, m_peerState, deletedLater, serverSees>>
    BY DEF proxyVars
<1>3. \A p \in serverSees' : m_peerState'[p] \in {"open", "closed", "deleted"}
    BY <1>2 DEF OrphansInv, SeenWereOpen
<1>4. serverSees' \subseteq NetPeers
    BY <1>2 DEF ProxyTypeOK
<1> QED
    BY <1>1, <1>2, <1>3, <1>4, NothingServed

LEMMA OrphansInvStep ==
    ASSUME ServiceClientsAssumption, ProxyAssumption, ProxyInv, ClientsTypeOK, OrphansInv,
           [Next]_vars
    PROVE  OrphansInv'
<1>1. ProxyTypeOK /\ m_nMsgNr \in Nat
    BY DEF ProxyInv, ClientsTypeOK, ServiceClientsAssumption
<1>2. ASSUME NEW c \in ProxyClients, Process(c) PROVE OrphansInv'
    <2>1. CASE Connect(c) \/ StartConnection(c)
        BY <2>1, Connected_Orphans
    <2>2. CASE Release(c)
        BY <1>1, <2>2, Release_Orphans
    <2>3. CASE Ask(c) \/ SetRange(c) \/ RegisterNotifier(c) \/ UnregisterNotifiers(c) \/ Read(c)
        <3>1. (CHOOSE n \in Notifiers : TRUE) \in Notifiers
            BY DEF ServiceClientsAssumption
        <3>2. ASSUME NEW call, NEW n \in Notifiers, NEW text \in Texts \cup {NoText},
                     call = "setRange" => text \in Texts, SendCommand(c, call, n, text)
              PROVE  OrphansInv'
            BY <1>1, <3>2, Sent_Orphans
        <3>3. NoText \in Texts \cup {NoText}
            OBVIOUS
        <3>4. CASE Ask(c)
            BY <3>1, <3>2, <3>3, <3>4 DEF Ask, NotifierCalls
        <3>5. CASE SetRange(c)
            BY <3>2, <3>5 DEF SetRange
        <3>6. CASE RegisterNotifier(c)
            <4>1. PICK n \in Notifiers, t \in {NoText, FirstText} :
                        SendCommand(c, "registerNotifier", n, t)
                BY <3>6 DEF RegisterNotifier
            <4>2. t \in Texts \cup {NoText}
                BY DEF ServiceClientsAssumption
            <4> QED
                BY <3>2, <4>1, <4>2
        <3>7. CASE UnregisterNotifiers(c)
            BY <3>1, <3>2, <3>3, <3>7 DEF UnregisterNotifiers
        <3>8. CASE Read(c)
            BY <3>2, <3>3, <3>8 DEF Read, ClientsTypeOK
        <3> QED
            BY <2>3, <3>4, <3>5, <3>6, <3>7, <3>8
    <2> QED
        BY <1>2, <2>1, <2>2, <2>3 DEF Process
<1>3. ASSUME NEW p \in NetPeers, Serve(p) PROVE OrphansInv'
    BY <1>1, <1>3, Served_Orphans
<1>4. ASSUME NEW p \in NetPeers, Connection(p) PROVE OrphansInv'
    BY <1>1, <1>4, Connection_Orphans
<1>5. ASSUME NEW p \in NetPeers, ReceiveAnswer(p) PROVE OrphansInv'
    <2>1. UNCHANGED <<proxyVars, m_subscriberVector, toServer>>
        BY <1>5 DEF ReceiveAnswer, subscriptionVars
    <2> QED
        BY <1>1, <2>1, Unserved_Orphans
<1>6. CASE CmdDone \/ \E n \in Notifiers : Assign(n) \/ Trigger(n)
    <2>1. UNCHANGED <<proxyVars, m_subscriberVector, toServer>>
        BY <1>6 DEF CmdDone, Assign, Trigger, subscriptionVars
    <2> QED
        BY <1>1, <2>1, Unserved_Orphans
<1>7. CASE UNCHANGED vars
    <2>1. UNCHANGED <<proxyVars, m_subscriberVector, toServer>>
        BY <1>7 DEF vars, subscriptionVars, clientVars
    <2> QED
        BY <1>1, <2>1, Unserved_Orphans
<1> QED
    BY <1>2, <1>3, <1>4, <1>5, <1>6, <1>7 DEF Next

LEMMA OrphansInvHolds == Spec => []OrphansInv
<1>1. Init => OrphansInv
    BY DEF Init, SubscriptionInit, ProxyInit, OrphansInv, SeenWereOpen, PendingAreBound,
           SubscribersAreBound
<1>2. OrphansInv /\ ClientsTypeOK /\ ProxyInv /\ [Next]_vars => OrphansInv'
    BY ServiceClientsAssumption, ProxyAssumption, OrphansInvStep
<1> QED
    BY <1>1, <1>2, ProxyInvHolds, ClientsTypeOKHolds, PTL DEF Spec

\* Whatever order connections, messages and their ends come in, no subscription is
\* left behind by a client that has gone: what removes it is on its way.
THEOREM NoOrphansAlways == Spec => []NoOrphans
<1>1. OrphansInv => NoOrphans
    <2> SUFFICES ASSUME OrphansInv, NEW n \in Notifiers, NEW i \in DOMAIN m_subscriberVector[n]
                 PROVE  LET s == m_subscriberVector[n][i]
                        IN  /\ s.netPeer \in serverSees
                            /\ \/ m_ConnectionHash[s.client] = s.netPeer
                               \/ m_peerState[s.netPeer] # "open"
                               \/ s.netPeer \in deletedLater
                               \/ \E k \in DOMAIN toServer[s.netPeer] :
                                    /\ toServer[s.netPeer][k].call = "RELEASE"
                                    /\ toServer[s.netPeer][k].client = s.client
        BY DEF NoOrphans
    <2> QED
        BY DEF OrphansInv, SubscribersAreBound, IsBound
<1> QED
    BY <1>1, OrphansInvHolds, PTL

-----------------------------------------------------------------------------
(* Numbers of messages: lists of messages, by the queue they are in.        *)

\* No number but 0 is in the queues twice.
NumbersOnce(D, f) ==
    \A x, y \in D : \A i \in DOMAIN f[x], j \in DOMAIN f[y] :
        f[x][i].nr # 0 /\ f[x][i].nr = f[y][j].nr => x = y /\ i = j

IsFresh(D, f, nr) == \A x \in D : \A i \in DOMAIN f[x] : f[x][i].nr # nr

\* Each message of g is one of f.
ComesFrom(D, g, f) == \A x \in D : \A i \in DOMAIN g[x] : \E j \in DOMAIN f[x] : g[x][i] = f[x][j]

HasNoNumbers(D, z) == \A x \in D : \A i \in DOMAIN z[x] : z[x][i].nr = 0

WithoutFirst(f, x) == [f EXCEPT ![x] = Tail(@)]
WithLast(f, x, m) == [f EXCEPT ![x] = @ \o <<m>>]
WithAll(D, f, z) == [x \in D |-> f[x] \o z[x]]

IsNew(D, f, m) == m.nr # 0 => IsFresh(D, f, m.nr)

AddsOnly(D, g, f, m) ==
    \A y \in D : \A i \in DOMAIN g[y] : g[y][i] = m \/ \E j \in DOMAIN f[y] : g[y][i] = f[y][j]

AddsUnnumbered(D, g, f) ==
    \A y \in D : \A i \in DOMAIN g[y] :
        g[y][i].nr = 0 \/ \E j \in DOMAIN f[y] : g[y][i] = f[y][j]

AddsBoth(D, g, f, m) ==
    \A y \in D : \A i \in DOMAIN g[y] :
        \/ g[y][i].nr = 0
        \/ g[y][i] = m
        \/ \E j \in DOMAIN f[y] : g[y][i] = f[y][j]

StaysFresh(D, g, f) == \A nr : nr # 0 /\ IsFresh(D, f, nr) => IsFresh(D, g, nr)

LEMMA FirstTaken ==
    ASSUME NEW D, NEW T, NEW f \in [D -> Seq(T)], NumbersOnce(D, f),
           NEW x \in D, f[x] # <<>>, NEW g, g = WithoutFirst(f, x)
    PROVE  /\ g \in [D -> Seq(T)]
           /\ NumbersOnce(D, g)
           /\ Head(f[x]).nr # 0 => IsFresh(D, g, Head(f[x]).nr)
           /\ ComesFrom(D, g, f)
           /\ 1 \in DOMAIN f[x] /\ f[x][1] = Head(f[x]) /\ Head(f[x]) \in T
<1> DEFINE all == f[x]
<1>1. all \in Seq(T) /\ all # <<>>
    OBVIOUS
<1> HIDE DEF all
<1>2. /\ Tail(all) \in Seq(T)
      /\ Len(all) \in Nat /\ Len(all) >= 1
      /\ DOMAIN all = 1 .. Len(all)
      /\ DOMAIN Tail(all) = 1 .. Len(all) - 1
      /\ \A i \in 1 .. Len(all) - 1 : Tail(all)[i] = all[i + 1]
      /\ Head(all) = all[1] /\ Head(all) \in T
    BY <1>1
<1>3. g[x] = Tail(all) /\ \A y \in D : y # x => g[y] = f[y]
    BY DEF all, WithoutFirst
<1>4. g \in [D -> Seq(T)]
    BY <1>2 DEF all, WithoutFirst
\* Where a message of g was in f.
<1> DEFINE from(y, i) == IF y = x THEN i + 1 ELSE i
<1>5. ASSUME NEW y \in D, NEW i \in DOMAIN g[y]
      PROVE  /\ from(y, i) \in DOMAIN f[y] /\ g[y][i] = f[y][from(y, i)]
             /\ i \in Nat /\ (y = x => from(y, i) # 1)
    <2>1. CASE y = x
        BY <1>2, <1>3, <2>1 DEF all
    <2>2. CASE y # x
        <3>1. g[y] \in Seq(T)
            BY <1>4
        <3> QED
            BY <1>3, <2>2, <3>1
    <2> QED
        BY <2>1, <2>2
<1>6. NumbersOnce(D, g)
    <2> SUFFICES ASSUME NEW y \in D, NEW z \in D, NEW i \in DOMAIN g[y], NEW j \in DOMAIN g[z],
                        g[y][i].nr # 0, g[y][i].nr = g[z][j].nr
                 PROVE  y = z /\ i = j
        BY DEF NumbersOnce
    <2>1. y = z /\ from(y, i) = from(z, j)
        <3> HIDE DEF from
        <3> QED
            BY <1>5 DEF NumbersOnce
    <2> QED
        BY <1>5, <2>1
<1>7. ComesFrom(D, g, f)
    BY <1>5 DEF ComesFrom
<1>8. ASSUME Head(all).nr # 0, NEW y \in D, NEW i \in DOMAIN g[y], g[y][i].nr = Head(all).nr
      PROVE  FALSE
    <2>1. 1 \in DOMAIN f[x] /\ f[x][1].nr = Head(all).nr
        BY <1>2 DEF all
    <2>2. x = y /\ from(y, i) = 1
        <3> HIDE DEF from
        <3> QED
            BY <1>5, <1>8, <2>1 DEF NumbersOnce
    <2> QED
        BY <1>5, <2>2
<1>9. Head(f[x]).nr # 0 => IsFresh(D, g, Head(f[x]).nr)
    BY <1>8 DEF IsFresh, all
<1>10. 1 \in DOMAIN f[x] /\ f[x][1] = Head(f[x]) /\ Head(f[x]) \in T
    BY <1>2 DEF all
<1> QED
    BY <1>4, <1>6, <1>7, <1>9, <1>10

LEMMA LastPut ==
    ASSUME NEW D, NEW T, NEW f \in [D -> Seq(T)], NumbersOnce(D, f),
           NEW x \in D, NEW m \in T, IsNew(D, f, m),
           NEW g, g = WithLast(f, x, m)
    PROVE  /\ g \in [D -> Seq(T)]
           /\ NumbersOnce(D, g)
           /\ AddsOnly(D, g, f, m)
<1> DEFINE all == f[x]
<1>1. all \in Seq(T)
    OBVIOUS
<1> HIDE DEF all
<1>2. /\ all \o <<m>> \in Seq(T)
      /\ Len(all) \in Nat
      /\ DOMAIN all = 1 .. Len(all)
      /\ DOMAIN (all \o <<m>>) = 1 .. Len(all) + 1
      /\ \A i \in 1 .. Len(all) : (all \o <<m>>)[i] = all[i]
      /\ (all \o <<m>>)[Len(all) + 1] = m
    BY <1>1
<1>3. g[x] = all \o <<m>> /\ \A y \in D : y # x => g[y] = f[y]
    BY DEF all, WithLast
<1>4. g \in [D -> Seq(T)]
    BY <1>2 DEF all, WithLast
<1>5. ASSUME NEW y \in D, NEW i \in DOMAIN g[y]
      PROVE  \/ i \in DOMAIN f[y] /\ g[y][i] = f[y][i]
             \/ y = x /\ i = Len(all) + 1 /\ g[y][i] = m
    <2>1. CASE y = x
        <3>1. i \in 1 .. Len(all) \/ i = Len(all) + 1
            BY <1>2, <1>3, <2>1
        <3> QED
            BY <1>2, <1>3, <2>1, <3>1 DEF all
    <2>2. CASE y # x
        BY <1>3, <2>2
    <2> QED
        BY <2>1, <2>2
<1>6. NumbersOnce(D, g)
    <2> SUFFICES ASSUME NEW y \in D, NEW z \in D, NEW i \in DOMAIN g[y], NEW j \in DOMAIN g[z],
                        g[y][i].nr # 0, g[y][i].nr = g[z][j].nr
                 PROVE  y = z /\ i = j
        BY DEF NumbersOnce
    <2>1. CASE (i \in DOMAIN f[y] /\ g[y][i] = f[y][i]) /\ (j \in DOMAIN f[z] /\ g[z][j] = f[z][j])
        BY <2>1 DEF NumbersOnce
    <2>2. CASE (i \in DOMAIN f[y] /\ g[y][i] = f[y][i]) /\ g[z][j] = m
        BY <2>2 DEF IsFresh, IsNew
    <2>3. CASE g[y][i] = m /\ (j \in DOMAIN f[z] /\ g[z][j] = f[z][j])
        BY <2>3 DEF IsFresh, IsNew
    <2> QED
        BY <1>5, <2>1, <2>2, <2>3
<1>7. AddsOnly(D, g, f, m)
    BY <1>5 DEF AddsOnly
<1> QED
    BY <1>4, <1>6, <1>7

\* Messages without a number behind the others.
LEMMA UnnumberedPut ==
    ASSUME NEW D, NEW T, NEW f \in [D -> Seq(T)], NumbersOnce(D, f),
           NEW z \in [D -> Seq(T)], HasNoNumbers(D, z),
           NEW g, g = WithAll(D, f, z)
    PROVE  /\ g \in [D -> Seq(T)]
           /\ NumbersOnce(D, g)
           /\ StaysFresh(D, g, f)
           /\ AddsUnnumbered(D, g, f)
<1>1. ASSUME NEW y \in D
      PROVE  /\ f[y] \o z[y] \in Seq(T) /\ f[y] \in Seq(T) /\ z[y] \in Seq(T)
             /\ Len(f[y]) \in Nat /\ Len(z[y]) \in Nat
             /\ DOMAIN f[y] = 1 .. Len(f[y]) /\ DOMAIN z[y] = 1 .. Len(z[y])
             /\ DOMAIN (f[y] \o z[y]) = 1 .. Len(f[y]) + Len(z[y])
             /\ \A i \in 1 .. Len(f[y]) + Len(z[y]) :
                    (f[y] \o z[y])[i] = IF i =< Len(f[y]) THEN f[y][i] ELSE z[y][i - Len(f[y])]
    <2>1. f[y] \in Seq(T) /\ z[y] \in Seq(T)
        OBVIOUS
    <2> QED
        BY <2>1
<1>2. g \in [D -> Seq(T)]
    BY <1>1 DEF WithAll
<1>3. ASSUME NEW y \in D, NEW i \in DOMAIN g[y]
      PROVE  g[y][i].nr = 0 \/ (i \in DOMAIN f[y] /\ g[y][i] = f[y][i])
    <2>1. i \in 1 .. Len(f[y]) + Len(z[y]) /\ g[y][i] = (f[y] \o z[y])[i]
        BY <1>1 DEF WithAll
    <2>2. CASE i =< Len(f[y])
        BY <1>1, <2>1, <2>2
    <2>3. CASE i > Len(f[y])
        <3>1. i - Len(f[y]) \in DOMAIN z[y] /\ ~ (i =< Len(f[y]))
            BY <1>1, <2>1, <2>3
        <3>2. g[y][i] = z[y][i - Len(f[y])]
            BY <1>1, <2>1, <3>1
        <3> QED
            BY <3>1, <3>2 DEF HasNoNumbers
    <2> QED
        BY <1>1, <2>1, <2>2, <2>3
<1>4. NumbersOnce(D, g)
    BY <1>3 DEF NumbersOnce
<1>5. StaysFresh(D, g, f)
    BY <1>3 DEF IsFresh, StaysFresh
<1>6. AddsUnnumbered(D, g, f)
    BY <1>3 DEF AddsUnnumbered
<1> QED
    BY <1>2, <1>4, <1>5, <1>6

LEMMA QueueEmptied ==
    ASSUME NEW D, NEW T, NEW f \in [D -> Seq(T)], NumbersOnce(D, f),
           NEW x \in D, NEW g, g = [f EXCEPT ![x] = <<>>]
    PROVE  /\ NumbersOnce(D, g)
           /\ ComesFrom(D, g, f)
<1>1. \A y \in D : \A i \in DOMAIN g[y] : i \in DOMAIN f[y] /\ g[y][i] = f[y][i]
    OBVIOUS
<1> QED
    BY <1>1 DEF NumbersOnce, ComesFrom

\* The first message of x is taken, messages without a number come, and perhaps a,
\* which has the number of the one that was taken, to y.
LEMMA NumbersMoved ==
    ASSUME NEW D, NEW T, NEW f \in [D -> Seq(T)], NumbersOnce(D, f),
           NEW x \in D, f[x] # <<>>, NEW y \in D, NEW a \in T,
           a.nr # 0 => a.nr = Head(f[x]).nr,
           NEW z \in [D -> Seq(T)], HasNoNumbers(D, z),
           NEW h, h = WithoutFirst(f, x), NEW k, k = WithAll(D, h, z),
           NEW g, g = k \/ g = WithLast(k, y, a)
    PROVE  /\ NumbersOnce(D, g)
           /\ AddsBoth(D, g, f, a)
<1>1. /\ h \in [D -> Seq(T)] /\ NumbersOnce(D, h)
      /\ Head(f[x]).nr # 0 => IsFresh(D, h, Head(f[x]).nr)
      /\ ComesFrom(D, h, f)
    BY FirstTaken
<1>2. /\ k \in [D -> Seq(T)] /\ NumbersOnce(D, k)
      /\ StaysFresh(D, k, h) /\ AddsUnnumbered(D, k, h)
    BY <1>1, UnnumberedPut
<1>3. IsNew(D, k, a)
    BY <1>1, <1>2 DEF StaysFresh, IsNew
<1>4. NumbersOnce(D, g) /\ AddsOnly(D, g, k, a)
    <2>1. CASE g = k
        BY <1>2, <2>1 DEF AddsOnly
    <2>2. CASE g = WithLast(k, y, a)
        <3>1. \A F \in [D -> Seq(T)] : NumbersOnce(D, F) /\ IsNew(D, F, a) =>
                    /\ NumbersOnce(D, WithLast(F, y, a))
                    /\ AddsOnly(D, WithLast(F, y, a), F, a)
            BY LastPut
        <3> QED
            BY <1>2, <1>3, <2>2, <3>1
    <2> QED
        BY <2>1, <2>2
<1>5. ASSUME NEW q \in D, NEW i \in DOMAIN g[q]
      PROVE  \/ g[q][i].nr = 0
             \/ g[q][i] = a
             \/ \E j \in DOMAIN f[q] : g[q][i] = f[q][j]
    <2>1. CASE \E j \in DOMAIN k[q] : g[q][i] = k[q][j]
        <3>1. PICK j \in DOMAIN k[q] : g[q][i] = k[q][j]
            BY <2>1
        <3>2. CASE \E l \in DOMAIN h[q] : k[q][j] = h[q][l]
            BY <1>1, <3>1, <3>2 DEF ComesFrom
        <3> QED
            BY <1>2, <3>1, <3>2 DEF AddsUnnumbered
    <2> QED
        BY <1>4, <2>1 DEF AddsOnly
<1> QED
    BY <1>4, <1>5 DEF AddsBoth

-----------------------------------------------------------------------------
(* Answers and the commands they answer.                                    *)

Up(p) == <<"up", p>>
Down(p) == <<"down", p>>
Later == <<"later", NoPeer>>

Queues == {Up(p) : p \in NetPeers} \cup {Down(p) : p \in NetPeers} \cup {Later}

AnyMessage == Message \cup Notified \cup DelayedCmd

\* All messages there are: to the service, to the clients, and those that wait for
\* the controller.
TrafficOf(up, down, later) ==
    [q \in Queues |-> IF q[1] = "up" THEN up[q[2]]
                      ELSE IF q[1] = "down" THEN down[q[2]] ELSE later]

Traffic == TrafficOf(toServer, toClient, delayed)

\* The interface of a client that is there has the command a numbered message is about.
Expected(m) ==
    m.nr # 0 => /\ m.client \in uuids
                /\ m.client \in Living =>
                        m_MsgNrCmdList[m.client][m.nr] = Calls[KindOf[m.client]][m.call]

AnswersInv ==
    /\ NumbersOnce(Queues, Traffic)
    /\ \A q \in Queues : \A i \in DOMAIN Traffic[q] : Expected(Traffic[q][i])

LEMMA QueuesDiffer ==
    /\ \A p \in NetPeers : Up(p) \in Queues /\ Down(p) \in Queues
    /\ Later \in Queues
    /\ \A q \in Queues : \/ \E p \in NetPeers : q = Up(p)
                         \/ \E p \in NetPeers : q = Down(p)
                         \/ q = Later
    /\ \A p, r : Up(p) # Down(r) /\ Up(p) # Later /\ Down(p) # Later
    /\ \A p, r : (Up(p) = Up(r) <=> p = r) /\ (Down(p) = Down(r) <=> p = r)
BY DEF Up, Down, Later, Queues

LEMMA TrafficAt ==
    ASSUME NEW up, NEW down, NEW later
    PROVE  /\ \A p \in NetPeers : /\ TrafficOf(up, down, later)[Up(p)] = up[p]
                                 /\ TrafficOf(up, down, later)[Down(p)] = down[p]
           /\ TrafficOf(up, down, later)[Later] = later
           /\ DOMAIN TrafficOf(up, down, later) = Queues
<1>1. \A p \in NetPeers : Up(p) \in Queues /\ Down(p) \in Queues
    BY QueuesDiffer
<1>2. Later \in Queues
    BY QueuesDiffer
<1>3. \A p : Up(p)[1] = "up" /\ Up(p)[2] = p /\ Down(p)[1] = "down" /\ Down(p)[2] = p
    BY DEF Up, Down
<1>4. Later[1] = "later"
    BY DEF Later
<1> QED
    BY <1>1, <1>2, <1>3, <1>4 DEF TrafficOf

\* What two families of queues have in common decides whether they are the same.
LEMMA SameTraffic ==
    ASSUME NEW f, NEW g, f = [q \in Queues |-> f[q]], g = [q \in Queues |-> g[q]],
           \A p \in NetPeers : f[Up(p)] = g[Up(p)] /\ f[Down(p)] = g[Down(p)],
           f[Later] = g[Later]
    PROVE  f = g
<1>1. \A q \in Queues : f[q] = g[q]
    BY QueuesDiffer
<1> QED
    BY <1>1

LEMMA TrafficTyped ==
    ASSUME ClientsTypeOK
    PROVE  Traffic \in [Queues -> Seq(AnyMessage)]
<1> DEFINE f == Traffic
<1>1. /\ \A p \in NetPeers : f[Up(p)] = toServer[p] /\ f[Down(p)] = toClient[p]
      /\ f[Later] = delayed
    BY TrafficAt DEF Traffic
<1>2. f = [q \in Queues |-> f[q]]
    BY DEF Traffic, TrafficOf
<1>3. Message \subseteq AnyMessage /\ Command \subseteq AnyMessage /\ DelayedCmd \subseteq AnyMessage
         /\ (Message \cup Notified) \subseteq AnyMessage
    BY DEF AnyMessage, Command
<1> HIDE DEF f
<1>4. ASSUME NEW p \in NetPeers
      PROVE  f[Up(p)] \in Seq(AnyMessage) /\ f[Down(p)] \in Seq(AnyMessage)
    <2>1. toServer[p] \in Seq(Command) /\ toClient[p] \in Seq(Message \cup Notified)
        BY DEF ClientsTypeOK
    <2>2. toServer[p] \in Seq(AnyMessage)
        BY <1>3, <2>1
    <2>3. toClient[p] \in Seq(AnyMessage)
        BY <1>3, <2>1
    <2> QED
        BY <1>1, <2>2, <2>3
<1>5. f[Later] \in Seq(AnyMessage)
    <2>1. delayed \in Seq(DelayedCmd)
        BY DEF ClientsTypeOK
    <2>2. delayed \in Seq(AnyMessage)
        BY <1>3, <2>1
    <2> QED
        BY <1>1, <2>2
<1>6. \A q \in Queues : f[q] \in Seq(AnyMessage)
    BY <1>4, <1>5, QueuesDiffer
<1>7. f \in [Queues -> Seq(AnyMessage)]
    BY <1>2, <1>6
<1> QED
    BY <1>7 DEF f

\* A numbered message has a client and a place in the client's list.
LEMMA NumberedMessage ==
    ASSUME ServiceClientsAssumption, NEW m \in AnyMessage
    PROVE  m.client \in ProxyClients /\ (m.nr # 0 => m.nr \in MsgNrs)
<1>1. m.client \in ProxyClients /\ m.nr \in 0 .. MsgNrLimit - 1
    BY DEF AnyMessage, Message, Notified, DelayedCmd, ServiceClientsAssumption
<1> QED
    BY <1>1 DEF MsgNrs, ServiceClientsAssumption

\* A client that is new has a uuid that no message has.
LEMMA NewLiving ==
    ASSUME ProxyInv, [ProxyNext]_proxyVars
    PROVE  uuids \subseteq uuids' /\ \A c \in uuids : c \in Living' => c \in Living
<1>1. CASE \E c \in ProxyClients : GetConnectionSmart(c)
    <2>1. PICK c \in ProxyClients : c \notin uuids /\ uuids' = uuids \cup {c}
                /\ \E p : m_ConnectionHash' = [m_ConnectionHash EXCEPT ![c] = p]
        BY <1>1 DEF GetConnectionSmart
    <2> QED
        BY <2>1 DEF Living, ProxyInv, ProxyTypeOK
<1>2. CASE \E c \in ProxyClients : StartConnectionSmart(c)
    BY <1>2 DEF StartConnectionSmart, Living
<1>3. CASE \E c \in ProxyClients : ReleaseConnection(c)
    BY <1>3 DEF ReleaseConnection, Living, ProxyInv, ProxyTypeOK
<1>4. CASE \E p \in NetPeers : \/ DeletePeer(p) \/ Established(p) \/ Refused(p)
                              \/ ConnectionClosed(p) \/ ServerLosesPeer(p)
    BY <1>4 DEF DeletePeer, Established, Refused, ConnectionClosed, ServerLosesPeer, Living
<1>5. CASE UNCHANGED proxyVars
    BY <1>5 DEF proxyVars, Living
<1> QED
    BY <1>1, <1>2, <1>3, <1>4, <1>5 DEF ProxyNext

WithList(f, x, list) == [f EXCEPT ![x] = list]

LEMMA TrafficChanged ==
    ASSUME NEW up, DOMAIN up = NetPeers, NEW down, DOMAIN down = NetPeers, NEW later,
           NEW p \in NetPeers, NEW list
    PROVE  /\ TrafficOf(WithList(up, p, list), down, later)
                = WithList(TrafficOf(up, down, later), Up(p), list)
           /\ TrafficOf(up, WithList(down, p, list), later)
                = WithList(TrafficOf(up, down, later), Down(p), list)
           /\ TrafficOf(up, down, list) = WithList(TrafficOf(up, down, later), Later, list)
<1> DEFINE f == TrafficOf(up, down, later)
<1>0. f = [q \in Queues |-> f[q]]
    BY DEF TrafficOf
<1>1. /\ \A r \in NetPeers : f[Up(r)] = up[r] /\ f[Down(r)] = down[r]
      /\ f[Later] = later
    BY TrafficAt
<1>2. ASSUME NEW g, g = TrafficOf(WithList(up, p, list), down, later)
      PROVE  g = WithList(f, Up(p), list)
    <2> DEFINE h == WithList(f, Up(p), list)
    <2>0. g = [q \in Queues |-> g[q]]
        BY <1>2 DEF TrafficOf
    <2>4. PICK u : u = WithList(up, p, list)
        OBVIOUS
    <2>5. g = TrafficOf(u, down, later)
        BY <1>2, <2>4
    <2>6. /\ \A r \in NetPeers : g[Up(r)] = u[r] /\ g[Down(r)] = down[r]
          /\ g[Later] = later
        BY <2>5, TrafficAt
    <2>1. /\ \A r \in NetPeers : g[Up(r)] = WithList(up, p, list)[r] /\ g[Down(r)] = down[r]
          /\ g[Later] = later
        BY <2>4, <2>6
    <2> HIDE DEF f
    <2>2. /\ h = [q \in Queues |-> h[q]]
          /\ \A r \in NetPeers : h[Up(r)] = WithList(up, p, list)[r] /\ h[Down(r)] = down[r]
          /\ h[Later] = later
        BY <1>0, <1>1, QueuesDiffer DEF WithList
    <2> HIDE DEF h
    <2>3. g = h
        BY <2>0, <2>1, <2>2, SameTraffic
    <2> QED
        BY <2>3 DEF h
<1>3. ASSUME NEW g, g = TrafficOf(up, WithList(down, p, list), later)
      PROVE  g = WithList(f, Down(p), list)
    <2> DEFINE h == WithList(f, Down(p), list)
    <2>0. g = [q \in Queues |-> g[q]]
        BY <1>3 DEF TrafficOf
    <2>4. PICK u : u = WithList(down, p, list)
        OBVIOUS
    <2>5. g = TrafficOf(up, u, later)
        BY <1>3, <2>4
    <2>6. /\ \A r \in NetPeers : g[Down(r)] = u[r] /\ g[Up(r)] = up[r]
          /\ g[Later] = later
        BY <2>5, TrafficAt
    <2>1. /\ \A r \in NetPeers : g[Down(r)] = WithList(down, p, list)[r] /\ g[Up(r)] = up[r]
          /\ g[Later] = later
        BY <2>4, <2>6
    <2> HIDE DEF f
    <2>2. /\ h = [q \in Queues |-> h[q]]
          /\ \A r \in NetPeers : h[Down(r)] = WithList(down, p, list)[r] /\ h[Up(r)] = up[r]
          /\ h[Later] = later
        BY <1>0, <1>1, QueuesDiffer DEF WithList
    <2> HIDE DEF h
    <2>3. g = h
        BY <2>0, <2>1, <2>2, SameTraffic
    <2> QED
        BY <2>3 DEF h
<1>4. ASSUME NEW g, g = TrafficOf(up, down, list)
      PROVE  g = WithList(f, Later, list)
    <2> DEFINE h == WithList(f, Later, list)
    <2>0. g = [q \in Queues |-> g[q]]
        BY <1>4 DEF TrafficOf
    <2>1. /\ \A r \in NetPeers : g[Down(r)] = down[r] /\ g[Up(r)] = up[r]
          /\ g[Later] = list
        BY <1>4, TrafficAt
    <2> HIDE DEF f
    <2>2. /\ h = [q \in Queues |-> h[q]]
          /\ \A r \in NetPeers : h[Down(r)] = down[r] /\ h[Up(r)] = up[r]
          /\ h[Later] = list
        BY <1>0, <1>1, QueuesDiffer DEF WithList
    <2> HIDE DEF h
    <2>3. g = h
        BY <2>0, <2>1, <2>2, SameTraffic
    <2> QED
        BY <2>3 DEF h
<1> QED
    BY <1>2, <1>3, <1>4

\* A message that was expected, or the answer to one, stays so.
LEMMA StillExpected ==
    ASSUME AnswersInv, NEW x \in Queues, NEW j \in DOMAIN Traffic[x], NEW m,
           m.nr # 0 => /\ m.nr = Traffic[x][j].nr
                       /\ m.client = Traffic[x][j].client
                       /\ m.call = Traffic[x][j].call,
           uuids \subseteq uuids', \A c \in uuids : c \in Living' => c \in Living,
           m.nr # 0 /\ m.client \in Living' =>
                m_MsgNrCmdList'[m.client][m.nr] = m_MsgNrCmdList[m.client][m.nr]
    PROVE  Expected(m)'
<1>1. Expected(Traffic[x][j])
    BY DEF AnswersInv
<1> QED
    BY <1>1 DEF Expected

\* The messages stay, or become fewer.
LEMMA Fewer_Answers ==
    ASSUME AnswersInv, NumbersOnce(Queues, Traffic'), ComesFrom(Queues, Traffic', Traffic),
           uuids \subseteq uuids', \A c \in uuids : c \in Living' => c \in Living,
           UNCHANGED m_MsgNrCmdList
    PROVE  AnswersInv'
<1> SUFFICES ASSUME NEW q \in Queues, NEW i \in DOMAIN Traffic'[q]
             PROVE  Expected(Traffic[q][i])'
    BY DEF AnswersInv
<1>1. PICK j \in DOMAIN Traffic[q] : Traffic'[q][i] = Traffic[q][j]
    BY DEF ComesFrom
<1>2. PICK m : m = Traffic'[q][i]
    OBVIOUS
<1>3. Expected(m)'
    BY <1>1, <1>2, StillExpected
<1> QED
    BY <1>2, <1>3 DEF Expected

\* The first message of x is taken; what is put to y carries its number.
LEMMA Moved_Answers ==
    ASSUME ClientsTypeOK, AnswersInv, NEW x \in Queues, Traffic[x] # <<>>,
           NEW y \in Queues, NEW a \in AnyMessage,
           a.nr # 0 => /\ a.nr = Head(Traffic[x]).nr
                       /\ a.client = Head(Traffic[x]).client
                       /\ a.call = Head(Traffic[x]).call,
           NEW h, h = WithoutFirst(Traffic, x),
           NEW z \in [Queues -> Seq(AnyMessage)],
           HasNoNumbers(Queues, z),
           NEW k, k = WithAll(Queues, h, z),
           Traffic' = k \/ Traffic' = WithLast(k, y, a),
           uuids \subseteq uuids', \A c \in uuids : c \in Living' => c \in Living,
           UNCHANGED m_MsgNrCmdList
    PROVE  AnswersInv'
<1>1. Traffic \in [Queues -> Seq(AnyMessage)] /\ NumbersOnce(Queues, Traffic)
    BY TrafficTyped DEF AnswersInv
<1>2. PICK f : f = Traffic
    OBVIOUS
<1>3. /\ f \in [Queues -> Seq(AnyMessage)] /\ NumbersOnce(Queues, f) /\ f[x] # <<>>
      /\ h = WithoutFirst(f, x)
      /\ a.nr # 0 => a.nr = Head(f[x]).nr
    BY <1>1, <1>2
<1>4. 1 \in DOMAIN f[x] /\ f[x][1] = Head(f[x])
    <2>1. f[x] \in Seq(AnyMessage) /\ f[x] # <<>>
        BY <1>3
    <2> QED
        BY <2>1
<1>6. PICK g : g = Traffic'
    OBVIOUS
<1>7. g = k \/ g = WithLast(k, y, a)
    BY <1>6
<1>8. NumbersOnce(Queues, g) /\ AddsBoth(Queues, g, f, a)
    BY <1>3, <1>7, NumbersMoved
<1>9. Expected(a)'
    <2>1. 1 \in DOMAIN Traffic[x] /\ Traffic[x][1] = Head(Traffic[x])
        BY <1>2, <1>4
    <2>2. PICK j \in DOMAIN Traffic[x] : Traffic[x][j] = Head(Traffic[x])
        BY <2>1
    <2> QED
        BY <2>2, StillExpected
<1>10. ASSUME NEW q \in Queues, NEW i \in DOMAIN Traffic'[q]
       PROVE  Expected(Traffic[q][i])'
    <2>1. PICK m : m = Traffic'[q][i]
        OBVIOUS
    <2>2. CASE m.nr = 0
        BY <2>1, <2>2 DEF Expected
    <2>3. CASE m = a
        BY <1>9, <2>1, <2>3 DEF Expected
    <2>4. CASE \E j \in DOMAIN Traffic[q] : m = Traffic[q][j]
        <3>1. Expected(m)'
            BY <2>4, StillExpected
        <3> QED
            BY <2>1, <3>1 DEF Expected
    <2> QED
        BY <1>2, <1>6, <1>8, <2>1, <2>2, <2>3, <2>4 DEF AddsBoth
<1> QED
    BY <1>6, <1>8, <1>10 DEF AnswersInv

LEMMA TrafficFirst ==
    ASSUME NEW up, DOMAIN up = NetPeers, NEW down, DOMAIN down = NetPeers, NEW later,
           NEW p \in NetPeers
    PROVE  /\ TrafficOf(WithoutFirst(up, p), down, later)
                = WithoutFirst(TrafficOf(up, down, later), Up(p))
           /\ TrafficOf(up, WithoutFirst(down, p), later)
                = WithoutFirst(TrafficOf(up, down, later), Down(p))
           /\ TrafficOf(up, down, Tail(later)) = WithoutFirst(TrafficOf(up, down, later), Later)
<1> DEFINE f == TrafficOf(up, down, later)
<1>1. f[Up(p)] = up[p] /\ f[Down(p)] = down[p] /\ f[Later] = later
    BY TrafficAt
<1>2. \A list : /\ TrafficOf(WithList(up, p, list), down, later) = WithList(f, Up(p), list)
                /\ TrafficOf(up, WithList(down, p, list), later) = WithList(f, Down(p), list)
                /\ TrafficOf(up, down, list) = WithList(f, Later, list)
    BY TrafficChanged
<1> HIDE DEF f
<1>3. /\ WithoutFirst(f, Up(p)) = WithList(f, Up(p), Tail(up[p]))
      /\ WithoutFirst(f, Down(p)) = WithList(f, Down(p), Tail(down[p]))
      /\ WithoutFirst(f, Later) = WithList(f, Later, Tail(later))
      /\ WithoutFirst(up, p) = WithList(up, p, Tail(up[p]))
      /\ WithoutFirst(down, p) = WithList(down, p, Tail(down[p]))
    BY <1>1 DEF WithoutFirst, WithList
<1>4. TrafficOf(WithoutFirst(up, p), down, later) = WithoutFirst(f, Up(p))
    BY <1>2, <1>3
<1>5. TrafficOf(up, WithoutFirst(down, p), later) = WithoutFirst(f, Down(p))
    BY <1>2, <1>3
<1>6. TrafficOf(up, down, Tail(later)) = WithoutFirst(f, Later)
    BY <1>2, <1>3
<1> QED
    BY <1>4, <1>5, <1>6 DEF f

LEMMA DelayedPut ==
    ASSUME NEW up, DOMAIN up = NetPeers, NEW down, DOMAIN down = NetPeers, NEW later,
           NEW p \in NetPeers, NEW m
    PROVE  TrafficOf(up, down, later \o <<m>>) = WithLast(TrafficOf(up, down, later), Later, m)
<1> DEFINE f == TrafficOf(up, down, later)
<1>1. f[Later] = later
    BY TrafficAt
<1>2. TrafficOf(up, down, later \o <<m>>) = WithList(f, Later, later \o <<m>>)
    BY TrafficChanged
<1> HIDE DEF f
<1>3. WithLast(f, Later, m) = WithList(f, Later, later \o <<m>>)
    BY <1>1 DEF WithLast, WithList
<1>4. TrafficOf(up, down, later \o <<m>>) = WithLast(f, Later, m)
    BY <1>2, <1>3
<1> QED
    BY <1>4 DEF f

LEMMA AnswerPut ==
    ASSUME NEW up, DOMAIN up = NetPeers, NEW down, DOMAIN down = NetPeers, NEW later,
           NEW p \in NetPeers, NEW m, NEW g, g = WithLast(down, p, m)
    PROVE  TrafficOf(up, g, later) = WithLast(TrafficOf(up, down, later), Down(p), m)
<1> DEFINE f == TrafficOf(up, down, later)
<1>1. f[Down(p)] = down[p]
    BY TrafficAt
<1>2. \A list : TrafficOf(up, WithList(down, p, list), later) = WithList(f, Down(p), list)
    BY TrafficChanged
<1> HIDE DEF f
<1>3. WithLast(f, Down(p), m) = WithList(f, Down(p), down[p] \o <<m>>)
    BY <1>1 DEF WithLast, WithList
<1>4. g = WithList(down, p, down[p] \o <<m>>)
    BY DEF WithLast, WithList
<1>5. TrafficOf(up, g, later) = WithLast(f, Down(p), m)
    BY <1>2, <1>3, <1>4
<1> QED
    BY <1>5 DEF f

LEMMA CommandPut ==
    ASSUME NEW up, DOMAIN up = NetPeers, NEW down, DOMAIN down = NetPeers, NEW later,
           NEW p \in NetPeers, NEW m, NEW g, g = WithLast(up, p, m)
    PROVE  TrafficOf(g, down, later) = WithLast(TrafficOf(up, down, later), Up(p), m)
<1> DEFINE f == TrafficOf(up, down, later)
<1>1. f[Up(p)] = up[p]
    BY TrafficAt
<1>2. \A list : TrafficOf(WithList(up, p, list), down, later) = WithList(f, Up(p), list)
    BY TrafficChanged
<1> HIDE DEF f
<1>3. WithLast(f, Up(p), m) = WithList(f, Up(p), up[p] \o <<m>>)
    BY <1>1 DEF WithLast, WithList
<1>4. g = WithList(up, p, up[p] \o <<m>>)
    BY DEF WithLast, WithList
<1>5. TrafficOf(g, down, later) = WithLast(f, Up(p), m)
    BY <1>2, <1>3, <1>4
<1> QED
    BY <1>5 DEF f

\* As Moved_Answers, when no notifications are sent.
LEMMA Passed_Answers ==
    ASSUME ClientsTypeOK, AnswersInv, NEW x \in Queues, Traffic[x] # <<>>,
           NEW y \in Queues, NEW a \in AnyMessage,
           a.nr # 0 => /\ a.nr = Head(Traffic[x]).nr
                       /\ a.client = Head(Traffic[x]).client
                       /\ a.call = Head(Traffic[x]).call,
           NEW h, h = WithoutFirst(Traffic, x),
           Traffic' = h \/ Traffic' = WithLast(h, y, a),
           uuids \subseteq uuids', \A c \in uuids : c \in Living' => c \in Living,
           UNCHANGED m_MsgNrCmdList
    PROVE  AnswersInv'
<1>1. PICK z : z = [q \in Queues |-> <<>>]
    OBVIOUS
<1>2. z \in [Queues -> Seq(AnyMessage)] /\ HasNoNumbers(Queues, z)
    BY <1>1 DEF HasNoNumbers
<1>3. PICK f : f = Traffic
    OBVIOUS
<1>4. f \in [Queues -> Seq(AnyMessage)] /\ NumbersOnce(Queues, f) /\ f[x] # <<>>
         /\ h = WithoutFirst(f, x)
    BY <1>3, TrafficTyped DEF AnswersInv
<1>5. h \in [Queues -> Seq(AnyMessage)]
    BY <1>4, FirstTaken
<1>6. \A q \in Queues : h[q] \o <<>> = h[q]
    <2> SUFFICES ASSUME NEW q \in Queues PROVE h[q] \o <<>> = h[q]
        OBVIOUS
    <2>1. h[q] \in Seq(AnyMessage)
        BY <1>5
    <2> QED
        BY <2>1
<1>7. h = [q \in Queues |-> h[q]]
    BY <1>5
<1>8. WithAll(Queues, h, z) = h
    BY <1>1, <1>6, <1>7 DEF WithAll
<1>9. PICK k : k = WithAll(Queues, h, z)
    OBVIOUS
<1>10. k = h
    BY <1>8, <1>9
<1>11. Traffic' = k \/ Traffic' = WithLast(k, y, a)
    BY <1>10
<1> QED
    BY <1>2, <1>9, <1>11, Moved_Answers

LEMMA Serve_Answers ==
    ASSUME ServiceClientsAssumption, ClientsTypeOK, AnswersInv, NEW p \in NetPeers, Serve(p)
    PROVE  AnswersInv'
<1> DEFINE m == Head(toServer[p])
<1>1. DOMAIN toServer = NetPeers /\ DOMAIN toClient = NetPeers
    BY DEF ClientsTypeOK
<1>2. PICK calls : Serves(p, calls)
    BY DEF Serve, ServeRelease, ServeRegister, ServeUnregister, ServeRead, ServePlain,
           ServeSetRange
<1>3. /\ toServer[p] # <<>> /\ toServer' = WithoutFirst(toServer, p)
      /\ UNCHANGED <<uuids, m_ConnectionHash, m_MsgNrCmdList>>
    BY <1>2 DEF Serves, WithoutFirst, proxyVars
<1>4. m \in Message
    BY <1>3, HeadTyped DEF Command
<1>5. Up(p) \in Queues /\ Down(p) \in Queues /\ Later \in Queues
    BY QueuesDiffer
<1>6. Traffic[Up(p)] = toServer[p]
    BY TrafficAt DEF Traffic
<1>7. PICK h : h = WithoutFirst(Traffic, Up(p))
    OBVIOUS
<1>8. h = TrafficOf(toServer', toClient, delayed)
    <2>1. PICK up, down, later : up = toServer /\ down = toClient /\ later = delayed
        OBVIOUS
    <2>2. TrafficOf(WithoutFirst(up, p), down, later)
                = WithoutFirst(TrafficOf(up, down, later), Up(p))
        BY <1>1, <2>1, TrafficFirst
    <2> QED
        BY <1>3, <1>7, <2>1, <2>2 DEF Traffic
<1>9. uuids \subseteq uuids' /\ \A c \in uuids : c \in Living' => c \in Living
    BY <1>3 DEF Living
<1>10. DOMAIN toServer' = NetPeers
    BY <1>1, <1>3 DEF WithoutFirst
<1>11. ASSUME NEW a \in AnyMessage, a.nr = m.nr, a.client = m.client, a.call = m.call,
              NEW y \in Queues, Traffic' = h \/ Traffic' = WithLast(h, y, a)
       PROVE  AnswersInv'
    BY <1>3, <1>5, <1>6, <1>7, <1>9, <1>11, Passed_Answers
<1>12. Message \subseteq AnyMessage /\ DelayedCmd \subseteq AnyMessage
    BY DEF AnyMessage
<1>13. ASSUME NEW text \in Texts \cup {NoText}, ClientGets(p, <<Answer(m, text)>>),
              UNCHANGED delayed
       PROVE  AnswersInv'
    <2>1. Answer(m, text) \in Message
        BY <1>4 DEF Answer, Message
    <2>2. PICK a \in AnyMessage : a = Answer(m, text)
        BY <1>12, <2>1
    <2>3. a.nr = m.nr /\ a.client = m.client /\ a.call = m.call
        BY <2>2 DEF Answer
    <2>4. toClient' = toClient \/ toClient' = WithLast(toClient, p, a)
        BY <1>13, <2>2 DEF ClientGets, SendTo, WithLast
    <2>5. Traffic' = TrafficOf(toServer', toClient', delayed)
        BY <1>13 DEF Traffic
    <2>6. CASE toClient' = toClient
        <3>1. Traffic' = h
            BY <1>8, <2>5, <2>6
        <3> QED
            BY <1>5, <1>11, <2>3, <3>1
    <2>7. CASE toClient' = WithLast(toClient, p, a)
        <3>1. PICK up, down, later : up = toServer' /\ down = toClient /\ later = delayed
            OBVIOUS
        <3>4. DOMAIN up = NetPeers /\ DOMAIN down = NetPeers
            BY <1>1, <1>10, <3>1
        <3>5. PICK g : g = WithLast(down, p, a)
            OBVIOUS
        <3>2. TrafficOf(up, g, later) = WithLast(TrafficOf(up, down, later), Down(p), a)
            BY <3>4, <3>5, AnswerPut
        <3>3. Traffic' = WithLast(h, Down(p), a)
            BY <1>8, <2>5, <2>7, <3>1, <3>2, <3>5
        <3> QED
            BY <1>5, <1>11, <2>3, <3>3
    <2> QED
        BY <2>4, <2>6, <2>7
<1>14. NoText \in Texts \cup {NoText}
    OBVIOUS
<1>15. CASE ServeRelease(p)
    <2>1. UNCHANGED <<toClient, delayed>>
        BY <1>15 DEF ServeRelease
    <2>2. Traffic' = h
        BY <1>8, <2>1 DEF Traffic
    <2>3. PICK a \in AnyMessage : a = m
        BY <1>4, <1>12
    <2> QED
        BY <1>5, <1>11, <2>2, <2>3
<1>16. CASE ServeRegister(p) \/ ServeUnregister(p) \/ ServePlain(p)
    BY <1>13, <1>14, <1>16 DEF ServeRegister, ServeUnregister, ServePlain
<1>17. CASE ServeRead(p)
    <2>1. m_sValue[m.notifier] \in Texts \cup {NoText}
        BY <1>4 DEF ClientsTypeOK, SubscriptionTypeOK, Message
    <2>2. PICK text \in Texts \cup {NoText} : text = m_sValue[m.notifier]
        BY <2>1
    <2>3. ClientGets(p, <<Answer(m, m_sValue[m.notifier])>>) /\ UNCHANGED delayed
        BY <1>17 DEF ServeRead
    <2>4. ClientGets(p, <<Answer(m, text)>>)
        BY <2>2, <2>3
    <2> QED
        BY <1>13, <2>3, <2>4
<1>18. CASE ServeSetRange(p)
    <2>1. PICK d : d = [peer |-> p, client |-> m.client, nr |-> m.nr,
                        notifier |-> m.notifier, text |-> m.text, call |-> m.call]
        OBVIOUS
    <2>2. delayed' = Append(delayed, d) /\ UNCHANGED toClient /\ m.call = "setRange"
        BY <1>18, <2>1 DEF ServeSetRange, Serves
    <2>3. m \in Command
        BY <1>3, HeadTyped
    <2>4. d \in DelayedCmd
        BY <2>1, <2>2, <2>3 DEF Command, Message, DelayedCmd
    <2>5. d \in AnyMessage /\ d.nr = m.nr /\ d.client = m.client /\ d.call = m.call
        BY <1>12, <2>1, <2>4
    <2>6. delayed' = delayed \o <<d>>
        <3>1. delayed \in Seq(DelayedCmd)
            BY DEF ClientsTypeOK
        <3> QED
            BY <2>2, <2>4, <3>1
    <2>7. Traffic' = TrafficOf(toServer', toClient, delayed \o <<d>>)
        BY <2>2, <2>6 DEF Traffic
    <2>8. PICK up : up = toServer'
        OBVIOUS
    <2>9. TrafficOf(up, toClient, delayed \o <<d>>) = WithLast(TrafficOf(up, toClient, delayed), Later, d)
        BY <1>1, <1>10, <2>8, DelayedPut
    <2>10. Traffic' = WithLast(h, Later, d)
        BY <1>8, <2>7, <2>8, <2>9
    <2> QED
        BY <1>5, <1>11, <2>5, <2>10
<1> QED
    BY <1>15, <1>16, <1>17, <1>18 DEF Serve

IsUnderway(m) == \E q \in Queues : \E i \in DOMAIN Traffic[q] : m = Traffic[q][i]

LEMMA UnderwayTyped ==
    ASSUME ClientsTypeOK, NEW a, IsUnderway(a)
    PROVE  a \in AnyMessage
<1>1. PICK q \in Queues : \E i \in DOMAIN Traffic[q] : a = Traffic[q][i]
    BY DEF IsUnderway
<1>2. PICK list : list = Traffic[q]
    OBVIOUS
<1>3. list \in Seq(AnyMessage)
    BY <1>2, TrafficTyped
<1> QED
    BY <1>1, <1>2, <1>3

\* A message is put to x, or dropped; what was underway is expected as before.
LEMMA Put_Answers ==
    ASSUME ClientsTypeOK, AnswersInv, NEW x \in Queues, NEW m \in AnyMessage,
           IsNew(Queues, Traffic, m),
           Traffic' = Traffic \/ Traffic' = WithLast(Traffic, x, m),
           Expected(m)', \A a : IsUnderway(a) => Expected(a)'
    PROVE  AnswersInv'
<1>1. PICK f : f = Traffic
    OBVIOUS
<1>2. f \in [Queues -> Seq(AnyMessage)] /\ NumbersOnce(Queues, f) /\ IsNew(Queues, f, m)
    BY <1>1, TrafficTyped DEF AnswersInv
<1>3. PICK g : g = Traffic'
    OBVIOUS
<1>4. NumbersOnce(Queues, g) /\ AddsOnly(Queues, g, f, m)
    <2>1. CASE g = f
        BY <1>2, <2>1 DEF AddsOnly
    <2>2. CASE g = WithLast(f, x, m)
        BY <1>2, <2>2, LastPut
    <2> QED
        BY <1>1, <1>3, <2>1, <2>2
<1>5. ASSUME NEW q \in Queues, NEW i \in DOMAIN Traffic'[q]
      PROVE  Expected(Traffic[q][i])'
    <2>1. PICK a : a = Traffic'[q][i]
        OBVIOUS
    <2>2. a = m \/ IsUnderway(a)
        BY <1>1, <1>3, <1>4, <2>1 DEF AddsOnly, IsUnderway
    <2>3. Expected(a)'
        BY <2>2
    <2> QED
        BY <2>1, <2>3 DEF Expected
<1> QED
    BY <1>3, <1>4, <1>5 DEF AnswersInv

\* A number that is not in transit is no message's.
LEMMA FreeNumber ==
    ASSUME NEW nr, nr # 0, nr \notin InTransit \ {0}
    PROVE  IsFresh(Queues, Traffic, nr)
<1> DEFINE up == UNION {{toServer[p][i].nr : i \in DOMAIN toServer[p]} : p \in NetPeers}
           down == UNION {{toClient[p][i].nr : i \in DOMAIN toClient[p]} : p \in NetPeers}
           later == {delayed[i].nr : i \in DOMAIN delayed}
<1>0. InTransit = up \cup down \cup later
    BY DEF InTransit
<1>4. \A p \in NetPeers : \A i \in DOMAIN toServer[p] : toServer[p][i].nr \in up
    OBVIOUS
<1>5. \A p \in NetPeers : \A i \in DOMAIN toClient[p] : toClient[p][i].nr \in down
    OBVIOUS
<1>6. \A i \in DOMAIN delayed : delayed[i].nr \in later
    OBVIOUS
<1> HIDE DEF up, down, later
<1>1. \A p \in NetPeers : /\ \A i \in DOMAIN toServer[p] : toServer[p][i].nr # nr
                          /\ \A i \in DOMAIN toClient[p] : toClient[p][i].nr # nr
    BY <1>0, <1>4, <1>5
<1>2. \A i \in DOMAIN delayed : delayed[i].nr # nr
    BY <1>0, <1>6
<1>3. ASSUME NEW q \in Queues, NEW i \in DOMAIN Traffic[q] PROVE Traffic[q][i].nr # nr
    <2>1. \/ \E p \in NetPeers : Traffic[q] = toServer[p] \/ Traffic[q] = toClient[p]
          \/ Traffic[q] = delayed
        BY QueuesDiffer, TrafficAt DEF Traffic
    <2> QED
        BY <1>1, <1>2, <2>1
<1> QED
    BY <1>3 DEF IsFresh

\* What a message to the service makes of the traffic.
LEMMA ServerGets_Traffic ==
    ASSUME ClientsTypeOK, NEW p \in NetPeers, NEW m, ServerGets(p, m),
           UNCHANGED <<toClient, delayed>>
    PROVE  Traffic' = Traffic \/ Traffic' = WithLast(Traffic, Up(p), m)
<1>1. DOMAIN toServer = NetPeers /\ DOMAIN toClient = NetPeers
    BY DEF ClientsTypeOK
<1>2. toServer' = toServer \/ toServer' = WithLast(toServer, p, m)
    BY DEF ServerGets, SendTo, WithLast
<1>3. Traffic' = TrafficOf(toServer', toClient, delayed)
    BY DEF Traffic
<1>4. CASE toServer' = toServer
    BY <1>3, <1>4 DEF Traffic
<1>5. CASE toServer' = WithLast(toServer, p, m)
    <2>1. PICK up, down, later : up = toServer /\ down = toClient /\ later = delayed
        OBVIOUS
    <2>2. PICK g : g = WithLast(up, p, m)
        OBVIOUS
    <2>3. TrafficOf(g, down, later) = WithLast(TrafficOf(up, down, later), Up(p), m)
        BY <1>1, <2>1, <2>2, CommandPut
    <2> QED
        BY <1>3, <1>5, <2>1, <2>2, <2>3 DEF Traffic
<1> QED
    BY <1>2, <1>4, <1>5

LEMMA Sent_Answers ==
    ASSUME ServiceClientsAssumption, ClientsTypeOK, ProxyInv, AnswersInv,
           NEW c \in ProxyClients, NEW call, NEW n \in Notifiers,
           NEW text \in Texts \cup {NoText}, call = "setRange" => text \in Texts,
           SendCommand(c, call, n, text)
    PROVE  AnswersInv'
<1> DEFINE p == m_ConnectionHash[c]
           record == [client |-> c, nr |-> GetMsgNr, call |-> call, notifier |-> n, text |-> text]
<1>1. /\ p \in NetPeers /\ call \in Uses[c] /\ c \in Living
      /\ ServerGets(p, record)
      /\ GetMsgNr \notin InTransit \ {0}
      /\ m_MsgNrCmdList' = [m_MsgNrCmdList EXCEPT ![c][GetMsgNr] = Calls[KindOf[c]][call]]
      /\ UNCHANGED <<proxyVars, toClient, delayed>>
    BY DEF SendCommand, ClientsTypeOK, ProxyTypeOK, Living
<1>2. GetMsgNr \in MsgNrs /\ record \in Command
    BY <1>1, MessageOfClient DEF ClientsTypeOK
<1>3. PICK nr \in MsgNrs : nr = GetMsgNr
    BY <1>2
<1>4. nr # 0
    BY <1>3 DEF MsgNrs, ServiceClientsAssumption
<1>5. IsFresh(Queues, Traffic, nr)
    BY <1>1, <1>3, <1>4, FreeNumber
<1>6. PICK m \in AnyMessage : m = record
    BY <1>2 DEF AnyMessage, Command
<1>7. m.nr = nr /\ m.client = c /\ m.call = call
    BY <1>3, <1>6
<1>8. Traffic' = Traffic \/ Traffic' = WithLast(Traffic, Up(p), m)
    <2>1. PICK q \in NetPeers : q = p
        BY <1>1
    <2>2. ServerGets(q, m)
        BY <1>1, <1>6, <2>1
    <2> QED
        BY <1>1, <2>1, <2>2, ServerGets_Traffic
<1>9. UNCHANGED <<uuids, m_ConnectionHash>>
    BY <1>1 DEF proxyVars
<1>10. c \in uuids
    BY <1>1 DEF ProxyInv, AbsentClientsAreBlank
<1>11. m_MsgNrCmdList'[c][nr] = Calls[KindOf[c]][call]
    BY <1>1, <1>3 DEF ClientsTypeOK
<1>12. Expected(m)'
    BY <1>7, <1>9, <1>10, <1>11 DEF Expected
<1>13. ASSUME NEW a, IsUnderway(a) PROVE Expected(a)'
    <2>1. a \in AnyMessage /\ Expected(a) /\ a.nr # nr
        BY <1>5, <1>13, UnderwayTyped DEF IsUnderway, AnswersInv, IsFresh
    <2>2. a.nr # 0 => m_MsgNrCmdList'[a.client][a.nr] = m_MsgNrCmdList[a.client][a.nr]
        BY <1>1, <1>3, <2>1, NumberedMessage DEF ClientsTypeOK
    <2> QED
        BY <1>9, <2>1, <2>2 DEF Expected, Living
<1>14. Up(p) \in Queues
    BY <1>1, QueuesDiffer
<1>15. IsNew(Queues, Traffic, m)
    BY <1>5, <1>7 DEF IsNew
<1> QED
    BY <1>8, <1>12, <1>13, <1>14, <1>15, Put_Answers

LEMMA Release_Answers ==
    ASSUME ServiceClientsAssumption, ClientsTypeOK, ProxyInv, AnswersInv,
           NEW c \in ProxyClients, Release(c)
    PROVE  AnswersInv'
<1> DEFINE p == m_ConnectionHash[c]
           record == [client |-> c, nr |-> 0, call |-> "RELEASE",
                      notifier |-> CHOOSE n \in Notifiers : TRUE, text |-> NoText]
<1>1. /\ p \in NetPeers
      /\ ServerGets(p, record)
      /\ m_MsgNrCmdList' = [m_MsgNrCmdList EXCEPT ![c] = [n \in MsgNrs |-> NoCommand]]
      /\ m_ConnectionHash' = [m_ConnectionHash EXCEPT ![c] = NoPeer]
      /\ UNCHANGED <<uuids, toClient, delayed>>
    BY DEF Release, ReleaseConnection, ClientsTypeOK, ProxyTypeOK, Living
<1>2. PICK m \in AnyMessage : m = record
    BY ReleaseMessage DEF AnyMessage, Command
<1>3. m.nr = 0
    BY <1>2
<1>4. Traffic' = Traffic \/ Traffic' = WithLast(Traffic, Up(p), m)
    <2>1. PICK q \in NetPeers : q = p
        BY <1>1
    <2>2. ServerGets(q, m)
        BY <1>1, <1>2, <2>1
    <2> QED
        BY <1>1, <2>1, <2>2, ServerGets_Traffic
<1>5. Expected(m)' /\ IsNew(Queues, Traffic, m)
    BY <1>3 DEF Expected, IsNew
<1>6. ASSUME NEW a, IsUnderway(a) PROVE Expected(a)'
    <2>1. a \in AnyMessage /\ Expected(a)
        BY <1>6, UnderwayTyped DEF IsUnderway, AnswersInv
    <2>2. a.client \in ProxyClients
        BY <2>1, NumberedMessage
    <2>3. a.client \in Living' => a.client \in Living /\ a.client # c
        BY <1>1, <2>2 DEF Living, ClientsTypeOK, ProxyTypeOK
    <2>4. a.client # c => m_MsgNrCmdList'[a.client] = m_MsgNrCmdList[a.client]
        BY <1>1, <2>2 DEF ClientsTypeOK
    <2> QED
        BY <1>1, <2>1, <2>3, <2>4 DEF Expected
<1>7. Up(p) \in Queues
    BY <1>1, QueuesDiffer
<1> QED
    BY <1>4, <1>5, <1>6, <1>7, Put_Answers

\* Connections that come up or go: messages are lost with them, none is added.
LEMMA Emptied_Answers ==
    ASSUME ClientsTypeOK, AnswersInv, NEW x \in Queues,
           Traffic' = Traffic \/ Traffic' = WithList(Traffic, x, <<>>),
           uuids \subseteq uuids', \A c \in uuids : c \in Living' => c \in Living,
           UNCHANGED m_MsgNrCmdList
    PROVE  AnswersInv'
<1>1. PICK f : f = Traffic
    OBVIOUS
<1>2. f \in [Queues -> Seq(AnyMessage)] /\ NumbersOnce(Queues, f)
    BY <1>1, TrafficTyped DEF AnswersInv
<1>3. PICK g : g = Traffic'
    OBVIOUS
<1>4. NumbersOnce(Queues, g) /\ ComesFrom(Queues, g, f)
    <2>1. CASE g = f
        BY <1>2, <2>1 DEF ComesFrom
    <2>2. CASE g = WithList(f, x, <<>>)
        BY <1>2, <2>2, QueueEmptied DEF WithList
    <2> QED
        BY <1>1, <1>3, <2>1, <2>2
<1> QED
    BY <1>1, <1>3, <1>4, Fewer_Answers

LEMMA Connection_Answers ==
    ASSUME ClientsTypeOK, ProxyInv, AnswersInv, [ProxyNext]_proxyVars,
           NEW p \in NetPeers, Connection(p)
    PROVE  AnswersInv'
<1>1. uuids \subseteq uuids' /\ \A c \in uuids : c \in Living' => c \in Living
    BY NewLiving
<1>2. Up(p) \in Queues /\ Down(p) \in Queues
    BY QueuesDiffer
<1>3. DOMAIN toServer = NetPeers /\ DOMAIN toClient = NetPeers
    BY DEF ClientsTypeOK
<1>4. PICK up, down, later : up = toServer /\ down = toClient /\ later = delayed
    OBVIOUS
<1>5. /\ TrafficOf(WithList(up, p, <<>>), down, later) = WithList(Traffic, Up(p), <<>>)
      /\ TrafficOf(up, WithList(down, p, <<>>), later) = WithList(Traffic, Down(p), <<>>)
    BY <1>3, <1>4, TrafficChanged DEF Traffic
<1>6. CASE Establish(p) \/ Refuse(p)
    <2>1. UNCHANGED <<toServer, toClient, delayed, m_MsgNrCmdList>>
        BY <1>6 DEF Establish, Refuse, clientVars
    <2>2. Traffic' = Traffic
        BY <2>1 DEF Traffic
    <2> QED
        BY <1>1, <1>2, <2>1, <2>2, Emptied_Answers
<1>7. CASE LoseConnection(p) \/ DeleteNetPeer(p)
    <2>1. /\ toClient' = WithList(toClient, p, <<>>)
          /\ UNCHANGED <<toServer, delayed, m_MsgNrCmdList>>
        BY <1>7 DEF LoseConnection, DeleteNetPeer, Unread, WithList
    <2>2. Traffic' = TrafficOf(toServer, WithList(toClient, p, <<>>), delayed)
        BY <2>1 DEF Traffic
    <2>3. Traffic' = WithList(Traffic, Down(p), <<>>)
        BY <1>4, <1>5, <2>2
    <2> QED
        BY <1>1, <1>2, <2>1, <2>3, Emptied_Answers
<1>8. CASE NotifyPeerConnectionClosed(p)
    <2>1. /\ toServer' = WithList(toServer, p, <<>>)
          /\ UNCHANGED <<toClient, delayed, m_MsgNrCmdList>>
        BY <1>8 DEF NotifyPeerConnectionClosed, WithList
    <2>2. Traffic' = TrafficOf(WithList(toServer, p, <<>>), toClient, delayed)
        BY <2>1 DEF Traffic
    <2>3. Traffic' = WithList(Traffic, Up(p), <<>>)
        BY <1>4, <1>5, <2>2
    <2> QED
        BY <1>1, <1>2, <2>1, <2>3, Emptied_Answers
<1> QED
    BY <1>6, <1>7, <1>8 DEF Connection

\* An answer, once received, has its number for itself: taking its entry from the
\* list takes no other command's.
LEMMA Received_Answers ==
    ASSUME ServiceClientsAssumption, ClientsTypeOK, AnswersInv,
           NEW p \in NetPeers, ReceiveAnswer(p)
    PROVE  AnswersInv'
<1> DEFINE m == Head(toClient[p])
<1>14. toClient[p] # <<>> /\ toClient' = WithoutFirst(toClient, p)
    BY DEF ReceiveAnswer, WithoutFirst
<1>15. UNCHANGED <<proxyVars, toServer, delayed>>
    BY DEF ReceiveAnswer
<1>16. \/ UNCHANGED m_MsgNrCmdList
       \/ m_MsgNrCmdList' = TakeEntry(m.client, m.nr)
    BY DEF ReceiveAnswer
<1>1. /\ toClient[p] # <<>> /\ toClient' = WithoutFirst(toClient, p)
      /\ \/ UNCHANGED m_MsgNrCmdList
         \/ m_MsgNrCmdList' = TakeEntry(m.client, m.nr)
      /\ UNCHANGED <<proxyVars, toServer, delayed>>
    BY <1>14, <1>15, <1>16
<1>2. DOMAIN toServer = NetPeers /\ DOMAIN toClient = NetPeers
    BY DEF ClientsTypeOK
<1>3. Traffic' = WithoutFirst(Traffic, Down(p))
    <2>1. PICK up, down, later : up = toServer /\ down = toClient /\ later = delayed
        OBVIOUS
    <2>2. TrafficOf(up, WithoutFirst(down, p), later)
                = WithoutFirst(TrafficOf(up, down, later), Down(p))
        BY <1>2, <2>1, TrafficFirst
    <2> QED
        BY <1>1, <2>1, <2>2 DEF Traffic
<1>4. PICK x \in Queues : x = Down(p)
    BY QueuesDiffer
<1>5. PICK f : f = Traffic
    OBVIOUS
<1>6. f \in [Queues -> Seq(AnyMessage)] /\ NumbersOnce(Queues, f)
    BY <1>5, TrafficTyped DEF AnswersInv
<1>7. f[x] = toClient[p]
    BY <1>4, <1>5, TrafficAt DEF Traffic
<1>8. PICK g : g = WithoutFirst(f, x)
    OBVIOUS
<1>9. Traffic' = g
    BY <1>3, <1>4, <1>5, <1>8
<1>10. /\ NumbersOnce(Queues, g) /\ ComesFrom(Queues, g, f)
       /\ m.nr # 0 => IsFresh(Queues, g, m.nr)
       /\ m \in AnyMessage
    <2>1. f[x] # <<>>
        BY <1>1, <1>7
    <2>2. /\ NumbersOnce(Queues, g) /\ ComesFrom(Queues, g, f)
          /\ Head(f[x]).nr # 0 => IsFresh(Queues, g, Head(f[x]).nr)
          /\ Head(f[x]) \in AnyMessage
        BY <1>6, <1>8, <2>1, FirstTaken
    <2> QED
        BY <1>7, <2>2
<1>11. m.client \in ProxyClients /\ (m.nr # 0 => m.nr \in MsgNrs)
    BY <1>10, NumberedMessage
<1> HIDE DEF m
<1>12. UNCHANGED <<uuids, m_ConnectionHash>>
    BY <1>1 DEF proxyVars
<1>13. ASSUME NEW q \in Queues, NEW i \in DOMAIN Traffic'[q]
       PROVE  Expected(Traffic[q][i])'
    <2>1. PICK a : a = Traffic'[q][i]
        OBVIOUS
    <2>2. PICK j \in DOMAIN Traffic[q] : a = Traffic[q][j]
        BY <1>5, <1>9, <1>10, <2>1 DEF ComesFrom
    <2>3. Expected(a) /\ IsUnderway(a)
        BY <2>2 DEF AnswersInv, IsUnderway
    <2>4. a \in AnyMessage
        BY <2>3, UnderwayTyped
    <2>5. a.client \in ProxyClients /\ (a.nr # 0 => a.nr \in MsgNrs)
        BY <2>4, NumberedMessage
    <2>6. m.nr # 0 => a.nr # m.nr
        BY <1>9, <1>10, <2>1 DEF IsFresh
    <2>7. a.nr # 0 => m_MsgNrCmdList'[a.client][a.nr] = m_MsgNrCmdList[a.client][a.nr]
        <3>1. CASE UNCHANGED m_MsgNrCmdList
            BY <3>1
        <3>2. CASE m_MsgNrCmdList' = TakeEntry(m.client, m.nr) /\ m.nr # 0
            <4>1. PICK c \in ProxyClients, nr \in MsgNrs : c = m.client /\ nr = m.nr
                BY <1>11, <3>2
            <4>2. m_MsgNrCmdList' = [m_MsgNrCmdList EXCEPT ![c][nr] = NoCommand]
                BY <3>2, <4>1 DEF TakeEntry
            <4>3. m_MsgNrCmdList \in [ProxyClients -> [MsgNrs -> Enumerators]]
                BY DEF ClientsTypeOK
            <4> QED
                BY <2>5, <2>6, <3>2, <4>1, <4>2, <4>3
        <3> QED
            BY <1>1, <3>1, <3>2 DEF TakeEntry
    <2>8. Expected(a)'
        BY <1>12, <2>3, <2>7 DEF Expected, Living
    <2> QED
        BY <2>1, <2>8 DEF Expected
<1> QED
    BY <1>9, <1>10, <1>13 DEF AnswersInv

NoAnswers == [p \in NetPeers |-> <<>>]

\* What notifications add to the traffic.
NotifiedTraffic(sent) ==
    TrafficOf(NoAnswers, [p \in NetPeers |-> IF m_peerState[p] = "open" THEN sent[p] ELSE <<>>],
              <<>>)

LEMMA NotifiedTraffic_Unnumbered ==
    ASSUME NEW sent \in [NetPeers -> Seq(Notified)]
    PROVE  /\ NotifiedTraffic(sent) \in [Queues -> Seq(AnyMessage)]
           /\ HasNoNumbers(Queues, NotifiedTraffic(sent))
<1> DEFINE down == [p \in NetPeers |-> IF m_peerState[p] = "open" THEN sent[p] ELSE <<>>]
<1>1. PICK z : z = NotifiedTraffic(sent)
    OBVIOUS
<1>2. /\ \A p \in NetPeers : z[Up(p)] = <<>> /\ z[Down(p)] = down[p]
      /\ z[Later] = <<>>
    BY <1>1, TrafficAt DEF NotifiedTraffic, NoAnswers
<1>3. z = [q \in Queues |-> z[q]]
    BY <1>1 DEF NotifiedTraffic, TrafficOf
<1>4. <<>> \in Seq(Notified)
    OBVIOUS
<1>5. \A p \in NetPeers : down[p] \in Seq(Notified)
    BY <1>4
<1> HIDE DEF down
<1>6. \A q \in Queues : z[q] \in Seq(Notified)
    <2>1. ASSUME NEW p \in NetPeers
          PROVE  z[Up(p)] \in Seq(Notified) /\ z[Down(p)] \in Seq(Notified)
        BY <1>2, <1>4, <1>5
    <2>2. z[Later] \in Seq(Notified)
        BY <1>2, <1>4
    <2> QED
        BY <2>1, <2>2, QueuesDiffer
<1>7. Notified \subseteq AnyMessage
    BY DEF AnyMessage
<1>8. ASSUME NEW q \in Queues
      PROVE  z[q] \in Seq(AnyMessage) /\ \A i \in DOMAIN z[q] : z[q][i].nr = 0
    <2>1. z[q] \in Seq(Notified)
        BY <1>6
    <2>2. z[q] \in Seq(AnyMessage)
        BY <1>7, <2>1
    <2>3. \A i \in DOMAIN z[q] : z[q][i] \in Notified
        BY <2>1
    <2> QED
        BY <2>2, <2>3 DEF Notified
<1>9. z \in [Queues -> Seq(AnyMessage)] /\ HasNoNumbers(Queues, z)
    BY <1>3, <1>8 DEF HasNoNumbers
<1> QED
    BY <1>1, <1>9

LEMMA NothingAppended ==
    ASSUME NEW T, NEW s \in Seq(T)
    PROVE  s \o <<>> = s
OBVIOUS

\* Notifications without answers.
LEMMA Delivered_Traffic ==
    ASSUME ClientsTypeOK, NEW sent \in [NetPeers -> Seq(Notified)], NEW later \in Seq(DelayedCmd)
    PROVE  TrafficOf(toServer, Delivered(sent, NoAnswers), later)
                = WithAll(Queues, TrafficOf(toServer, toClient, later), NotifiedTraffic(sent))
<1> DEFINE down == [p \in NetPeers |-> IF m_peerState[p] = "open" THEN sent[p] ELSE <<>>]
<1>1. PICK z : z = NotifiedTraffic(sent)
    OBVIOUS
<1>2. /\ \A p \in NetPeers : z[Up(p)] = <<>> /\ z[Down(p)] = down[p]
      /\ z[Later] = <<>>
    BY <1>1, TrafficAt DEF NotifiedTraffic, NoAnswers
<1>3. PICK f : f = TrafficOf(toServer, toClient, later)
    OBVIOUS
<1>4. /\ \A p \in NetPeers : f[Up(p)] = toServer[p] /\ f[Down(p)] = toClient[p]
      /\ f[Later] = later
    BY <1>3, TrafficAt
<1>5. PICK d : d = Delivered(sent, NoAnswers)
    OBVIOUS
<1>6. PICK g : g = TrafficOf(toServer, d, later)
    OBVIOUS
<1>7. /\ \A p \in NetPeers : g[Up(p)] = toServer[p] /\ g[Down(p)] = d[p]
      /\ g[Later] = later
    BY <1>6, TrafficAt
<1>8. PICK k : k = WithAll(Queues, f, z)
    OBVIOUS
<1>9. k = [q \in Queues |-> k[q]] /\ \A q \in Queues : k[q] = f[q] \o z[q]
    BY <1>8 DEF WithAll
<1>10. g = [q \in Queues |-> g[q]]
    BY <1>6 DEF TrafficOf
<1>11. ASSUME NEW p \in NetPeers PROVE g[Up(p)] = k[Up(p)] /\ g[Down(p)] = k[Down(p)]
    <2>1. Up(p) \in Queues /\ Down(p) \in Queues
        BY QueuesDiffer
    <2>2. k[Up(p)] = toServer[p] \o <<>> /\ k[Down(p)] = toClient[p] \o down[p]
        BY <1>2, <1>4, <1>9, <2>1
    <2>3. toServer[p] \in Seq(Command) /\ toClient[p] \in Seq(Message \cup Notified)
        BY DEF ClientsTypeOK
    <2>4. toServer[p] \o <<>> = toServer[p]
        BY <2>3, NothingAppended
    <2>5. d[p] = toClient[p] \o down[p]
        <3>1. CASE m_peerState[p] = "open"
            <4>1. d[p] = toClient[p] \o sent[p] \o <<>> /\ down[p] = sent[p]
                BY <1>5, <3>1 DEF Delivered, NoAnswers
            <4>2. sent[p] \in Seq(Notified)
                OBVIOUS
            <4>3. sent[p] \in Seq(Message \cup Notified)
                BY <4>2
            <4>4. toClient[p] \o sent[p] \in Seq(Message \cup Notified)
                BY <2>3, <4>3
            <4> QED
                BY <4>1, <4>4, NothingAppended
        <3>2. CASE m_peerState[p] # "open"
            <4>1. d[p] = toClient[p] /\ down[p] = <<>>
                BY <1>5, <3>2 DEF Delivered
            <4> QED
                BY <2>3, <4>1, NothingAppended
        <3> QED
            BY <3>1, <3>2
    <2> QED
        BY <1>7, <2>2, <2>4, <2>5
<1>12. g[Later] = k[Later]
    <2>1. k[Later] = later \o <<>>
        BY <1>2, <1>4, <1>9, QueuesDiffer
    <2>2. later \o <<>> = later
        BY NothingAppended
    <2> QED
        BY <1>7, <2>1, <2>2
<1>13. g = k
    BY <1>9, <1>10, <1>11, <1>12, SameTraffic
<1> QED
    BY <1>1, <1>3, <1>5, <1>6, <1>8, <1>13

\* Notifications alone do not disturb what is expected.
LEMMA Notified_Answers ==
    ASSUME ClientsTypeOK, AnswersInv, NEW sent \in [NetPeers -> Seq(Notified)],
           toClient' = Delivered(sent, NoAnswers),
           UNCHANGED <<proxyVars, m_MsgNrCmdList, toServer, delayed>>
    PROVE  AnswersInv'
<1>1. PICK z : z = NotifiedTraffic(sent)
    OBVIOUS
<1>2. z \in [Queues -> Seq(AnyMessage)] /\ HasNoNumbers(Queues, z)
    BY <1>1, NotifiedTraffic_Unnumbered
<1>3. Traffic' = WithAll(Queues, Traffic, z)
    <2>1. delayed \in Seq(DelayedCmd)
        BY DEF ClientsTypeOK
    <2>2. Traffic' = TrafficOf(toServer, Delivered(sent, NoAnswers), delayed)
        BY DEF Traffic
    <2> QED
        BY <1>1, <2>1, <2>2, Delivered_Traffic DEF Traffic
<1>4. PICK f : f = Traffic
    OBVIOUS
<1>5. f \in [Queues -> Seq(AnyMessage)] /\ NumbersOnce(Queues, f)
    BY <1>4, TrafficTyped DEF AnswersInv
<1>6. PICK g : g = WithAll(Queues, f, z)
    OBVIOUS
<1>7. NumbersOnce(Queues, g) /\ AddsUnnumbered(Queues, g, f)
    BY <1>2, <1>5, <1>6, UnnumberedPut
<1>8. Traffic' = g
    BY <1>3, <1>4, <1>6
<1>9. UNCHANGED <<uuids, m_ConnectionHash>>
    BY DEF proxyVars
<1>10. ASSUME NEW q \in Queues, NEW i \in DOMAIN Traffic'[q]
       PROVE  Expected(Traffic[q][i])'
    <2>1. PICK a : a = Traffic'[q][i]
        OBVIOUS
    <2>2. a.nr = 0 \/ \E j \in DOMAIN Traffic[q] : a = Traffic[q][j]
        BY <1>4, <1>7, <1>8, <2>1 DEF AddsUnnumbered
    <2>3. Expected(a)
        BY <2>2 DEF AnswersInv, Expected
    <2>4. Expected(a)'
        BY <1>9, <2>3 DEF Expected, Living
    <2> QED
        BY <2>1, <2>4 DEF Expected
<1> QED
    BY <1>7, <1>8, <1>10 DEF AnswersInv

LEMMA Assign_Answers ==
    ASSUME ServiceClientsAssumption, ClientsTypeOK, AnswersInv, NEW n \in Notifiers, Assign(n)
    PROVE  AnswersInv'
<1>1. PICK text \in Texts : Notifying(n, text, NoAnswers)
    BY DEF Assign, NoAnswers
<1>2. PICK answers : answers = NoAnswers
    OBVIOUS
<1>3. PICK sent \in [NetPeers -> Seq(Notified)] : toClient' = Delivered(sent, answers)
    BY <1>1, <1>2, Notifying_Sends
<1>4. UNCHANGED <<proxyVars, m_MsgNrCmdList, toServer, delayed>>
    BY DEF Assign
<1> QED
    BY <1>2, <1>3, <1>4, Notified_Answers

LEMMA Trigger_Answers ==
    ASSUME ServiceClientsAssumption, ClientsTypeOK, AnswersInv, NEW n \in Notifiers, Trigger(n)
    PROVE  AnswersInv'
<1>1. PICK sent \in [NetPeers -> Seq(Notified)] :
            toClient' = [p \in NetPeers |-> IF m_peerState[p] = "open"
                                              THEN toClient[p] \o sent[p] ELSE toClient[p]]
    BY Trigger_Sends
<1>2. ASSUME NEW p \in NetPeers
      PROVE  toClient[p] \o sent[p] = toClient[p] \o sent[p] \o NoAnswers[p]
    <2>1. toClient[p] \in Seq(Message \cup Notified) /\ sent[p] \in Seq(Notified)
        BY DEF ClientsTypeOK
    <2>2. sent[p] \in Seq(Message \cup Notified)
        BY <2>1
    <2>3. toClient[p] \o sent[p] \in Seq(Message \cup Notified)
        BY <2>1, <2>2
    <2>4. NoAnswers[p] = <<>>
        BY DEF NoAnswers
    <2> QED
        BY <2>3, <2>4, NothingAppended
<1>3. toClient' = Delivered(sent, NoAnswers)
    BY <1>1, <1>2 DEF Delivered
<1>4. UNCHANGED <<proxyVars, m_MsgNrCmdList, toServer, delayed>>
    BY DEF Trigger
<1> QED
    BY <1>3, <1>4, Notified_Answers

\* The notifications of a command come before its answer, if there is one.
LEMMA CmdDone_Answers ==
    ASSUME ServiceClientsAssumption, ClientsTypeOK, AnswersInv, CmdDone
    PROVE  AnswersInv'
<1> DEFINE m == Head(delayed)
           answers == [p \in NetPeers |->
                          IF p = m.peer /\ p \in serverSees THEN <<Answer(m, NoText)>> ELSE <<>>]
<1>1. /\ delayed # <<>> /\ Notifying(m.notifier, m.text, answers)
      /\ delayed' = Tail(delayed)
      /\ UNCHANGED <<proxyVars, m_MsgNrCmdList, toServer>>
    BY DEF CmdDone
<1>2. delayed \in Seq(DelayedCmd)
    BY DEF ClientsTypeOK
<1>3. m \in DelayedCmd /\ Tail(delayed) \in Seq(DelayedCmd)
    BY <1>1, <1>2
<1>4. PICK n \in Notifiers, text \in Texts, p \in NetPeers :
            n = m.notifier /\ text = m.text /\ p = m.peer
    BY <1>3 DEF DelayedCmd
<1>5. PICK replies : replies = answers
    OBVIOUS
<1>6. PICK sent \in [NetPeers -> Seq(Notified)] : toClient' = Delivered(sent, replies)
    <2>1. Notifying(n, text, replies)
        BY <1>1, <1>4, <1>5
    <2> QED
        BY <2>1, Notifying_Sends
<1>7. Answer(m, NoText) \in Message
    BY <1>3 DEF DelayedCmd, Answer, Message
<1>8. PICK a \in AnyMessage : a = Answer(m, NoText) /\ a.nr = m.nr
                               /\ a.client = m.client /\ a.call = m.call
    BY <1>7 DEF AnyMessage, Answer
<1>9. /\ replies = [r \in NetPeers |-> replies[r]]
      /\ \A r \in NetPeers : replies[r] = IF r = p /\ r \in serverSees THEN <<a>> ELSE <<>>
    BY <1>4, <1>5, <1>8
<1>10. PICK later \in Seq(DelayedCmd) : later = Tail(delayed)
    BY <1>3
<1>11. PICK quiet : quiet = Delivered(sent, NoAnswers)
    OBVIOUS
<1>12. quiet = [r \in NetPeers |-> quiet[r]]
    BY <1>11 DEF Delivered
<1> HIDE DEF m, answers
<1>13. toClient' = quiet \/ toClient' = WithLast(quiet, p, a)
    <2>1. ASSUME NEW r \in NetPeers
          PROVE  quiet[r] \o <<>> = quiet[r] /\ toClient[r] \o sent[r] \o <<>> = toClient[r] \o sent[r]
        <3>1. toClient[r] \in Seq(Message \cup Notified) /\ sent[r] \in Seq(Notified)
            BY DEF ClientsTypeOK
        <3>2. sent[r] \in Seq(Message \cup Notified)
            BY <3>1
        <3>3. toClient[r] \o sent[r] \in Seq(Message \cup Notified)
            BY <3>1, <3>2
        <3>4. toClient[r] \o sent[r] \o <<>> = toClient[r] \o sent[r]
            BY <3>3, NothingAppended
        <3>5. quiet[r] = toClient[r] \o sent[r] \/ quiet[r] = toClient[r]
            BY <1>11, <3>4 DEF Delivered, NoAnswers
        <3>6. quiet[r] \in Seq(Message \cup Notified)
            BY <3>1, <3>3, <3>5
        <3> QED
            BY <3>4, <3>6, NothingAppended
    <2>2. \A r \in NetPeers : quiet[r] = IF m_peerState[r] = "open"
                                          THEN toClient[r] \o sent[r] ELSE toClient[r]
        BY <1>11, <2>1 DEF Delivered, NoAnswers
    <2>3. \A r \in NetPeers : toClient'[r] = IF m_peerState[r] = "open"
                                               THEN toClient[r] \o sent[r] \o replies[r]
                                               ELSE toClient[r]
        BY <1>6 DEF Delivered
    <2>4. toClient' = [r \in NetPeers |-> toClient'[r]]
        BY <1>6 DEF Delivered
    <2>5. \A r \in NetPeers : r # p => toClient'[r] = quiet[r]
        BY <1>9, <2>1, <2>2, <2>3
    <2>6. toClient'[p] = quiet[p] \/ toClient'[p] = quiet[p] \o <<a>>
        BY <1>9, <2>1, <2>2, <2>3
    <2>7. CASE toClient'[p] = quiet[p]
        <3>1. \A r \in NetPeers : toClient'[r] = quiet[r]
            BY <2>5, <2>7
        <3> QED
            BY <1>12, <2>4, <3>1
    <2>8. CASE toClient'[p] = quiet[p] \o <<a>>
        <3>1. \A r \in NetPeers : toClient'[r] = WithLast(quiet, p, a)[r]
            BY <1>12, <2>5, <2>8 DEF WithLast
        <3>2. WithLast(quiet, p, a) = [r \in NetPeers |-> WithLast(quiet, p, a)[r]]
            BY <1>12 DEF WithLast
        <3> QED
            BY <2>4, <3>1, <3>2
    <2> QED
        BY <2>6, <2>7, <2>8
<1>14. PICK z : z = NotifiedTraffic(sent)
    OBVIOUS
<1>15. z \in [Queues -> Seq(AnyMessage)] /\ HasNoNumbers(Queues, z)
    BY <1>14, NotifiedTraffic_Unnumbered
<1>16. Up(p) \in Queues /\ Down(p) \in Queues /\ Later \in Queues
    BY QueuesDiffer
<1>17. DOMAIN toServer = NetPeers /\ DOMAIN toClient = NetPeers /\ DOMAIN quiet = NetPeers
    BY <1>12 DEF ClientsTypeOK
<1>18. PICK h : h = WithoutFirst(Traffic, Later)
    OBVIOUS
<1>19. h = TrafficOf(toServer, toClient, later)
    <2>1. PICK up, down, waiting : up = toServer /\ down = toClient /\ waiting = delayed
        OBVIOUS
    <2>2. TrafficOf(up, down, Tail(waiting)) = WithoutFirst(TrafficOf(up, down, waiting), Later)
        BY <1>17, <2>1, TrafficFirst
    <2> QED
        BY <1>10, <1>18, <2>1, <2>2 DEF Traffic
<1>20. PICK k : k = WithAll(Queues, h, z)
    OBVIOUS
<1>21. k = TrafficOf(toServer, quiet, later)
    BY <1>11, <1>14, <1>19, <1>20, Delivered_Traffic
<1>22. Traffic' = k \/ Traffic' = WithLast(k, Down(p), a)
    <2>1. Traffic' = TrafficOf(toServer, toClient', later)
        BY <1>1, <1>10 DEF Traffic
    <2>2. CASE toClient' = quiet
        BY <1>21, <2>1, <2>2
    <2>3. CASE toClient' = WithLast(quiet, p, a)
        <3>1. PICK up : up = toServer
            OBVIOUS
        <3>2. PICK g : g = WithLast(quiet, p, a)
            OBVIOUS
        <3>3. TrafficOf(up, g, later) = WithLast(TrafficOf(up, quiet, later), Down(p), a)
            BY <1>17, <3>1, <3>2, AnswerPut
        <3> QED
            BY <1>21, <2>1, <2>3, <3>1, <3>2, <3>3
    <2> QED
        BY <1>13, <2>2, <2>3
<1>23. Traffic[Later] = delayed
    BY TrafficAt DEF Traffic
<1>24. /\ Traffic[Later] # <<>>
       /\ a.nr = Head(Traffic[Later]).nr /\ a.client = Head(Traffic[Later]).client
       /\ a.call = Head(Traffic[Later]).call
    BY <1>1, <1>8, <1>23 DEF m
<1>25. uuids \subseteq uuids' /\ \A c \in uuids : c \in Living' => c \in Living
    BY <1>1 DEF proxyVars, Living
<1>26. UNCHANGED m_MsgNrCmdList
    BY <1>1
<1>27. PICK x \in Queues, y \in Queues : x = Later /\ y = Down(p)
    BY <1>16
<1> QED
    BY <1>15, <1>18, <1>20, <1>22, <1>24, <1>25, <1>26, <1>27, Moved_Answers

LEMMA AnswersInvStep ==
    ASSUME ServiceClientsAssumption, ClientsTypeOK, ProxyInv, AnswersInv, [Next]_vars
    PROVE  AnswersInv'
<1>1. ASSUME NEW c \in ProxyClients, Process(c) PROVE AnswersInv'
    <2>1. CASE Connect(c) \/ StartConnection(c)
        <3>1. UNCHANGED <<toServer, toClient, delayed, m_MsgNrCmdList>>
            BY <2>1 DEF Connect, StartConnection, clientVars
        <3>2. Traffic' = Traffic
            BY <3>1 DEF Traffic
        <3>3. uuids \subseteq uuids' /\ \A d \in uuids : d \in Living' => d \in Living
            BY StepsOfProxy, NewLiving
        <3> QED
            BY <3>1, <3>2, <3>3, QueuesDiffer, Emptied_Answers
    <2>2. CASE Release(c)
        BY <2>2, Release_Answers
    <2>3. CASE Ask(c) \/ SetRange(c) \/ RegisterNotifier(c) \/ UnregisterNotifiers(c) \/ Read(c)
        <3>1. PICK first \in Notifiers : first = CHOOSE n \in Notifiers : TRUE
            BY DEF ServiceClientsAssumption
        <3>2. ASSUME NEW call, NEW n \in Notifiers, NEW text \in Texts \cup {NoText},
                     call = "setRange" => text \in Texts, SendCommand(c, call, n, text)
              PROVE  AnswersInv'
            BY <3>2, Sent_Answers
        <3>3. NoText \in Texts \cup {NoText}
            OBVIOUS
        <3>4. CASE Ask(c)
            BY <3>1, <3>2, <3>3, <3>4 DEF Ask, NotifierCalls
        <3>5. CASE SetRange(c)
            BY <3>2, <3>5 DEF SetRange
        <3>6. CASE RegisterNotifier(c)
            <4>1. PICK n \in Notifiers, t \in {NoText, FirstText} :
                        SendCommand(c, "registerNotifier", n, t)
                BY <3>6 DEF RegisterNotifier
            <4>2. t \in Texts \cup {NoText}
                BY DEF ServiceClientsAssumption
            <4> QED
                BY <3>2, <4>1, <4>2
        <3>7. CASE UnregisterNotifiers(c)
            BY <3>1, <3>2, <3>3, <3>7 DEF UnregisterNotifiers
        <3>8. CASE Read(c)
            BY <3>2, <3>3, <3>8 DEF Read, ClientsTypeOK
        <3> QED
            BY <2>3, <3>4, <3>5, <3>6, <3>7, <3>8
    <2> QED
        BY <1>1, <2>1, <2>2, <2>3 DEF Process
<1>2. ASSUME NEW p \in NetPeers, Serve(p) PROVE AnswersInv'
    BY <1>2, Serve_Answers
<1>3. ASSUME NEW p \in NetPeers, Connection(p) PROVE AnswersInv'
    BY <1>3, StepsOfProxy, Connection_Answers
<1>4. ASSUME NEW p \in NetPeers, ReceiveAnswer(p) PROVE AnswersInv'
    BY <1>4, Received_Answers
<1>5. CASE CmdDone
    BY <1>5, CmdDone_Answers
<1>6. ASSUME NEW n \in Notifiers, Assign(n) \/ Trigger(n) PROVE AnswersInv'
    BY <1>6, Assign_Answers, Trigger_Answers
<1>7. CASE UNCHANGED vars
    <2>1. UNCHANGED <<toServer, toClient, delayed, m_MsgNrCmdList, uuids, m_ConnectionHash>>
        BY <1>7 DEF vars, clientVars, proxyVars
    <2>2. Traffic' = Traffic
        BY <2>1 DEF Traffic
    <2>3. uuids \subseteq uuids' /\ \A d \in uuids : d \in Living' => d \in Living
        BY <2>1 DEF Living
    <2> QED
        BY <2>1, <2>2, <2>3, QueuesDiffer, Emptied_Answers
<1> QED
    BY <1>1, <1>2, <1>3, <1>4, <1>5, <1>6, <1>7 DEF Next

LEMMA AnswersInvHolds == Spec => []AnswersInv
<1>1. Init => AnswersInv
    <2> SUFFICES ASSUME Init PROVE AnswersInv
        OBVIOUS
    <2>1. /\ \A p \in NetPeers : toServer[p] = <<>> /\ toClient[p] = <<>>
          /\ delayed = <<>>
        BY DEF Init
    <2>2. \A q \in Queues : Traffic[q] = <<>>
        BY <2>1, QueuesDiffer, TrafficAt DEF Traffic
    <2> QED
        BY <2>2 DEF AnswersInv, NumbersOnce
<1>2. AnswersInv /\ ClientsTypeOK /\ ProxyInv /\ [Next]_vars => AnswersInv'
    BY ServiceClientsAssumption, AnswersInvStep
<1> QED
    BY <1>1, <1>2, ProxyInvHolds, ClientsTypeOKHolds, PTL DEF Spec

\* An answer finds the command it answers, in whatever order commands are done,
\* however numbers start again, and whichever clients come and go.
THEOREM AnswersAlwaysFindTheirCommand == Spec => []AnswersFindTheirCommand
<1>1. AnswersInv => AnswersFindTheirCommand
    <2> SUFFICES ASSUME AnswersInv, NEW m \in Unanswered PROVE Expected(m)
        BY DEF AnswersFindTheirCommand, Expected
    <2>1. \/ \E p \in NetPeers : \E i \in DOMAIN toServer[p] : m = toServer[p][i]
          \/ \E p \in NetPeers : \E i \in DOMAIN toClient[p] : m = toClient[p][i]
          \/ \E i \in DOMAIN delayed : m = delayed[i]
        BY DEF Unanswered
    <2>2. IsUnderway(m)
        BY <2>1, QueuesDiffer, TrafficAt DEF IsUnderway, Traffic
    <2> QED
        BY <2>2 DEF AnswersInv, IsUnderway
<1> QED
    BY <1>1, AnswersInvHolds, PTL

-----------------------------------------------------------------------------
(* What a module knows, and what is on its way in either direction.         *)

IsRegistration(m, c, n) == m.client = c /\ m.call = "registerNotifier" /\ m.notifier = n
IsRead(m, c, n) == m.client = c /\ m.call = "getRange" /\ m.notifier = n
IsEnd(m, c) == m.client = c /\ m.call = "unregisterNotifiers"
IsEndAnswer(m, c) == m.nr # 0 /\ IsEnd(m, c)
IsNotification(m, c, n) == m.nr = 0 /\ m.client = c /\ m.notifier = n

\* What changes the text c knows of n.
IsNews(m, c, n) == m.client = c /\ m.notifier = n /\ (m.nr = 0 \/ m.call = "getRange")

HasNews(down, c, n) == \E i \in DOMAIN down : IsNews(down[i], c, n)
IsLastNews(down, i, c, n) ==
    IsNews(down[i], c, n) /\ \A j \in DOMAIN down : IsNews(down[j], c, n) => j <= i

\* c wants to follow n and hears of it from the service: nothing is on its way that
\* would end this.  Before it is among the subscribers, on, it knows nothing, and its
\* registration is ahead of its reads; afterwards it will know val, or nothing, when
\* all that is on its way, down, has arrived.
Followed(c, n, up, down, on, val, h) ==
    /\ \A i \in DOMAIN up : ~ IsEnd(up[i], c)
    /\ \A i \in DOMAIN down : ~ IsEndAnswer(down[i], c)
    /\ c \notin on =>
            /\ h = NoText
            /\ ~ HasNews(down, c, n)
            /\ \E i \in DOMAIN up : /\ IsRegistration(up[i], c, n)
                                    /\ \A j \in DOMAIN up : IsRead(up[j], c, n) => i < j
    /\ c \in on =>
            /\ ~ HasNews(down, c, n) => h \in {NoText, val}
            /\ \A i \in DOMAIN down : IsLastNews(down, i, c, n) => down[i].text \in {NoText, val}

\* c does not want n (any more): whatever there is of a registration has the end of
\* all registrations behind it.
Unfollowed(c, n, up, down, on, h) ==
    /\ h = NoText
    /\ \A i \in DOMAIN down : IsNotification(down[i], c, n) =>
            \/ \E k \in DOMAIN up : IsEnd(up[k], c)
            \/ \E k \in DOMAIN down : k > i /\ IsEndAnswer(down[k], c)
    /\ c \in on => \E k \in DOMAIN up : IsEnd(up[k], c)
    /\ \A i \in DOMAIN up : IsRegistration(up[i], c, n) =>
            \E k \in DOMAIN up : k > i /\ IsEnd(up[k], c)

Follows(c, n, up, down, on, val, w, h) ==
    IF n \in w THEN Followed(c, n, up, down, on, val, h) ELSE Unfollowed(c, n, up, down, on, h)

\* Messages have been appended to a list; its first one has been taken.
Extends(new, old) ==
    \E k, l \in Nat : /\ k <= l /\ DOMAIN old = 1 .. k /\ DOMAIN new = 1 .. l
                      /\ \A i \in 1 .. k : new[i] = old[i]
Added(new, old) == {new[i] : i \in DOMAIN new \ DOMAIN old}
Advances(new, old) ==
    \E k \in Nat : /\ DOMAIN old = 1 .. k + 1 /\ DOMAIN new = 1 .. k
                   /\ \A i \in 1 .. k : new[i] = old[i + 1]

LEMMA NothingAdded ==
    ASSUME NEW T, NEW old \in Seq(T)
    PROVE  Extends(old, old) /\ Added(old, old) = {}
<1>1. PICK k \in Nat : DOMAIN old = 1 .. k
    OBVIOUS
<1>2. k <= k /\ \A i \in 1 .. k : old[i] = old[i]
    OBVIOUS
<1>3. Extends(old, old)
    BY <1>1, <1>2 DEF Extends
<1> QED
    BY <1>3 DEF Added

LEMMA ListAdded ==
    ASSUME NEW T, NEW old \in Seq(T), NEW more \in Seq(T), NEW new, new = old \o more
    PROVE  /\ new \in Seq(T) /\ Extends(new, old)
           /\ Added(new, old) = {more[i] : i \in DOMAIN more}
<1>1. /\ Len(old) \in Nat /\ DOMAIN old = 1 .. Len(old)
      /\ Len(more) \in Nat /\ DOMAIN more = 1 .. Len(more)
      /\ new \in Seq(T) /\ Len(new) = Len(old) + Len(more) /\ DOMAIN new = 1 .. Len(new)
      /\ \A i \in 1 .. Len(old) : new[i] = old[i]
      /\ \A i \in 1 .. Len(more) : new[Len(old) + i] = more[i]
    OBVIOUS
<1>2. PICK k \in Nat, l \in Nat : k = Len(old) /\ l = Len(more)
    BY <1>1
<1>6. /\ k <= k + l /\ k + l \in Nat /\ DOMAIN old = 1 .. k /\ DOMAIN new = 1 .. k + l
      /\ \A i \in 1 .. k : new[i] = old[i]
      /\ \A i \in 1 .. l : new[k + i] = more[i]
    BY <1>1, <1>2
<1>3. Extends(new, old)
    BY <1>6 DEF Extends
<1>4. ASSUME NEW m, m \in Added(new, old)
      PROVE  m \in {more[i] : i \in DOMAIN more}
    <2>1. PICK i \in 1 .. k + l : i \notin 1 .. k /\ m = new[i]
        BY <1>1, <1>2, <1>4 DEF Added
    <2>2. i - k \in 1 .. l /\ new[k + (i - k)] = more[i - k]
        BY <1>1, <1>2, <2>1
    <2> QED
        BY <1>1, <1>2, <2>1, <2>2
<1>5. ASSUME NEW i \in 1 .. l
      PROVE  more[i] \in Added(new, old)
    <2>1. k + i \in (1 .. k + l) \ (1 .. k) /\ new[k + i] = more[i]
        BY <1>6
    <2> QED
        BY <1>6, <2>1 DEF Added
<1> QED
    BY <1>1, <1>2, <1>3, <1>4, <1>5

LEMMA FirstGone ==
    ASSUME NEW T, NEW old \in Seq(T), old # <<>>, NEW new, new = Tail(old)
    PROVE  /\ new \in Seq(T) /\ Advances(new, old)
           /\ old[1] = Head(old) /\ Head(old) \in T
<1>4. Tail(old) \in Seq(T) /\ Head(old) \in T /\ old[1] = Head(old)
    OBVIOUS
<1>5. Len(old) \in Nat /\ Len(old) >= 1 /\ DOMAIN old = 1 .. Len(old)
    OBVIOUS
<1>6. /\ DOMAIN Tail(old) = 1 .. Len(old) - 1
      /\ \A i \in 1 .. Len(old) - 1 : Tail(old)[i] = old[i + 1]
    OBVIOUS
<1>1. /\ Len(old) \in Nat /\ Len(old) >= 1 /\ DOMAIN old = 1 .. Len(old)
      /\ new \in Seq(T) /\ DOMAIN new = 1 .. Len(old) - 1
      /\ \A i \in 1 .. Len(old) - 1 : new[i] = old[i + 1]
      /\ old[1] = Head(old) /\ Head(old) \in T
    BY <1>4, <1>5, <1>6
<1>7. Len(old) - 1 \in Nat /\ Len(old) = (Len(old) - 1) + 1
    BY <1>5
<1>2. PICK k \in Nat : k = Len(old) - 1 /\ Len(old) = k + 1
    BY <1>7
<1>3. /\ DOMAIN old = 1 .. k + 1 /\ DOMAIN new = 1 .. k
      /\ \A i \in 1 .. k : new[i] = old[i + 1]
    BY <1>1, <1>2
<1> QED
    BY <1>1, <1>3 DEF Advances

-----------------------------------------------------------------------------
\* Messages for the client: news only for a subscriber, with the text there is.
LEMMA Followed_Told ==
    ASSUME NEW c, NEW n, NEW up, NEW down, NEW on, NEW val, NEW h,
           Followed(c, n, up, down, on, val, h),
           NEW new, Extends(new, down), NEW text,
           \A m \in Added(new, down) :
                /\ ~ IsEndAnswer(m, c)
                /\ IsNews(m, c, n) => c \in on /\ m.text \in {NoText, text},
           \/ text = val
           \/ c \in on => \E m \in Added(new, down) : IsNews(m, c, n)
    PROVE  Followed(c, n, up, new, on, text, h)
<1>1. PICK k \in Nat, l \in Nat : /\ k <= l /\ DOMAIN down = 1 .. k /\ DOMAIN new = 1 .. l
                                  /\ \A i \in 1 .. k : new[i] = down[i]
    BY DEF Extends
<1>2. \A i \in 1 .. l : i \in 1 .. k \/ new[i] \in Added(new, down)
    BY <1>1 DEF Added
<1>3. \A i \in DOMAIN new : ~ IsEndAnswer(new[i], c)
    BY <1>1, <1>2 DEF Followed
<1>4. c \notin on => ~ HasNews(new, c, n)
    BY <1>1, <1>2 DEF Followed, HasNews
<1>5. ASSUME c \in on, ~ HasNews(new, c, n)
      PROVE  h \in {NoText, text}
    <2>1. ~ HasNews(down, c, n)
        BY <1>1, <1>5 DEF HasNews
    <2>2. text = val
        BY <1>5 DEF Added, HasNews
    <2> QED
        BY <1>5, <2>1, <2>2 DEF Followed
<1>6. ASSUME c \in on, NEW i \in DOMAIN new, IsLastNews(new, i, c, n)
      PROVE  new[i].text \in {NoText, text}
    <2>1. CASE new[i] \in Added(new, down)
        BY <1>6, <2>1 DEF IsLastNews
    <2>2. CASE new[i] \notin Added(new, down)
        <3>1. i \in 1 .. k
            BY <1>1, <1>2, <2>2
        <3>2. IsLastNews(down, i, c, n)
            BY <1>1, <1>6, <3>1 DEF IsLastNews
        <3>3. text = val
            <4> SUFFICES ASSUME NEW m \in Added(new, down), IsNews(m, c, n) PROVE FALSE
                BY <1>6
            <4>1. PICK j \in DOMAIN new \ DOMAIN down : m = new[j]
                BY DEF Added
            <4>2. j <= i
                BY <1>6, <4>1 DEF IsLastNews
            <4> QED
                BY <1>1, <3>1, <4>1, <4>2
        <3> QED
            BY <1>1, <1>6, <3>1, <3>2, <3>3 DEF Followed
    <2> QED
        BY <2>1, <2>2
<1> QED
    BY <1>3, <1>4, <1>5, <1>6 DEF Followed

LEMMA Unfollowed_Told ==
    ASSUME NEW c, NEW n, NEW up, NEW down, NEW on, NEW h,
           Unfollowed(c, n, up, down, on, h),
           NEW new, Extends(new, down),
           \A m \in Added(new, down) : IsNotification(m, c, n) => c \in on
    PROVE  Unfollowed(c, n, up, new, on, h)
<1>1. PICK k \in Nat, l \in Nat : /\ k <= l /\ DOMAIN down = 1 .. k /\ DOMAIN new = 1 .. l
                                  /\ \A i \in 1 .. k : new[i] = down[i]
    BY DEF Extends
<1>2. \A i \in 1 .. l : i \in 1 .. k \/ new[i] \in Added(new, down)
    BY <1>1 DEF Added
<1>3. ASSUME NEW i \in DOMAIN new, IsNotification(new[i], c, n)
      PROVE  \/ \E j \in DOMAIN up : IsEnd(up[j], c)
             \/ \E j \in DOMAIN new : j > i /\ IsEndAnswer(new[j], c)
    <2>1. CASE i \in 1 .. k
        <3>1. \/ \E j \in DOMAIN up : IsEnd(up[j], c)
              \/ \E j \in 1 .. k : j > i /\ IsEndAnswer(down[j], c)
            BY <1>1, <1>3, <2>1 DEF Unfollowed
        <3> QED
            BY <1>1, <3>1
    <2>2. CASE i \notin 1 .. k
        BY <1>1, <1>2, <1>3, <2>2 DEF Unfollowed
    <2> QED
        BY <2>1, <2>2
<1> QED
    BY <1>3 DEF Unfollowed

\* Messages for the service, none of which ends or starts a registration for n.
LEMMA Followed_Asks ==
    ASSUME NEW c, NEW n, NEW up, NEW down, NEW on, NEW val, NEW h,
           Followed(c, n, up, down, on, val, h),
           NEW new, Extends(new, up), \A m \in Added(new, up) : ~ IsEnd(m, c)
    PROVE  Followed(c, n, new, down, on, val, h)
<1>1. PICK k \in Nat, l \in Nat : /\ k <= l /\ DOMAIN up = 1 .. k /\ DOMAIN new = 1 .. l
                                  /\ \A i \in 1 .. k : new[i] = up[i]
    BY DEF Extends
<1>2. \A i \in 1 .. l : i \in 1 .. k \/ (i > k /\ new[i] \in Added(new, up))
    BY <1>1 DEF Added
<1>3. \A i \in DOMAIN new : ~ IsEnd(new[i], c)
    BY <1>1, <1>2 DEF Followed
<1>4. ASSUME c \notin on
      PROVE  \E i \in DOMAIN new : /\ IsRegistration(new[i], c, n)
                                   /\ \A j \in DOMAIN new : IsRead(new[j], c, n) => i < j
    <2>1. PICK i \in 1 .. k : /\ IsRegistration(up[i], c, n)
                              /\ \A j \in 1 .. k : IsRead(up[j], c, n) => i < j
        BY <1>1, <1>4 DEF Followed
    <2>2. i \in 1 .. l /\ IsRegistration(new[i], c, n)
        BY <1>1, <2>1
    <2>3. \A j \in 1 .. l : IsRead(new[j], c, n) => i < j
        BY <1>1, <1>2, <2>1
    <2> QED
        BY <1>1, <2>2, <2>3
<1> QED
    BY <1>3, <1>4 DEF Followed

LEMMA Unfollowed_Asks ==
    ASSUME NEW c, NEW n, NEW up, NEW down, NEW on, NEW h,
           Unfollowed(c, n, up, down, on, h),
           NEW new, Extends(new, up), \A m \in Added(new, up) : ~ IsRegistration(m, c, n)
    PROVE  Unfollowed(c, n, new, down, on, h)
<1>1. PICK k \in Nat, l \in Nat : /\ k <= l /\ DOMAIN up = 1 .. k /\ DOMAIN new = 1 .. l
                                  /\ \A i \in 1 .. k : new[i] = up[i]
    BY DEF Extends
<1>2. \A i \in 1 .. l : i \in 1 .. k \/ new[i] \in Added(new, up)
    BY <1>1 DEF Added
<1>3. (\E j \in DOMAIN up : IsEnd(up[j], c)) => \E j \in DOMAIN new : IsEnd(new[j], c)
    BY <1>1
<1>4. ASSUME NEW i \in DOMAIN new, IsRegistration(new[i], c, n)
      PROVE  \E j \in DOMAIN new : j > i /\ IsEnd(new[j], c)
    <2>1. i \in 1 .. k
        BY <1>1, <1>2, <1>4
    <2>2. PICK j \in 1 .. k : j > i /\ IsEnd(up[j], c)
        BY <1>1, <1>4, <2>1 DEF Unfollowed
    <2> QED
        BY <1>1, <2>2
<1> QED
    BY <1>3, <1>4 DEF Unfollowed

\* The service takes the first message; a registration makes c a subscriber.
LEMMA Followed_Served ==
    ASSUME NEW c, NEW n, NEW up, NEW down, NEW on, NEW val, NEW h,
           Followed(c, n, up, down, on, val, h),
           NEW new, Advances(new, up), NEW on2,
           c \in on2 <=> c \in on \/ IsRegistration(up[1], c, n)
    PROVE  /\ Followed(c, n, new, down, on2, val, h)
           /\ ~ IsEnd(up[1], c)
           /\ IsRead(up[1], c, n) => c \in on
<1>1. PICK k \in Nat : /\ DOMAIN up = 1 .. k + 1 /\ DOMAIN new = 1 .. k
                       /\ \A i \in 1 .. k : new[i] = up[i + 1]
    BY DEF Advances
<1>2. 1 \in DOMAIN up /\ \A i \in 1 .. k : i + 1 \in DOMAIN up
    BY <1>1
<1>3. \A i \in DOMAIN new : ~ IsEnd(new[i], c)
    BY <1>1, <1>2 DEF Followed
<1>4. ASSUME c \notin on2
      PROVE  \E i \in DOMAIN new : /\ IsRegistration(new[i], c, n)
                                   /\ \A j \in DOMAIN new : IsRead(new[j], c, n) => i < j
    <2>1. PICK i \in 1 .. k + 1 : /\ IsRegistration(up[i], c, n)
                                  /\ \A j \in 1 .. k + 1 : IsRead(up[j], c, n) => i < j
        BY <1>1, <1>4 DEF Followed
    <2>2. i # 1
        BY <1>4, <2>1
    <2>3. i - 1 \in 1 .. k /\ new[i - 1] = up[i]
        BY <1>1, <2>2
    <2>4. ASSUME NEW j \in 1 .. k, IsRead(new[j], c, n) PROVE i - 1 < j
        BY <1>1, <1>2, <2>1, <2>4
    <2> QED
        BY <1>1, <2>1, <2>3, <2>4
<1>5. ASSUME c \notin on
      PROVE  h = NoText /\ ~ HasNews(down, c, n)
    BY <1>5 DEF Followed
<1>6. c \notin on => \A i \in DOMAIN down : ~ IsLastNews(down, i, c, n)
    BY <1>5 DEF HasNews, IsLastNews
<1>7. Followed(c, n, new, down, on2, val, h)
    BY <1>3, <1>4, <1>5, <1>6 DEF Followed
<1>8. ASSUME IsRead(up[1], c, n), c \notin on PROVE FALSE
    <2>1. PICK i \in 1 .. k + 1 : \A j \in 1 .. k + 1 : IsRead(up[j], c, n) => i < j
        BY <1>1, <1>8 DEF Followed
    <2>2. i < 1
        BY <1>1, <1>2, <1>8, <2>1
    <2> QED
        BY <2>1, <2>2
<1> QED
    BY <1>2, <1>7, <1>8 DEF Followed

LEMMA Unfollowed_Served ==
    ASSUME NEW c, NEW n, NEW up, NEW down, NEW on, NEW h,
           Unfollowed(c, n, up, down, on, h),
           NEW new, Advances(new, up), NEW on2, ~ IsEnd(up[1], c),
           c \in on2 <=> c \in on \/ IsRegistration(up[1], c, n)
    PROVE  Unfollowed(c, n, new, down, on2, h)
<1>1. PICK k \in Nat : /\ DOMAIN up = 1 .. k + 1 /\ DOMAIN new = 1 .. k
                       /\ \A i \in 1 .. k : new[i] = up[i + 1]
    BY DEF Advances
<1>2. 1 \in DOMAIN up /\ \A i \in 1 .. k : i + 1 \in DOMAIN up
    BY <1>1
<1>3. ASSUME NEW j \in 1 .. k + 1, IsEnd(up[j], c)
      PROVE  j - 1 \in DOMAIN new /\ IsEnd(new[j - 1], c)
    <2>1. j # 1
        BY <1>3
    <2>2. j - 1 \in 1 .. k /\ new[j - 1] = up[j]
        BY <1>1, <2>1
    <2> QED
        BY <1>1, <1>3, <2>2
<1>4. (\E j \in DOMAIN up : IsEnd(up[j], c)) => \E j \in DOMAIN new : IsEnd(new[j], c)
    BY <1>1, <1>3
<1>5. c \in on2 => \E j \in DOMAIN up : IsEnd(up[j], c)
    BY <1>2 DEF Unfollowed
<1>6. ASSUME NEW i \in 1 .. k, IsRegistration(new[i], c, n)
      PROVE  \E j \in DOMAIN new : j > i /\ IsEnd(new[j], c)
    <2>1. PICK j \in 1 .. k + 1 : j > i + 1 /\ IsEnd(up[j], c)
        BY <1>1, <1>2, <1>6 DEF Unfollowed
    <2>2. j - 1 \in DOMAIN new /\ IsEnd(new[j - 1], c) /\ j - 1 > i
        BY <1>3, <2>1
    <2> QED
        BY <2>2
<1> QED
    BY <1>1, <1>4, <1>5, <1>6 DEF Unfollowed

\* The service ends c's registrations, and answers.
LEMMA Unfollowed_Ended ==
    ASSUME NEW c, NEW n, NEW up, NEW down, NEW on, NEW h,
           Unfollowed(c, n, up, down, on, h),
           NEW up2, Advances(up2, up), NEW on2, c \notin on2,
           NEW down2, NEW m, IsEndAnswer(m, c), Extends(down2, down),
           Added(down2, down) = {m}
    PROVE  Unfollowed(c, n, up2, down2, on2, h)
<1>1. PICK k \in Nat : /\ DOMAIN up = 1 .. k + 1 /\ DOMAIN up2 = 1 .. k
                       /\ \A i \in 1 .. k : up2[i] = up[i + 1]
    BY DEF Advances
<1>2. PICK d \in Nat, l \in Nat : /\ d <= l /\ DOMAIN down = 1 .. d /\ DOMAIN down2 = 1 .. l
                                  /\ \A i \in 1 .. d : down2[i] = down[i]
    BY DEF Extends
<1>3. \A i \in 1 .. l : i \in 1 .. d \/ down2[i] = m
    BY <1>2 DEF Added
<1>4. PICK last \in 1 .. l : last > d /\ down2[last] = m
    <2>1. m \in Added(down2, down)
        OBVIOUS
    <2> QED
        BY <1>2, <2>1 DEF Added
<1>5. ASSUME NEW i \in 1 .. l, IsNotification(down2[i], c, n)
      PROVE  \E j \in 1 .. l : j > i /\ IsEndAnswer(down2[j], c)
    <2>1. i \in 1 .. d
        BY <1>3, <1>5 DEF IsNotification, IsEndAnswer
    <2> QED
        BY <1>4, <2>1
<1>6. ASSUME NEW i \in 1 .. k, IsRegistration(up2[i], c, n)
      PROVE  \E j \in 1 .. k : j > i /\ IsEnd(up2[j], c)
    <2>1. i + 1 \in 1 .. k + 1 /\ IsRegistration(up[i + 1], c, n)
        BY <1>1, <1>6
    <2>2. PICK j \in 1 .. k + 1 : j > i + 1 /\ IsEnd(up[j], c)
        BY <1>1, <2>1 DEF Unfollowed
    <2>3. j - 1 \in 1 .. k /\ j - 1 > i /\ up2[j - 1] = up[j]
        BY <1>1, <2>2
    <2> QED
        BY <2>2, <2>3
<1> QED
    BY <1>1, <1>2, <1>5, <1>6 DEF Unfollowed

\* The client takes the first message: news set what it knows, if it can read them.
LEMMA Followed_Received ==
    ASSUME NEW c, NEW n, NEW up, NEW down, NEW on, NEW val, NEW h,
           Followed(c, n, up, down, on, val, h),
           NEW new, Advances(new, down), NEW h2,
           IF IsNews(down[1], c, n) THEN h2 \in {down[1].text, NoText} ELSE h2 = h
    PROVE  Followed(c, n, up, new, on, val, h2)
<1>1. PICK k \in Nat : /\ DOMAIN down = 1 .. k + 1 /\ DOMAIN new = 1 .. k
                       /\ \A i \in 1 .. k : new[i] = down[i + 1]
    BY DEF Advances
<1>2. 1 \in DOMAIN down /\ \A i \in 1 .. k : i + 1 \in DOMAIN down
    BY <1>1
<1>3. \A i \in 1 .. k : ~ IsEndAnswer(new[i], c)
    BY <1>1, <1>2 DEF Followed
<1>4. c \notin on => h2 = NoText /\ ~ HasNews(new, c, n)
    BY <1>1, <1>2 DEF Followed, HasNews
<1>5. \A i \in 1 .. k + 1 : i = 1 \/ (i - 1 \in 1 .. k /\ new[i - 1] = down[i])
    BY <1>1
<1>6. ASSUME c \in on, ~ HasNews(new, c, n)
      PROVE  h2 \in {NoText, val}
    <2>1. \A i \in 1 .. k + 1 : IsNews(down[i], c, n) => i = 1
        BY <1>1, <1>5, <1>6 DEF HasNews
    <2>2. CASE IsNews(down[1], c, n)
        <3>1. IsLastNews(down, 1, c, n)
            BY <1>1, <2>1, <2>2 DEF IsLastNews
        <3> QED
            BY <1>2, <1>6, <2>2, <3>1 DEF Followed
    <2>3. CASE ~ IsNews(down[1], c, n)
        <3>1. ~ HasNews(down, c, n)
            BY <1>1, <2>1, <2>3 DEF HasNews
        <3> QED
            BY <1>6, <2>3, <3>1 DEF Followed
    <2> QED
        BY <2>2, <2>3
<1>7. ASSUME c \in on, NEW i \in 1 .. k, IsLastNews(new, i, c, n)
      PROVE  new[i].text \in {NoText, val}
    <2>1. IsNews(down[i + 1], c, n)
        BY <1>1, <1>7 DEF IsLastNews
    <2>2. ASSUME NEW j \in 1 .. k + 1, IsNews(down[j], c, n) PROVE j <= i + 1
        <3>1. CASE j = 1
            BY <3>1
        <3>2. CASE j # 1
            <4>1. j - 1 \in 1 .. k /\ IsNews(new[j - 1], c, n)
                BY <1>5, <2>2, <3>2
            <4>2. j - 1 <= i
                BY <1>1, <1>7, <4>1 DEF IsLastNews
            <4> QED
                BY <4>2
        <3> QED
            BY <3>1, <3>2
    <2>3. IsLastNews(down, i + 1, c, n)
        BY <1>1, <2>1, <2>2 DEF IsLastNews
    <2> QED
        BY <1>1, <1>2, <1>7, <2>3 DEF Followed
<1> QED
    BY <1>1, <1>3, <1>4, <1>6, <1>7 DEF Followed

LEMMA Unfollowed_Received ==
    ASSUME NEW c, NEW n, NEW up, NEW down, NEW on, NEW h,
           Unfollowed(c, n, up, down, on, h), NEW new, Advances(new, down)
    PROVE  Unfollowed(c, n, up, new, on, h)
<1>1. PICK k \in Nat : /\ DOMAIN down = 1 .. k + 1 /\ DOMAIN new = 1 .. k
                       /\ \A i \in 1 .. k : new[i] = down[i + 1]
    BY DEF Advances
<1>2. ASSUME NEW i \in 1 .. k, IsNotification(new[i], c, n)
      PROVE  \/ \E j \in DOMAIN up : IsEnd(up[j], c)
             \/ \E j \in 1 .. k : j > i /\ IsEndAnswer(new[j], c)
    <2>1. i + 1 \in 1 .. k + 1 /\ IsNotification(down[i + 1], c, n)
        BY <1>1, <1>2
    <2>2. \/ \E j \in DOMAIN up : IsEnd(up[j], c)
          \/ \E j \in 1 .. k + 1 : j > i + 1 /\ IsEndAnswer(down[j], c)
        BY <1>1, <2>1 DEF Unfollowed
    <2>3. ASSUME NEW j \in 1 .. k + 1, j > i + 1, IsEndAnswer(down[j], c)
          PROVE  \E e \in 1 .. k : e > i /\ IsEndAnswer(new[e], c)
        <3>1. j - 1 \in 1 .. k /\ j - 1 > i /\ new[j - 1] = down[j]
            BY <1>1, <2>3
        <3> QED
            BY <2>3, <3>1
    <2> QED
        BY <2>2, <2>3
<1> QED
    BY <1>1, <1>2 DEF Unfollowed

\* c registers for n, when it waits for nothing that is about n.
LEMMA Unfollowed_Registers ==
    ASSUME NEW c, NEW n, NEW up, NEW down, NEW on, NEW val, NEW h,
           Unfollowed(c, n, up, down, on, h),
           \A i \in DOMAIN up : ~ IsEnd(up[i], c) /\ ~ IsRead(up[i], c, n),
           \A i \in DOMAIN down : /\ ~ IsEndAnswer(down[i], c)
                                  /\ IsNews(down[i], c, n) => IsNotification(down[i], c, n),
           NEW new, NEW m, IsRegistration(m, c, n), Extends(new, up), Added(new, up) = {m}
    PROVE  Followed(c, n, new, down, on, val, h)
<1>1. PICK k \in Nat, l \in Nat : /\ k <= l /\ DOMAIN up = 1 .. k /\ DOMAIN new = 1 .. l
                                  /\ \A i \in 1 .. k : new[i] = up[i]
    BY DEF Extends
<1>2. \A i \in 1 .. l : i \in 1 .. k \/ new[i] = m
    BY <1>1 DEF Added
<1>3. ~ IsEnd(m, c) /\ ~ IsRead(m, c, n)
    BY DEF IsEnd, IsRead, IsRegistration
<1>4. \A i \in 1 .. l : ~ IsEnd(new[i], c) /\ ~ IsRead(new[i], c, n)
    BY <1>1, <1>2, <1>3
<1>5. h = NoText /\ c \notin on /\ ~ HasNews(down, c, n)
    BY DEF Unfollowed, HasNews
<1>6. \E i \in 1 .. l : IsRegistration(new[i], c, n)
    <2>1. m \in Added(new, up)
        OBVIOUS
    <2> QED
        BY <1>1, <2>1 DEF Added
<1> QED
    BY <1>1, <1>4, <1>5, <1>6 DEF Followed

\* c ends its registrations.
LEMMA Unregistered ==
    ASSUME NEW c, NEW n, NEW up, NEW down, NEW on, NEW h, h = NoText,
           NEW new, NEW m, IsEnd(m, c), Extends(new, up), Added(new, up) = {m}
    PROVE  Unfollowed(c, n, new, down, on, h)
<1>1. PICK k \in Nat, l \in Nat : /\ k <= l /\ DOMAIN up = 1 .. k /\ DOMAIN new = 1 .. l
                                  /\ \A i \in 1 .. k : new[i] = up[i]
    BY DEF Extends
<1>2. \A i \in 1 .. l : i \in 1 .. k \/ new[i] = m
    BY <1>1 DEF Added
<1>3. PICK e \in 1 .. l : e > k /\ new[e] = m
    <2>1. m \in Added(new, up)
        OBVIOUS
    <2> QED
        BY <1>1, <2>1 DEF Added
<1>4. ASSUME NEW i \in 1 .. l, IsRegistration(new[i], c, n)
      PROVE  \E j \in 1 .. l : j > i /\ IsEnd(new[j], c)
    <2>1. i \in 1 .. k
        BY <1>2, <1>4 DEF IsRegistration, IsEnd
    <2> QED
        BY <1>3, <2>1
<1> QED
    BY <1>1, <1>3, <1>4 DEF Unfollowed

-----------------------------------------------------------------------------
(* Who is subscribed, and what subscribers are told.                        *)

SubscribersAt(n, p) ==
    {m_subscriberVector[n][i].client :
        i \in {j \in DOMAIN m_subscriberVector[n] : m_subscriberVector[n][j].netPeer = p}}

LEMMA KeptAll ==
    ASSUME NEW T, NEW seq \in Seq(T), NEW S \in SUBSET DOMAIN seq, NEW list \in Kept(seq, S)
    PROVE  /\ \A i \in DOMAIN list : \E j \in S : list[i] = seq[j]
           /\ \A j \in S : \E i \in DOMAIN list : list[i] = seq[j]
<1>1. PICK index :
        /\ list = [j \in DOMAIN index |-> seq[index[j]]]
        /\ \A k \in S : \E j \in DOMAIN index : index[j] = k
    BY DEF Kept
<1> QED
    BY <1>1, KeptOf

LEMMA SubscriberAdded ==
    ASSUME ServiceClientsAssumption, SubscriptionTypeOK, NEW n \in Notifiers,
           NEW p, NEW c, NEW s, s.netPeer = p, s.client = c,
           AddSubscriber(n, s), NEW k \in Notifiers, NEW q
    PROVE  SubscribersAt(k, q)' = IF k = n /\ q = p THEN SubscribersAt(k, q) \cup {c}
                                  ELSE SubscribersAt(k, q)
<1> DEFINE all == m_subscriberVector[n]
<1>1. all \in Seq(ScpiNotificationSubscriber)
    BY DEF SubscriptionTypeOK
<1>2. CASE \E i \in DOMAIN all : SameSubscriber(all[i], s)
    <2>1. UNCHANGED m_subscriberVector
        BY <1>2 DEF AddSubscriber
    <2>2. c \in SubscribersAt(n, p)
        BY <1>2 DEF SubscribersAt, SameSubscriber
    <2> QED
        BY <2>1, <2>2 DEF SubscribersAt
<1>3. CASE ~ \E i \in DOMAIN all : SameSubscriber(all[i], s)
    <2>1. m_subscriberVector' = [m_subscriberVector EXCEPT ![n] = Append(@, s)]
        BY <1>3 DEF AddSubscriber
    <2>2. PICK new : new = Append(all, s)
        OBVIOUS
    <2>3. m_subscriberVector'[n] = new /\ (k # n => m_subscriberVector'[k] = m_subscriberVector[k])
        BY <2>1, <2>2 DEF SubscriptionTypeOK
    <2>4. CASE k # n
        BY <2>3, <2>4 DEF SubscribersAt
    <2>5. CASE k = n
        <3> HIDE DEF all
        <3>1. PICK l \in Nat : DOMAIN all = 1 .. l /\ l = Len(all)
            BY <1>1
        <3>2. /\ DOMAIN new = 1 .. l + 1 /\ new[l + 1] = s
              /\ \A i \in 1 .. l : new[i] = all[i]
            BY <1>1, <2>2, <3>1
        <3>3. \A i \in 1 .. l + 1 : i \in 1 .. l \/ i = l + 1
            BY <3>1
        <3>4. SubscribersAt(k, q)' = {new[i].client : i \in {j \in 1 .. l + 1 : new[j].netPeer = q}}
            BY <2>3, <2>5, <3>2 DEF SubscribersAt
        <3>5. SubscribersAt(k, q) = {all[i].client : i \in {j \in 1 .. l : all[j].netPeer = q}}
            BY <2>5, <3>1 DEF SubscribersAt, all
        <3>6. l + 1 \in 1 .. l + 1 /\ 1 .. l \subseteq 1 .. l + 1
            BY <3>1
        <3> QED
            BY <2>5, <3>2, <3>3, <3>4, <3>5, <3>6
    <2> QED
        BY <2>4, <2>5
<1> QED
    BY <1>2, <1>3

LEMMA SubscribersRemoved ==
    ASSUME SubscriptionTypeOK, NEW p, NEW cs, RemoveAllSubscribers(p, cs),
           NEW n \in Notifiers, NEW q
    PROVE  SubscribersAt(n, q)' = IF q = p THEN SubscribersAt(n, q) \ cs ELSE SubscribersAt(n, q)
<1> DEFINE stay(k) == {i \in DOMAIN m_subscriberVector[k] :
                         \/ m_subscriberVector[k][i].netPeer # p
                         \/ m_subscriberVector[k][i].client \notin cs}
<1>1. m_subscriberVector'[n] \in Kept(m_subscriberVector[n], stay(n))
    BY DEF RemoveAllSubscribers, OneOfEach
<1>2. PICK old, new, S : old = m_subscriberVector[n] /\ new = m_subscriberVector'[n] /\ S = stay(n)
    OBVIOUS
<1>3. old \in Seq(ScpiNotificationSubscriber) /\ S \in SUBSET DOMAIN old
    BY <1>2 DEF SubscriptionTypeOK
<1>4. /\ \A i \in DOMAIN new : \E j \in S : new[i] = old[j]
      /\ \A j \in S : \E i \in DOMAIN new : new[i] = old[j]
    BY <1>1, <1>2, <1>3, KeptAll
<1>5. S = {i \in DOMAIN old : old[i].netPeer # p \/ old[i].client \notin cs}
    BY <1>2
<1>6. /\ SubscribersAt(n, q) = {old[i].client : i \in {j \in DOMAIN old : old[j].netPeer = q}}
      /\ SubscribersAt(n, q)' = {new[i].client : i \in {j \in DOMAIN new : new[j].netPeer = q}}
    BY <1>2 DEF SubscribersAt
<1>7. ASSUME NEW c, c \in SubscribersAt(n, q)'
      PROVE  c \in SubscribersAt(n, q) /\ (q = p => c \notin cs)
    <2>1. PICK i \in DOMAIN new : new[i].netPeer = q /\ c = new[i].client
        BY <1>6, <1>7
    <2>2. PICK j \in S : new[i] = old[j]
        BY <1>4
    <2> QED
        BY <1>5, <1>6, <2>1, <2>2
<1>8. ASSUME NEW c, c \in SubscribersAt(n, q), q = p => c \notin cs
      PROVE  c \in SubscribersAt(n, q)'
    <2>1. PICK j \in DOMAIN old : old[j].netPeer = q /\ c = old[j].client
        BY <1>6, <1>8
    <2>2. j \in S
        BY <1>5, <1>8, <2>1
    <2>3. PICK i \in DOMAIN new : new[i] = old[j]
        BY <1>4, <2>2
    <2> QED
        BY <1>6, <2>1, <2>3
<1> QED
    BY <1>7, <1>8

\* Each subscriber behind p is notified of n, and nobody else.
Notifies(block, n, text, on) ==
    /\ \A i \in DOMAIN block : \E c \in on : /\ IsNotification(block[i], c, n)
                                             /\ block[i].text \in {NoText, text}
    /\ \A c \in on : \E i \in DOMAIN block : IsNotification(block[i], c, n)

LEMMA SubscribersNotified ==
    ASSUME SubscriptionTypeOK, NEW n \in Notifiers, NEW text, NEW p,
           NEW block \in NotifiedOf(n, text, p)
    PROVE  Notifies(block, n, text, SubscribersAt(n, p))
<1> DEFINE S == {i \in DOMAIN m_subscriberVector[n] : m_subscriberVector[n][i].netPeer = p}
<1>1. PICK behind \in Behind(n, p) :
            block = [i \in DOMAIN behind |-> Notification(n, behind[i], text)]
    BY DEF NotifiedOf
<1>2. PICK all : all = m_subscriberVector[n]
    OBVIOUS
<1>3. all \in Seq(ScpiNotificationSubscriber) /\ S \in SUBSET DOMAIN all
    BY <1>2 DEF SubscriptionTypeOK
<1>4. behind \in Kept(all, S)
    BY <1>1, <1>2 DEF Behind
<1>5. SubscribersAt(n, p) = {all[i].client : i \in S}
    BY <1>2 DEF SubscribersAt
<1> HIDE DEF S
<1>6. /\ \A i \in DOMAIN behind : \E j \in S : behind[i] = all[j]
      /\ \A j \in S : \E i \in DOMAIN behind : behind[i] = all[j]
    BY <1>3, <1>4, KeptAll
<1>7. ASSUME NEW i \in DOMAIN block
      PROVE  /\ IsNotification(block[i], behind[i].client, n)
             /\ block[i].text \in {NoText, text}
             /\ i \in DOMAIN behind
    BY <1>1 DEF IsNotification, Notification
<1>8. DOMAIN block = DOMAIN behind
    BY <1>1
<1> QED
    BY <1>5, <1>6, <1>7, <1>8 DEF Notifies

-----------------------------------------------------------------------------
(* Messages and their clients.                                              *)

\* c has been created, and p is its peer as long as it is there.
Belongs(c, p) == c \in uuids /\ (c \in Living => m_ConnectionHash[c] = p)

\* m is about a call that its client, at p, can make.
IsOwn(m, p) == Belongs(m.client, p) /\ (m.nr # 0 => m.call \in Uses[m.client])

MessagesBelong ==
    /\ \A p \in NetPeers : /\ \A m \in ToSet(toServer[p]) : IsOwn(m, p)
                           /\ \A m \in ToSet(toClient[p]) : IsOwn(m, p)
    /\ \A m \in ToSet(delayed) : IsOwn(m, m.peer)

SubscribersBelong ==
    \A n \in Notifiers, p \in NetPeers : \A c \in SubscribersAt(n, p) : Belongs(c, p)

\* A command has a number; RELEASE has none, and whoever sent it is gone.  Only
\* setRange has to wait for the controller.
IsNumbered(m) == IF m.call = "RELEASE" THEN m.client \notin Living ELSE m.nr # 0

CommandsNumbered ==
    /\ \A p \in NetPeers : \A m \in ToSet(toServer[p]) : IsNumbered(m)
    /\ \A m \in ToSet(delayed) : m.nr # 0 /\ m.call = "setRange"

\* A module wants and knows nothing before it is connected, and nothing is left of
\* it when it goes; only cPCBInterface hands texts on.
IsBlank(c) == \A n \in Notifiers : heard[c][n] = NoText

IsUnconnected(c) ==
    c \notin Living \/ m_peerState[m_ConnectionHash[c]] \in {"unused", "idle", "connecting"}

BlankUntilConnected ==
    \A c \in ProxyClients : /\ IsUnconnected(c) => wants[c] = {} /\ IsBlank(c)
                            /\ KindOf[c] # "pcb" => IsBlank(c)

\* The process has received nothing from a peer that is not connected.
NothingUnread == \A p \in NetPeers : m_peerState[p] # "open" => toClient[p] = <<>>

TidyInv == MessagesBelong /\ SubscribersBelong /\ CommandsNumbered
             /\ BlankUntilConnected /\ NothingUnread

TableOK(table, kind) ==
    \A call \in DOMAIN table :
        /\ table[call] = "getrange" <=> call = "getRange"
        /\ table[call] \notin {"pcbinterrupt", NoCommand}
        /\ call = "unregisterNotifiers" => table[call] = "unregnotifier"
        /\ call = "getRange" => kind = "pcb"

LEMMA NotifierCommands ==
    ASSUME NEW kind \in InterfaceKinds
    PROVE  TableOK(Calls[kind], kind)
<1>1. TableOK(PcbSense, "pcb") /\ TableOK(PcbAdjust, "pcb") /\ TableOK(PcbSystem, "pcb")
    BY DEF TableOK, NoCommand, PcbSense, PcbAdjust, PcbSystem
<1>2. CASE kind = "pcb"
    <2>1. Calls[kind] = Joined(PcbSense, Joined(PcbAdjust, PcbSystem))
        BY <1>2 DEF Calls
    <2>2. ASSUME NEW t, NEW u, TableOK(t, kind), TableOK(u, kind)
          PROVE  TableOK(Joined(t, u), kind)
        BY <2>2 DEF TableOK, Joined
    <2>3. TableOK(Joined(PcbAdjust, PcbSystem), kind)
        BY <1>1, <1>2, <2>2
    <2>4. TableOK(Joined(PcbSense, Joined(PcbAdjust, PcbSystem)), kind)
        BY <1>1, <1>2, <2>2, <2>3
    <2> QED
        BY <2>1, <2>4
<1>3. CASE kind = "sec"
    <2>1. Calls[kind] = Sec
        BY <1>3 DEF Calls
    <2> QED
        BY <2>1 DEF Sec, TableOK, NoCommand
<1>4. CASE kind = "dsp"
    <2>1. Calls[kind] = Dsp
        BY <1>4 DEF Calls
    <2> QED
        BY <2>1 DEF Dsp, TableOK, NoCommand
<1>5. CASE kind = "rm"
    <2>1. Calls[kind] = Rm
        BY <1>5 DEF Calls
    <2> QED
        BY <2>1 DEF Rm, TableOK, NoCommand
<1> QED
    BY <1>2, <1>3, <1>4, <1>5 DEF InterfaceKinds, Calls

LEMMA AddedSet ==
    ASSUME NEW new, NEW old, Extends(new, old)
    PROVE  /\ \A m \in ToSet(new) : m \in ToSet(old) \/ m \in Added(new, old)
           /\ Added(new, old) \subseteq ToSet(new) /\ ToSet(old) \subseteq ToSet(new)
BY DEF Extends, Added, ToSet

LEMMA AdvancedSet ==
    ASSUME NEW new, NEW old, Advances(new, old)
    PROVE  \A m \in ToSet(new) : m \in ToSet(old)
<1>1. PICK k \in Nat : /\ DOMAIN old = 1 .. k + 1 /\ DOMAIN new = 1 .. k
                       /\ \A i \in 1 .. k : new[i] = old[i + 1]
    BY DEF Advances
<1>2. \A i \in 1 .. k : i + 1 \in DOMAIN old
    BY <1>1
<1> QED
    BY <1>1, <1>2 DEF ToSet

LEMMA FirstOfAdvanced ==
    ASSUME NEW new, NEW old, Advances(new, old)
    PROVE  old[1] \in ToSet(old)
<1>1. PICK k \in Nat : DOMAIN old = 1 .. k + 1
    BY DEF Advances
<1>2. 1 \in DOMAIN old
    BY <1>1
<1> QED
    BY <1>2 DEF ToSet

-----------------------------------------------------------------------------
\* A client keeps its peer.
LEMMA BelongsStays ==
    ASSUME ProxyInv, [ProxyNext]_proxyVars, NEW c, NEW p, Belongs(c, p)
    PROVE  Belongs(c, p)' /\ (c \in Living' => c \in Living)
<1>1. c \in uuids /\ (c \in Living => m_ConnectionHash[c] = p)
    BY DEF Belongs
<1>2. uuids \subseteq uuids' /\ (c \in Living' => c \in Living)
    BY <1>1, NewLiving
<1>3. c \in Living' => m_ConnectionHash'[c] = m_ConnectionHash[c]
    <2>1. CASE \E d \in ProxyClients : GetConnectionSmart(d)
        <3>1. PICK d \in ProxyClients : /\ d \notin uuids
                    /\ \E q : m_ConnectionHash' = [m_ConnectionHash EXCEPT ![d] = q]
            BY <2>1 DEF GetConnectionSmart
        <3> QED
            BY <1>1, <3>1 DEF Living, ProxyInv, ProxyTypeOK
    <2>2. CASE \E d \in ProxyClients : StartConnectionSmart(d)
        BY <2>2 DEF StartConnectionSmart
    <2>3. CASE \E d \in ProxyClients : ReleaseConnection(d)
        BY <2>3 DEF ReleaseConnection, Living, ProxyInv, ProxyTypeOK
    <2>4. CASE \E q \in NetPeers : \/ DeletePeer(q) \/ Established(q) \/ Refused(q)
                                  \/ ConnectionClosed(q) \/ ServerLosesPeer(q)
        BY <2>4 DEF DeletePeer, Established, Refused, ConnectionClosed, ServerLosesPeer
    <2>5. CASE UNCHANGED proxyVars
        BY <2>5 DEF proxyVars
    <2> QED
        BY <2>1, <2>2, <2>3, <2>4, <2>5 DEF ProxyNext
<1> QED
    BY <1>1, <1>2, <1>3 DEF Belongs

\* What comes new belongs where it is.
CommandsStayTidy ==
    \A p \in NetPeers : \A m \in ToSet(toServer'[p]) :
        m \in ToSet(toServer[p]) \/ (IsOwn(m, p)' /\ IsNumbered(m)')

AnswersStayTidy ==
    \A p \in NetPeers : \A m \in ToSet(toClient'[p]) : m \in ToSet(toClient[p]) \/ IsOwn(m, p)'

DelayedStaysTidy ==
    \A m \in ToSet(delayed') :
        m \in ToSet(delayed) \/ (IsOwn(m, m.peer)' /\ m.nr # 0 /\ m.call = "setRange")

SubscribersStayTidy ==
    \A n \in Notifiers, p \in NetPeers : \A c \in SubscribersAt(n, p)' :
        c \in SubscribersAt(n, p) \/ Belongs(c, p)'

LEMMA Tidied ==
    ASSUME ProxyInv, [ProxyNext]_proxyVars, MessagesBelong, SubscribersBelong, CommandsNumbered,
           CommandsStayTidy, AnswersStayTidy, DelayedStaysTidy, SubscribersStayTidy
    PROVE  MessagesBelong' /\ SubscribersBelong' /\ CommandsNumbered'
<1>1. \A c, p : Belongs(c, p) => Belongs(c, p)' /\ (c \in Living' => c \in Living)
    BY BelongsStays
<1>2. \A m, p : IsOwn(m, p) => IsOwn(m, p)' /\ (m.client \in Living' => m.client \in Living)
    BY <1>1 DEF IsOwn
<1>3. MessagesBelong'
    BY <1>2 DEF MessagesBelong, CommandsStayTidy, AnswersStayTidy, DelayedStaysTidy
<1>4. SubscribersBelong'
    BY <1>1 DEF SubscribersBelong, SubscribersStayTidy
<1>5. \A p \in NetPeers : \A m \in ToSet(toServer[p]) : IsNumbered(m)'
    BY <1>2 DEF MessagesBelong, CommandsNumbered, IsNumbered
<1>6. CommandsNumbered'
    BY <1>5 DEF CommandsNumbered, CommandsStayTidy, DelayedStaysTidy
<1> QED
    BY <1>3, <1>4, <1>6

-----------------------------------------------------------------------------
(* What the steps do to the lists.                                          *)

\* m has been put behind what q has for the service, or dropped.
Pushed(q, m) ==
    \A p \in NetPeers :
        IF p = q /\ m_peerState[q] = "open" /\ q \in serverSees
        THEN Extends(toServer'[p], toServer[p]) /\ Added(toServer'[p], toServer[p]) = {m}
        ELSE toServer'[p] = toServer[p]

LEMMA ServerGets_Pushed ==
    ASSUME ClientsTypeOK, NEW q \in NetPeers, NEW m \in Command, ServerGets(q, m)
    PROVE  Pushed(q, m)
<1>1. toServer \in [NetPeers -> Seq(Command)] /\ toServer[q] \in Seq(Command)
    BY DEF ClientsTypeOK
<1>2. PICK old, more, new : old = toServer[q] /\ more = <<m>> /\ new = old \o more
    OBVIOUS
<1>3. old \in Seq(Command) /\ more \in Seq(Command) /\ {more[i] : i \in DOMAIN more} = {m}
    BY <1>1, <1>2
<1>7. Extends(new, old) /\ Added(new, old) = {more[i] : i \in DOMAIN more}
    <2>1. new = old \o more
        BY <1>2
    <2>2. old \in Seq(Command) /\ more \in Seq(Command)
        BY <1>3
    <2> QED
        BY <2>1, <2>2, ListAdded
<1>4. Extends(new, old) /\ Added(new, old) = {m}
    BY <1>3, <1>7
<1>5. CASE m_peerState[q] = "open" /\ q \in serverSees
    <2>1. toServer' = [toServer EXCEPT ![q] = new]
        BY <1>2, <1>5 DEF ServerGets, SendTo
    <2>2. toServer'[q] = new /\ \A p \in NetPeers : p # q => toServer'[p] = toServer[p]
        BY <1>1, <2>1
    <2> QED
        BY <1>2, <1>4, <1>5, <2>2 DEF Pushed
<1>6. CASE ~ (m_peerState[q] = "open" /\ q \in serverSees)
    <2>1. toServer' = toServer
        BY <1>6 DEF ServerGets, SendTo
    <2> QED
        BY <1>6, <2>1 DEF Pushed
<1> QED
    BY <1>5, <1>6

\* The command of a client, with a number.
IsCommandOf(m, c, call, n) ==
    m.client = c /\ m.call = call /\ m.notifier = n /\ m.nr # 0

LEMMA SendCommand_Pushed ==
    ASSUME ServiceClientsAssumption, ClientsTypeOK, NEW c \in ProxyClients, NEW call,
           NEW n \in Notifiers, NEW text \in Texts \cup {NoText},
           call = "setRange" => text \in Texts, SendCommand(c, call, n, text)
    PROVE  /\ m_ConnectionHash[c] \in NetPeers /\ c \in Living
           /\ call \in Uses[c] /\ call # "RELEASE" /\ told[c] = "connected"
           /\ \E m \in Command : /\ IsCommandOf(m, c, call, n)
                                 /\ Pushed(m_ConnectionHash[c], m)
<1> DEFINE p == m_ConnectionHash[c]
           record == [client |-> c, nr |-> GetMsgNr, call |-> call, notifier |-> n, text |-> text]
<1>1. /\ p \in NetPeers /\ call \in Uses[c] /\ c \in Living /\ told[c] = "connected"
      /\ ServerGets(p, record)
    BY DEF SendCommand, ClientsTypeOK, ProxyTypeOK, Living
<1>2. GetMsgNr \in MsgNrs /\ record \in Command
    BY <1>1, MessageOfClient DEF ClientsTypeOK
<1>3. PICK m \in Command, q \in NetPeers : m = record /\ q = p
    BY <1>1, <1>2
<1>4. Pushed(q, m)
    BY <1>1, <1>3, ServerGets_Pushed
<1>5. GetMsgNr # 0
    BY <1>2 DEF MsgNrs, ServiceClientsAssumption
<1>6. IsCommandOf(m, c, call, n)
    BY <1>3, <1>5 DEF IsCommandOf
<1>7. call # "RELEASE"
    BY <1>1, CallOfClient
<1> QED
    BY <1>1, <1>3, <1>4, <1>6, <1>7

\* m is the next command on p, and is taken.
Taken(p, m) ==
    /\ m \in Command /\ m = toServer[p][1] /\ Advances(toServer'[p], toServer[p])
    /\ \A q \in NetPeers : q # p => toServer'[q] = toServer[q]

LEMMA Serves_Taken ==
    ASSUME ClientsTypeOK, NEW p \in NetPeers, NEW calls, Serves(p, calls)
    PROVE  Taken(p, Head(toServer[p])) /\ Head(toServer[p]).call \in calls
<1>1. toServer \in [NetPeers -> Seq(Command)] /\ toServer[p] \in Seq(Command)
    BY DEF ClientsTypeOK
<1>2. PICK old, new : old = toServer[p] /\ new = Tail(old)
    OBVIOUS
<1>3. toServer[p] # <<>> /\ toServer' = [toServer EXCEPT ![p] = new]
    BY <1>2 DEF Serves
<1>4. Advances(new, old) /\ old[1] = Head(old) /\ Head(old) \in Command
    BY <1>1, <1>2, <1>3, FirstGone
<1>5. toServer'[p] = new /\ \A q \in NetPeers : q # p => toServer'[q] = toServer[q]
    BY <1>1, <1>3
<1> QED
    BY <1>2, <1>4, <1>5 DEF Taken, Serves

\* The command m, from p, is answered with text, if the connection is up.
IsAnswer(a, m) == a.client = m.client /\ a.nr = m.nr /\ a.call = m.call /\ a.notifier = m.notifier

Answered(p, m, text) ==
    \A q \in NetPeers :
        IF q = p /\ m_peerState[p] = "open"
        THEN \E a : /\ IsAnswer(a, m) /\ a.text = text
                    /\ Extends(toClient'[q], toClient[q]) /\ Added(toClient'[q], toClient[q]) = {a}
        ELSE toClient'[q] = toClient[q]

LEMMA ClientGets_Answered ==
    ASSUME ClientsTypeOK, NEW p \in NetPeers, NEW m \in Message,
           NEW text \in Texts \cup {NoText}, ClientGets(p, <<Answer(m, text)>>)
    PROVE  Answered(p, m, text)
<1> DEFINE T == Message \cup Notified
<1>1. toClient \in [NetPeers -> Seq(T)] /\ toClient[p] \in Seq(T)
    BY DEF ClientsTypeOK
<1>2. Answer(m, text) \in Message
    BY DEF Answer, Message
<1>3. PICK a \in T : a = Answer(m, text)
    BY <1>2
<1>4. IsAnswer(a, m) /\ a.text = text
    BY <1>3 DEF Answer, IsAnswer
<1> HIDE DEF T
<1>5. PICK old, more, new : old = toClient[p] /\ more = <<a>> /\ new = old \o more
    OBVIOUS
<1>6. old \in Seq(T) /\ more \in Seq(T) /\ {more[i] : i \in DOMAIN more} = {a}
    BY <1>1, <1>5
<1>10. Extends(new, old) /\ Added(new, old) = {more[i] : i \in DOMAIN more}
    <2>1. new = old \o more
        BY <1>5
    <2>2. old \in Seq(T) /\ more \in Seq(T)
        BY <1>6
    <2> QED
        BY <2>1, <2>2, ListAdded
<1>7. Extends(new, old) /\ Added(new, old) = {a}
    BY <1>6, <1>10
<1>8. CASE m_peerState[p] = "open"
    <2>1. toClient' = [toClient EXCEPT ![p] = new]
        BY <1>3, <1>5, <1>8 DEF ClientGets, SendTo
    <2>2. toClient'[p] = new /\ \A q \in NetPeers : q # p => toClient'[q] = toClient[q]
        BY <1>1, <2>1
    <2> QED
        BY <1>4, <1>5, <1>7, <1>8, <2>2 DEF Answered
<1>9. CASE m_peerState[p] # "open"
    <2>1. toClient' = toClient
        BY <1>9 DEF ClientGets, SendTo
    <2> QED
        BY <1>9, <2>1 DEF Answered
<1> QED
    BY <1>8, <1>9

\* What serving m does to the subscribers behind q of notifier n.
Resubscribed(p, m) ==
    \A n \in Notifiers, q \in NetPeers :
        SubscribersAt(n, q)' =
            IF q = p /\ m.call \in {"RELEASE", "unregisterNotifiers"}
              THEN SubscribersAt(n, q) \ {m.client}
            ELSE IF q = p /\ n = m.notifier /\ m.call = "registerNotifier"
              THEN SubscribersAt(n, q) \cup {m.client}
            ELSE SubscribersAt(n, q)

\* A command is answered at once, with the text that is read, unless it has to wait.
Replied(p, m) ==
    IF m.call \in {"RELEASE", "setRange"} THEN UNCHANGED toClient
    ELSE \E text : /\ Answered(p, m, text)
                   /\ m.call = "getRange" => text = m_sValue[m.notifier]

Delayed(p, m) ==
    \A d \in ToSet(delayed') :
        \/ d \in ToSet(delayed)
        \/ m.call = "setRange" /\ d.peer = p /\ d.client = m.client /\ d.nr = m.nr /\ d.call = m.call

LEMMA Serve_Effects ==
    ASSUME ServiceClientsAssumption, ClientsTypeOK, NEW p \in NetPeers, Serve(p)
    PROVE  /\ p \in serverSees
           /\ UNCHANGED <<proxyVars, wants, heard, m_sValue>>
           /\ \E m \in Command : Taken(p, m) /\ Resubscribed(p, m) /\ Replied(p, m) /\ Delayed(p, m)
<1>1. ASSUME NEW calls, Serves(p, calls)
      PROVE  p \in serverSees /\ UNCHANGED <<proxyVars, wants, heard>>
    BY <1>1 DEF Serves
<1>2. PICK m : m = Head(toServer[p])
    OBVIOUS
<1>3. ASSUME NEW calls, Serves(p, calls)
      PROVE  Taken(p, m) /\ m.call \in calls /\ m \in Command /\ m \in Message
             /\ m.notifier \in Notifiers
    BY <1>2, <1>3, Serves_Taken DEF Taken, Command, Message
<1>4. SubscriptionTypeOK
    BY DEF ClientsTypeOK
<1>5. UNCHANGED m_subscriberVector => \A n \in Notifiers, q \in NetPeers :
            SubscribersAt(n, q)' = SubscribersAt(n, q)
    BY DEF SubscribersAt
<1>6. UNCHANGED delayed => Delayed(p, m)
    BY DEF Delayed
<1>7. NoText \in Texts \cup {NoText}
    OBVIOUS
<1>8. ASSUME NEW cs, cs = {m.client}, RemoveAllSubscribers(p, cs)
      PROVE  \A n \in Notifiers, q \in NetPeers :
                SubscribersAt(n, q)' = IF q = p THEN SubscribersAt(n, q) \ {m.client}
                                       ELSE SubscribersAt(n, q)
    BY <1>4, <1>8, SubscribersRemoved
<1>9. CASE ServeRelease(p)
    <2>1. /\ Serves(p, {"RELEASE"}) /\ RemoveAllSubscribers(p, {m.client})
          /\ UNCHANGED <<m_sValue, toClient, delayed>>
        BY <1>2, <1>9 DEF ServeRelease
    <2>2. m.call = "RELEASE"
        BY <1>3, <2>1
    <2>3. Resubscribed(p, m)
        BY <1>8, <2>1, <2>2 DEF Resubscribed
    <2>4. Replied(p, m)
        BY <2>1, <2>2 DEF Replied
    <2> QED
        BY <1>1, <1>3, <1>6, <2>1, <2>3, <2>4
<1>10. CASE ServeRegister(p)
    <2>1. PICK s : s = [netPeer |-> p, client |-> m.client, withValue |-> m.text # NoText]
        OBVIOUS
    <2>2. /\ Serves(p, {"registerNotifier"}) /\ AddSubscriber(m.notifier, s)
          /\ ClientGets(p, <<Answer(m, NoText)>>) /\ UNCHANGED <<m_sValue, delayed>>
        BY <1>2, <1>10, <2>1 DEF ServeRegister
    <2>3. m.call = "registerNotifier"
        BY <1>3, <2>2
    <2>4. Resubscribed(p, m)
        <3>1. PICK n, c : n \in Notifiers /\ n = m.notifier /\ c = m.client
            BY <1>3, <2>2
        <3>2. s.netPeer = p /\ s.client = c
            BY <2>1, <3>1
        <3>3. AddSubscriber(n, s)
            BY <2>2, <3>1
        <3>4. \A k \in Notifiers, q \in NetPeers :
                SubscribersAt(k, q)' = IF k = n /\ q = p THEN SubscribersAt(k, q) \cup {c}
                                       ELSE SubscribersAt(k, q)
            BY <1>4, <3>1, <3>2, <3>3, SubscriberAdded
        <3> QED
            BY <2>3, <3>1, <3>4 DEF Resubscribed
    <2>5. Replied(p, m)
        BY <1>3, <1>7, <2>2, <2>3, ClientGets_Answered DEF Replied
    <2> QED
        BY <1>1, <1>3, <1>6, <2>2, <2>4, <2>5
<1>11. CASE ServeUnregister(p)
    <2>1. /\ Serves(p, {"unregisterNotifiers"}) /\ RemoveAllSubscribers(p, {m.client})
          /\ ClientGets(p, <<Answer(m, NoText)>>) /\ UNCHANGED <<m_sValue, delayed>>
        BY <1>2, <1>11 DEF ServeUnregister
    <2>2. m.call = "unregisterNotifiers"
        BY <1>3, <2>1
    <2>3. Resubscribed(p, m)
        BY <1>8, <2>1, <2>2 DEF Resubscribed
    <2>4. Replied(p, m)
        BY <1>3, <1>7, <2>1, <2>2, ClientGets_Answered DEF Replied
    <2> QED
        BY <1>1, <1>3, <1>6, <2>1, <2>3, <2>4
<1>12. CASE ServeRead(p)
    <2>1. /\ Serves(p, {"getRange"}) /\ ClientGets(p, <<Answer(m, m_sValue[m.notifier])>>)
          /\ UNCHANGED <<subscriptionVars, delayed>>
        BY <1>2, <1>12 DEF ServeRead
    <2>2. m.call = "getRange"
        BY <1>3, <2>1
    <2>3. PICK text \in Texts \cup {NoText} : text = m_sValue[m.notifier]
        BY <1>3, <1>4, <2>1 DEF SubscriptionTypeOK
    <2>4. ClientGets(p, <<Answer(m, text)>>)
        BY <2>1, <2>3
    <2>5. Replied(p, m)
        BY <1>3, <2>1, <2>2, <2>3, <2>4, ClientGets_Answered DEF Replied
    <2>6. Resubscribed(p, m)
        BY <1>5, <2>1, <2>2 DEF Resubscribed, subscriptionVars
    <2> QED
        BY <1>1, <1>3, <1>6, <2>1, <2>5, <2>6 DEF subscriptionVars
<1>13. CASE ServePlain(p)
    <2>1. /\ Serves(p, (UNION {Uses[c] : c \in ProxyClients}) \ NotifierCalls)
          /\ ClientGets(p, <<Answer(m, NoText)>>) /\ UNCHANGED <<subscriptionVars, delayed>>
        BY <1>2, <1>13 DEF ServePlain
    <2>2. m.call \in (UNION {Uses[c] : c \in ProxyClients}) \ NotifierCalls
        BY <1>3, <2>1
    <2>3. PICK c \in ProxyClients : m.call \in Uses[c]
        BY <2>2
    <2>7. m.call # "RELEASE" /\ m.call \notin NotifierCalls
        <3>1. m.call # "RELEASE"
            BY <2>3, CallOfClient
        <3>2. m.call \notin NotifierCalls
            BY <2>2
        <3> QED
            BY <3>1, <3>2
    <2>4. m.call \notin {"RELEASE", "setRange", "getRange", "registerNotifier", "unregisterNotifiers"}
        BY <2>7 DEF NotifierCalls
    <2>5. Replied(p, m)
        BY <1>3, <1>7, <2>1, <2>4, ClientGets_Answered DEF Replied
    <2>6. Resubscribed(p, m)
        BY <1>5, <2>1, <2>4 DEF Resubscribed, subscriptionVars
    <2> QED
        BY <1>1, <1>3, <1>6, <2>1, <2>5, <2>6 DEF subscriptionVars
<1>14. CASE ServeSetRange(p)
    <2>1. PICK d : d = [peer |-> p, client |-> m.client, nr |-> m.nr,
                        notifier |-> m.notifier, text |-> m.text, call |-> m.call]
        OBVIOUS
    <2>2. /\ Serves(p, {"setRange"}) /\ delayed' = Append(delayed, d)
          /\ UNCHANGED <<subscriptionVars, toClient>>
        BY <1>2, <1>14, <2>1 DEF ServeSetRange
    <2>3. m.call = "setRange"
        BY <1>3, <2>2
    <2>4. d \in DelayedCmd
        <3>1. m \in Command
            BY <1>3, <2>2
        <3> QED
            BY <2>1, <2>3, <3>1 DEF Command, Message, DelayedCmd
    <2>5. PICK more : more = <<d>>
        OBVIOUS
    <2>6. delayed \in Seq(DelayedCmd) /\ more \in Seq(DelayedCmd) /\ delayed' = delayed \o more
        <3>1. delayed \in Seq(DelayedCmd)
            BY DEF ClientsTypeOK
        <3> QED
            BY <2>2, <2>4, <2>5, <3>1
    <2>7. Extends(delayed', delayed) /\ Added(delayed', delayed) = {d}
        <3>1. {more[i] : i \in DOMAIN more} = {d}
            BY <2>5
        <3>2. PICK old, new : old = delayed /\ new = delayed'
            OBVIOUS
        <3> QED
            BY <2>6, <3>1, <3>2, ListAdded
    <2>8. \A x \in ToSet(delayed') : x \in ToSet(delayed) \/ x = d
        BY <2>7, AddedSet
    <2>9. Delayed(p, m)
        BY <2>1, <2>3, <2>8 DEF Delayed
    <2>10. Replied(p, m)
        BY <2>2, <2>3 DEF Replied
    <2>11. Resubscribed(p, m)
        BY <1>5, <2>2, <2>3 DEF Resubscribed, subscriptionVars
    <2> QED
        BY <1>1, <1>3, <2>2, <2>9, <2>10, <2>11 DEF subscriptionVars
<1> QED
    BY <1>9, <1>10, <1>11, <1>12, <1>13, <1>14 DEF Serve

-----------------------------------------------------------------------------
LEMMA ExtendedTwice ==
    ASSUME NEW new, NEW mid, NEW old, Extends(mid, old), Extends(new, mid)
    PROVE  Extends(new, old) /\ Added(new, old) = Added(mid, old) \cup Added(new, mid)
<1>1. PICK j \in Nat, k \in Nat : /\ j <= k /\ DOMAIN old = 1 .. j /\ DOMAIN mid = 1 .. k
                                  /\ \A i \in 1 .. j : mid[i] = old[i]
    BY DEF Extends
<1>2. PICK l \in Nat : /\ k <= l /\ DOMAIN new = 1 .. l
                       /\ \A i \in 1 .. k : new[i] = mid[i]
    <2>1. PICK e \in Nat, l \in Nat : /\ e <= l /\ DOMAIN mid = 1 .. e /\ DOMAIN new = 1 .. l
                                      /\ \A i \in 1 .. e : new[i] = mid[i]
        BY DEF Extends
    <2>2. e = k
        BY <1>1, <2>1
    <2> QED
        BY <2>1, <2>2
<1>3. Extends(new, old)
    <2>1. j <= l /\ \A i \in 1 .. j : new[i] = old[i]
        BY <1>1, <1>2
    <2> QED
        BY <1>1, <1>2, <2>1 DEF Extends
<1>4. ASSUME NEW m, m \in Added(new, old) PROVE m \in Added(mid, old) \cup Added(new, mid)
    <2>1. PICK i \in 1 .. l : i \notin 1 .. j /\ m = new[i]
        BY <1>1, <1>2, <1>4 DEF Added
    <2>2. CASE i \in 1 .. k
        BY <1>1, <1>2, <2>1, <2>2 DEF Added
    <2>3. CASE i \notin 1 .. k
        BY <1>1, <1>2, <2>1, <2>3 DEF Added
    <2> QED
        BY <2>2, <2>3
<1>5. ASSUME NEW m, m \in Added(mid, old) \cup Added(new, mid) PROVE m \in Added(new, old)
    <2>1. CASE m \in Added(mid, old)
        <3>1. PICK i \in 1 .. k : i \notin 1 .. j /\ m = mid[i]
            BY <1>1, <2>1 DEF Added
        <3>2. i \in 1 .. l /\ new[i] = m
            BY <1>2, <3>1
        <3> QED
            BY <1>1, <1>2, <3>1, <3>2 DEF Added
    <2>2. CASE m \in Added(new, mid)
        <3>1. PICK i \in 1 .. l : i \notin 1 .. k /\ m = new[i]
            BY <1>1, <1>2, <2>2 DEF Added
        <3>2. i \notin 1 .. j
            BY <1>1, <3>1
        <3> QED
            BY <1>1, <1>2, <3>1, <3>2 DEF Added
    <2> QED
        BY <1>5, <2>1, <2>2
<1> QED
    BY <1>3, <1>4, <1>5

\* What a connection gets when the text of n becomes text: notifications of n for the
\* subscribers, all of them if it was another text before, and others.
News(new, old, n, text, val, on, others) ==
    /\ Extends(new, old)
    /\ \A m \in Added(new, old) :
            m \in others \/ \E c \in on : IsNotification(m, c, n) /\ m.text \in {NoText, text}
    /\ text # val => \A c \in on : \E m \in Added(new, old) : IsNotification(m, c, n)

LEMMA NotifiedNews ==
    ASSUME SubscriptionTypeOK, NEW n \in Notifiers, NEW text \in Texts, NEW p,
           NEW T, NEW old \in Seq(T), NEW sent \in Seq(T), NEW answer \in Seq(T), NEW new,
           \/ sent \in NotifyAllSubscribers(n, text, p)
           \/ text = m_sValue[n] /\ sent \in NotifiedOf(n, text, p),
           new = (old \o sent) \o answer
    PROVE  News(new, old, n, text, m_sValue[n], SubscribersAt(n, p), ToSet(answer))
<1>1. PICK mid : mid = old \o sent
    OBVIOUS
<1>2. /\ mid \in Seq(T) /\ Extends(mid, old)
      /\ Added(mid, old) = {sent[i] : i \in DOMAIN sent}
    BY <1>1, ListAdded
<1>3. new = mid \o answer
    BY <1>1
<1>4. Extends(new, mid) /\ Added(new, mid) = {answer[i] : i \in DOMAIN answer}
    <2>1. mid \in Seq(T)
        BY <1>2
    <2> QED
        BY <1>3, <2>1, ListAdded
<1>5. Extends(new, old) /\ Added(new, old) = Added(mid, old) \cup Added(new, mid)
    BY <1>2, <1>4, ExtendedTwice
<1>6. Added(new, mid) = ToSet(answer)
    BY <1>4 DEF ToSet
<1>7. CASE sent \in NotifiedOf(n, text, p)
    <2>1. Notifies(sent, n, text, SubscribersAt(n, p))
        BY <1>7, SubscribersNotified
    <2>2. \A m \in Added(mid, old) : \E c \in SubscribersAt(n, p) :
                IsNotification(m, c, n) /\ m.text \in {NoText, text}
        BY <1>2, <2>1 DEF Notifies
    <2>3. \A c \in SubscribersAt(n, p) : \E m \in Added(mid, old) : IsNotification(m, c, n)
        BY <1>2, <2>1 DEF Notifies
    <2> QED
        BY <1>5, <1>6, <2>2, <2>3 DEF News
<1>8. CASE sent = <<>> /\ text = m_sValue[n]
    <2>1. Added(mid, old) = {}
        BY <1>2, <1>8
    <2> QED
        BY <1>5, <1>6, <1>8, <2>1 DEF News
<1> QED
    BY <1>7, <1>8 DEF NotifyAllSubscribers

\* The connections that are up get the news, others nothing.
Told(n, text, answers) ==
    \A p \in NetPeers :
        IF m_peerState[p] = "open"
        THEN News(toClient'[p], toClient[p], n, text, m_sValue[n], SubscribersAt(n, p),
                  ToSet(answers[p]))
        ELSE toClient'[p] = toClient[p]

LEMMA Notifying_Told ==
    ASSUME ServiceClientsAssumption, ClientsTypeOK, NEW n \in Notifiers, NEW text \in Texts,
           NEW answers, Notifying(n, text, answers),
           \A p \in NetPeers : answers[p] \in Seq(Message)
    PROVE  Told(n, text, answers)
<1> DEFINE T == Message \cup Notified
<1>1. PICK sent :
        /\ sent = [p \in NetPeers |-> sent[p]]
        /\ \A p \in NetPeers : sent[p] \in NotifyAllSubscribers(n, text, p)
        /\ toClient' = Delivered(sent, answers)
    BY DEF Notifying, OneOfEach, Delivered
<1>2. SubscriptionTypeOK /\ toClient \in [NetPeers -> Seq(T)]
    BY DEF ClientsTypeOK
<1>3. Message \subseteq T /\ Notified \subseteq T
    OBVIOUS
<1> HIDE DEF T
<1>4. ASSUME NEW p \in NetPeers, m_peerState[p] = "open"
      PROVE  News(toClient'[p], toClient[p], n, text, m_sValue[n], SubscribersAt(n, p),
                  ToSet(answers[p]))
    <2>1. PICK old, s, a, new : old = toClient[p] /\ s = sent[p] /\ a = answers[p] /\ new = toClient'[p]
        OBVIOUS
    <2>2. old \in Seq(T)
        BY <1>2, <2>1
    <2>3. s \in Seq(T) /\ s \in NotifyAllSubscribers(n, text, p)
        <3>1. s \in NotifyAllSubscribers(n, text, p)
            BY <1>1, <2>1
        <3>2. s \in Seq(Notified)
            BY <1>2, <3>1, NotifyTyped
        <3> QED
            BY <1>3, <3>1, <3>2
    <2>4. a \in Seq(T)
        <3>1. a \in Seq(Message)
            BY <2>1
        <3> QED
            BY <1>3, <3>1
    <2>5. new = (old \o s) \o a
        BY <1>1, <1>4, <2>1 DEF Delivered
    <2>6. News(new, old, n, text, m_sValue[n], SubscribersAt(n, p), ToSet(a))
        BY <1>2, <2>2, <2>3, <2>4, <2>5, NotifiedNews
    <2> QED
        BY <2>1, <2>6
<1>5. ASSUME NEW p \in NetPeers, m_peerState[p] # "open"
      PROVE  toClient'[p] = toClient[p]
    BY <1>1, <1>5 DEF Delivered
<1> QED
    BY <1>4, <1>5 DEF Told

LEMMA Trigger_Told ==
    ASSUME ServiceClientsAssumption, ClientsTypeOK, NEW n \in Notifiers, Trigger(n)
    PROVE  Told(n, m_sValue[n], NoAnswers)
<1> DEFINE T == Message \cup Notified
<1>1. PICK sent :
        /\ sent = [p \in NetPeers |-> sent[p]]
        /\ \A p \in NetPeers : sent[p] \in ForceTrigger(n, p)
        /\ toClient' = [p \in NetPeers |->
                            IF m_peerState[p] = "open" THEN toClient[p] \o sent[p] ELSE toClient[p]]
    BY DEF Trigger, OneOfEach
<1>2. SubscriptionTypeOK /\ toClient \in [NetPeers -> Seq(T)]
    BY DEF ClientsTypeOK
<1>3. Notified \subseteq T
    OBVIOUS
<1>6. PICK text \in Texts : text = m_sValue[n]
    BY <1>2 DEF SubscriptionTypeOK
<1> HIDE DEF T
<1>4. ASSUME NEW p \in NetPeers, m_peerState[p] = "open"
      PROVE  News(toClient'[p], toClient[p], n, text, m_sValue[n], SubscribersAt(n, p),
                  ToSet(NoAnswers[p]))
    <2>1. PICK old, s, a, new : old = toClient[p] /\ s = sent[p] /\ a = <<>> /\ new = toClient'[p]
        OBVIOUS
    <2>2. old \in Seq(T)
        BY <1>2, <2>1
    <2>3. s \in Seq(T) /\ s \in NotifiedOf(n, text, p)
        <3>1. s \in ForceTrigger(n, p)
            BY <1>1, <2>1
        <3>2. s \in Seq(Notified)
            BY <1>2, <1>6, <3>1, NotifyTyped
        <3> QED
            BY <1>3, <1>6, <3>1, <3>2 DEF ForceTrigger
    <2>4. a \in Seq(T) /\ NoAnswers[p] = a
        BY <2>1 DEF NoAnswers
    <2>5. new = (old \o s) \o a
        <3>1. new = old \o s
            BY <1>1, <1>4, <2>1
        <3>2. old \o s \in Seq(T)
            BY <2>2, <2>3
        <3> QED
            BY <2>1, <3>1, <3>2
    <2>6. News(new, old, n, text, m_sValue[n], SubscribersAt(n, p), ToSet(a))
        BY <1>2, <1>6, <2>2, <2>3, <2>4, <2>5, NotifiedNews
    <2> QED
        BY <2>1, <2>4, <2>6
<1>5. ASSUME NEW p \in NetPeers, m_peerState[p] # "open"
      PROVE  toClient'[p] = toClient[p]
    BY <1>1, <1>5
<1> QED
    BY <1>4, <1>5, <1>6 DEF Told

\* The controller's command: the subscribers hear of the text, then its client.
LEMMA CmdDone_Effects ==
    ASSUME ServiceClientsAssumption, ClientsTypeOK, CmdDone
    PROVE  /\ UNCHANGED <<proxyVars, m_subscriberVector, toServer, wants, heard>>
           /\ \E m, answers :
                /\ m \in DelayedCmd
                /\ m = delayed[1] /\ Advances(delayed', delayed)
                /\ SetText(m.notifier, m.text)
                /\ Told(m.notifier, m.text, answers)
                /\ \A p \in NetPeers : \A a \in ToSet(answers[p]) : p = m.peer /\ IsAnswer(a, m)
<1>1. delayed # <<>> /\ delayed \in Seq(DelayedCmd) /\ delayed' = Tail(delayed)
    BY DEF CmdDone, ClientsTypeOK
<1>2. PICK old, new : old = delayed /\ new = delayed'
    OBVIOUS
<1>3. Advances(new, old) /\ old[1] = Head(old) /\ Head(old) \in DelayedCmd
    <2>1. old \in Seq(DelayedCmd) /\ old # <<>> /\ new = Tail(old)
        BY <1>1, <1>2
    <2> QED
        BY <2>1, FirstGone
<1>4. PICK m \in DelayedCmd : m = Head(delayed)
    BY <1>2, <1>3
<1>5. m.notifier \in Notifiers /\ m.text \in Texts
    BY DEF DelayedCmd
<1>6. Answer(m, NoText) \in Message /\ IsAnswer(Answer(m, NoText), m)
    BY DEF Answer, Message, DelayedCmd, IsAnswer
<1>7. PICK answers : answers = [p \in NetPeers |-> IF p = m.peer /\ p \in serverSees
                                                  THEN <<Answer(m, NoText)>> ELSE <<>>]
    OBVIOUS
<1>8. Notifying(m.notifier, m.text, answers)
    BY <1>4, <1>7 DEF CmdDone
<1>9. SetText(m.notifier, m.text)
    BY <1>8 DEF Notifying
<1>10. PICK a \in Message : a = Answer(m, NoText)
    BY <1>6
<1>11. ASSUME NEW p \in NetPeers
       PROVE  /\ answers[p] \in Seq(Message)
              /\ \A x \in ToSet(answers[p]) : p = m.peer /\ x = a
    <2>1. CASE p = m.peer /\ p \in serverSees
        <3>1. answers[p] = <<a>>
            BY <1>7, <1>10, <2>1
        <3> QED
            BY <2>1, <3>1 DEF ToSet
    <2>2. CASE ~ (p = m.peer /\ p \in serverSees)
        <3>1. answers[p] = <<>>
            BY <1>7, <2>2
        <3> QED
            BY <3>1 DEF ToSet
    <2> QED
        BY <2>1, <2>2
<1>12. Told(m.notifier, m.text, answers)
    <2>1. PICK n \in Notifiers, text \in Texts : n = m.notifier /\ text = m.text
        BY <1>5
    <2>2. Notifying(n, text, answers)
        BY <1>8, <2>1
    <2>3. Told(n, text, answers)
        BY <1>11, <2>2, Notifying_Told
    <2> QED
        BY <2>1, <2>3
<1>13. UNCHANGED <<proxyVars, m_subscriberVector, toServer, wants, heard>>
    BY DEF CmdDone
<1> QED
    BY <1>2, <1>3, <1>4, <1>6, <1>9, <1>10, <1>11, <1>12, <1>13

LEMMA Assign_Effects ==
    ASSUME ServiceClientsAssumption, ClientsTypeOK, NEW n \in Notifiers, Assign(n)
    PROVE  /\ UNCHANGED <<proxyVars, m_subscriberVector, toServer, delayed, wants, heard>>
           /\ \E text \in Texts : SetText(n, text) /\ Told(n, text, NoAnswers)
<1>1. PICK text \in Texts : Notifying(n, text, NoAnswers)
    BY DEF Assign, NoAnswers
<1>2. \A p \in NetPeers : NoAnswers[p] \in Seq(Message)
    <2>1. <<>> \in Seq(Message)
        OBVIOUS
    <2> QED
        BY <2>1 DEF NoAnswers
<1>3. Told(n, text, NoAnswers)
    BY <1>1, <1>2, Notifying_Told
<1> QED
    BY <1>1, <1>3 DEF Assign, Notifying

-----------------------------------------------------------------------------
\* c has sent m, and keeps in mind what it has registered for.
SentBy(c, m) ==
    /\ m \in Command /\ m.client = c /\ m.call \in Uses[c] /\ m.call # "RELEASE" /\ m.nr # 0
    /\ c \in Living /\ told[c] = "connected" /\ Pushed(m_ConnectionHash[c], m)
    /\ UNCHANGED <<proxyVars, subscriptionVars, toClient, delayed>>

Marks(c, m) ==
    \/ /\ m.call \notin {"registerNotifier", "unregisterNotifiers"}
       /\ UNCHANGED <<wants, heard>>
    \/ /\ m.call = "registerNotifier" /\ m.notifier \notin wants[c] /\ ~ IsWaiting(c)
       /\ wants' = [wants EXCEPT ![c] = @ \cup {m.notifier}]
       /\ UNCHANGED heard
    \/ /\ m.call = "unregisterNotifiers"
       /\ wants' = [wants EXCEPT ![c] = {}]
       /\ heard' = [heard EXCEPT ![c] = [n \in Notifiers |-> NoText]]

Asking(c) == Ask(c) \/ SetRange(c) \/ RegisterNotifier(c) \/ UnregisterNotifiers(c) \/ Read(c)

LEMMA Asking_Sends ==
    ASSUME ServiceClientsAssumption, ClientsTypeOK, NEW c \in ProxyClients, Asking(c)
    PROVE  \E m : SentBy(c, m) /\ Marks(c, m)
<1>1. ASSUME NEW call, NEW n \in Notifiers, NEW text \in Texts \cup {NoText},
             call = "setRange" => text \in Texts, SendCommand(c, call, n, text)
      PROVE  \E m : SentBy(c, m) /\ m.call = call /\ m.notifier = n
    <2>1. /\ m_ConnectionHash[c] \in NetPeers /\ c \in Living
          /\ call \in Uses[c] /\ call # "RELEASE" /\ told[c] = "connected"
          /\ \E m \in Command : /\ IsCommandOf(m, c, call, n)
                                /\ Pushed(m_ConnectionHash[c], m)
        BY <1>1, SendCommand_Pushed
    <2>2. UNCHANGED <<proxyVars, subscriptionVars, toClient, delayed>>
        BY <1>1 DEF SendCommand
    <2> QED
        BY <2>1, <2>2 DEF SentBy, IsCommandOf
<1>2. PICK some \in Notifiers : some = CHOOSE n \in Notifiers : TRUE
    BY DEF ServiceClientsAssumption
<1>3. CASE Ask(c)
    <2>1. PICK call \in Uses[c] \ NotifierCalls : SendCommand(c, call, some, NoText)
        BY <1>2, <1>3 DEF Ask
    <2>2. call \notin {"registerNotifier", "unregisterNotifiers", "setRange"}
        BY DEF NotifierCalls
    <2>3. PICK m : SentBy(c, m) /\ m.call = call
        BY <1>1, <2>1, <2>2
    <2> QED
        BY <1>3, <2>2, <2>3 DEF Ask, Marks
<1>4. CASE SetRange(c)
    <2>1. PICK n \in Notifiers, t \in Texts : SendCommand(c, "setRange", n, t)
        BY <1>4 DEF SetRange
    <2>2. PICK m : SentBy(c, m) /\ m.call = "setRange"
        BY <1>1, <2>1
    <2> QED
        BY <1>4, <2>2 DEF SetRange, Marks
<1>5. CASE RegisterNotifier(c)
    <2>1. PICK n \in Notifiers \ wants[c], t \in {NoText, FirstText} :
                /\ SendCommand(c, "registerNotifier", n, t)
                /\ wants' = [wants EXCEPT ![c] = @ \cup {n}]
        BY <1>5 DEF RegisterNotifier
    <2>2. t \in Texts \cup {NoText}
        BY DEF ServiceClientsAssumption
    <2>3. PICK m : SentBy(c, m) /\ m.call = "registerNotifier" /\ m.notifier = n
        BY <1>1, <2>1, <2>2
    <2>4. UNCHANGED heard /\ ~ IsWaiting(c)
        BY <1>5 DEF RegisterNotifier
    <2> QED
        BY <2>1, <2>3, <2>4 DEF Marks
<1>6. CASE UnregisterNotifiers(c)
    <2>1. SendCommand(c, "unregisterNotifiers", some, NoText)
        BY <1>2, <1>6 DEF UnregisterNotifiers
    <2>2. PICK m : SentBy(c, m) /\ m.call = "unregisterNotifiers"
        BY <1>1, <2>1
    <2> QED
        BY <1>6, <2>2 DEF UnregisterNotifiers, Marks
<1>7. CASE Read(c)
    <2>1. PICK n \in wants[c] : SendCommand(c, "getRange", n, NoText)
        BY <1>7 DEF Read
    <2>2. n \in Notifiers
        BY DEF ClientsTypeOK
    <2>3. PICK m : SentBy(c, m) /\ m.call = "getRange"
        BY <1>1, <2>1, <2>2
    <2> QED
        BY <1>7, <2>3 DEF Read, Marks
<1> QED
    BY <1>3, <1>4, <1>5, <1>6, <1>7 DEF Asking

-----------------------------------------------------------------------------
(* A client that is not connected.                                          *)

LEMMA UnconnectedBefore ==
    ASSUME ProxyAssumption, ProxyInv, [ProxyNext]_proxyVars, NEW c \in ProxyClients, IsUnconnected(c)'
    PROVE  IsUnconnected(c) \/ ReleaseConnection(c)
<1> SUFFICES ASSUME c \in Living, ~ ReleaseConnection(c)
             PROVE  m_peerState[m_ConnectionHash[c]] \in {"unused", "idle", "connecting"}
    BY DEF IsUnconnected
<1>1. PICK p \in NetPeers : p = m_ConnectionHash[c]
    BY PeerOfLiving DEF ProxyInv
<1>2. m_peerState \in [NetPeers -> PeerStates] /\ m_ConnectionHash \in [ProxyClients -> NetPeers \cup {NoPeer}]
    BY DEF ProxyInv, ProxyTypeOK
<1>3. p # NoPeer
    BY DEF ProxyAssumption
<1>4. SUFFICES /\ m_ConnectionHash'[c] = p
               /\ m_peerState'[p] \in {"unused", "idle", "connecting"} =>
                        m_peerState[p] \in {"unused", "idle", "connecting"}
    BY <1>1, <1>3 DEF IsUnconnected, Living
<1>5. ASSUME NEW d \in ProxyClients, GetConnectionSmart(d)
      PROVE  /\ m_ConnectionHash'[c] = p
             /\ m_peerState'[p] \in {"unused", "idle", "connecting"} =>
                      m_peerState[p] \in {"unused", "idle", "connecting"}
    <2>1. d # c
        BY <1>5 DEF GetConnectionSmart, ProxyInv, AbsentClientsAreBlank
    <2>2. \E q : m_ConnectionHash' = [m_ConnectionHash EXCEPT ![d] = q]
        BY <1>5 DEF GetConnectionSmart
    <2>3. UNCHANGED m_peerState \/ (/\ NewPeer # NoPeer
                                    /\ m_peerState' = [m_peerState EXCEPT ![NewPeer] = "idle"])
        BY <1>5 DEF GetConnectionSmart
    <2>4. NewPeer # NoPeer => NewPeer \in NetPeers /\ m_peerState[NewPeer] = "unused"
        BY NewPeer_Unused
    <2>5. PICK new : new = NewPeer
        OBVIOUS
    <2> QED
        BY <1>1, <1>2, <2>1, <2>2, <2>3, <2>4, <2>5
<1>6. ASSUME NEW d \in ProxyClients, StartConnectionSmart(d)
      PROVE  /\ m_ConnectionHash'[c] = p
             /\ m_peerState'[p] \in {"unused", "idle", "connecting"} =>
                      m_peerState[p] \in {"unused", "idle", "connecting"}
    <2>1. PICK q : q = m_ConnectionHash[d]
        OBVIOUS
    <2>2. /\ m_peerState' = [m_peerState EXCEPT ![q] = IF @ = "idle" THEN "connecting" ELSE @]
          /\ UNCHANGED m_ConnectionHash
        BY <1>6, <2>1 DEF StartConnectionSmart
    <2> QED
        BY <1>1, <1>2, <2>2
<1>7. ASSUME NEW d \in ProxyClients, ReleaseConnection(d)
      PROVE  /\ m_ConnectionHash'[c] = p
             /\ m_peerState'[p] \in {"unused", "idle", "connecting"} =>
                      m_peerState[p] \in {"unused", "idle", "connecting"}
    BY <1>1, <1>2, <1>7 DEF ReleaseConnection
<1>8. ASSUME NEW q \in NetPeers,
             DeletePeer(q) \/ Established(q) \/ Refused(q) \/ ConnectionClosed(q) \/ ServerLosesPeer(q)
      PROVE  /\ m_ConnectionHash'[c] = p
             /\ m_peerState'[p] \in {"unused", "idle", "connecting"} =>
                      m_peerState[p] \in {"unused", "idle", "connecting"}
    <2>1. UNCHANGED m_ConnectionHash
        BY <1>8 DEF DeletePeer, Established, Refused, ConnectionClosed, ServerLosesPeer
    <2>2. \/ UNCHANGED m_peerState
          \/ \E s \in {"deleted", "open", "failed", "closed"} :
                    m_peerState' = [m_peerState EXCEPT ![q] = s]
        BY <1>8 DEF DeletePeer, Established, Refused, ConnectionClosed, ServerLosesPeer
    <2> QED
        BY <1>1, <1>2, <2>1, <2>2
<1>9. CASE UNCHANGED proxyVars
    BY <1>1, <1>9 DEF proxyVars
<1> QED
    BY <1>5, <1>6, <1>7, <1>8, <1>9 DEF ProxyNext

\* Steps that leave what modules want and know alone, or blank.
LEMMA BlankStays ==
    ASSUME ProxyAssumption, ProxyInv, [ProxyNext]_proxyVars, BlankUntilConnected,
           \A c \in ProxyClients : \/ /\ wants'[c] = wants[c] \/ wants'[c] = {}
                                      /\ IsBlank(c) => IsBlank(c)'
                                   \/ ~ IsUnconnected(c) /\ (IsBlank(c) => IsBlank(c)')
                                   \/ ~ IsUnconnected(c) /\ KindOf[c] = "pcb",
           \A c \in ProxyClients : ReleaseConnection(c) => wants'[c] = {} /\ IsBlank(c)'
    PROVE  BlankUntilConnected'
<1> SUFFICES ASSUME NEW c \in ProxyClients
             PROVE  /\ IsUnconnected(c)' => wants'[c] = {} /\ IsBlank(c)'
                    /\ KindOf[c] # "pcb" => IsBlank(c)'
    BY DEF BlankUntilConnected
<1>1. IsUnconnected(c)' => IsUnconnected(c) \/ ReleaseConnection(c)
    BY UnconnectedBefore
<1> QED
    BY <1>1 DEF BlankUntilConnected

-----------------------------------------------------------------------------
(* TidyInv, step by step.                                                   *)

LEMMA ConnectedIsOpen ==
    ASSUME ProxyInv, NEW c \in Living, told[c] = "connected"
    PROVE  m_peerState[m_ConnectionHash[c]] = "open" /\ ~ IsUnconnected(c) /\ c \in uuids
BY DEF ProxyInv, ToldTheTruth, IsUnconnected, AbsentClientsAreBlank

LEMMA Sent_Tidy ==
    ASSUME ProxyAssumption, ServiceClientsAssumption, ProxyInv, ClientsTypeOK, TidyInv,
           NEW c \in ProxyClients, NEW m, SentBy(c, m), Marks(c, m)
    PROVE  TidyInv'
<1>1. /\ m.client = c /\ m.call \in Uses[c] /\ m.call # "RELEASE" /\ m.nr # 0
      /\ c \in Living /\ told[c] = "connected" /\ Pushed(m_ConnectionHash[c], m)
      /\ UNCHANGED <<proxyVars, subscriptionVars, toClient, delayed>>
    BY DEF SentBy
<1>2. [ProxyNext]_proxyVars
    BY <1>1
<1>3. /\ \A d, p : Belongs(d, p)' <=> Belongs(d, p)
      /\ Living' = Living /\ m_peerState' = m_peerState
    BY <1>1 DEF proxyVars, Belongs, Living
<1>4. ~ IsUnconnected(c) /\ c \in uuids
    BY <1>1, ConnectedIsOpen
<1>5. CommandsStayTidy
    <2> SUFFICES ASSUME NEW p \in NetPeers, NEW x \in ToSet(toServer'[p]), x \notin ToSet(toServer[p])
                 PROVE  IsOwn(x, p)' /\ IsNumbered(x)'
        BY DEF CommandsStayTidy
    <2>1. /\ p = m_ConnectionHash[c]
          /\ Extends(toServer'[p], toServer[p]) /\ Added(toServer'[p], toServer[p]) = {m}
        BY <1>1 DEF Pushed
    <2>2. x = m
        BY <2>1, AddedSet
    <2>3. Belongs(c, p)
        BY <1>4, <2>1 DEF Belongs
    <2> QED
        BY <1>1, <1>3, <2>2, <2>3 DEF IsOwn, IsNumbered
<1>6. AnswersStayTidy
    BY <1>1 DEF AnswersStayTidy
<1>7. DelayedStaysTidy
    BY <1>1 DEF DelayedStaysTidy
<1>8. SubscribersStayTidy
    BY <1>1 DEF SubscribersStayTidy, SubscribersAt, subscriptionVars
<1>9. MessagesBelong' /\ SubscribersBelong' /\ CommandsNumbered'
    BY <1>2, <1>5, <1>6, <1>7, <1>8, Tidied DEF TidyInv
<1>10. \A d \in ProxyClients : /\ d # c => wants'[d] = wants[d]
                               /\ IsBlank(d) => IsBlank(d)'
    <2>1. /\ wants \in [ProxyClients -> SUBSET Notifiers]
          /\ heard \in [ProxyClients -> [Notifiers -> Texts \cup {NoText}]]
        BY DEF ClientsTypeOK
    <2>2. CASE UNCHANGED heard
        BY <2>1, <2>2 DEF Marks, IsBlank
    <2>3. CASE heard' = [heard EXCEPT ![c] = [n \in Notifiers |-> NoText]]
        BY <2>1, <2>3 DEF Marks, IsBlank
    <2> QED
        BY <2>2, <2>3 DEF Marks
<1>11. \A d \in ProxyClients : ~ ReleaseConnection(d)
    BY <1>1 DEF proxyVars, ReleaseConnection, Living, ProxyInv, ProxyTypeOK
<1>12. BlankUntilConnected'
    BY <1>2, <1>4, <1>10, <1>11, BlankStays DEF TidyInv
<1>13. NothingUnread'
    BY <1>1, <1>3 DEF TidyInv, NothingUnread
<1> QED
    BY <1>9, <1>12, <1>13 DEF TidyInv

LEMMA Serve_Tidy ==
    ASSUME ProxyAssumption, ServiceClientsAssumption, ProxyInv, ClientsTypeOK, TidyInv,
           NEW p \in NetPeers, Serve(p)
    PROVE  TidyInv'
<1>1. UNCHANGED <<proxyVars, wants, heard, m_sValue>>
    BY Serve_Effects
<1>2. PICK m \in Command : Taken(p, m) /\ Resubscribed(p, m) /\ Replied(p, m) /\ Delayed(p, m)
    BY Serve_Effects
<1>3. [ProxyNext]_proxyVars
    BY <1>1
<1>4. /\ \A d, q : Belongs(d, q)' <=> Belongs(d, q)
      /\ Living' = Living /\ m_peerState' = m_peerState
    BY <1>1 DEF proxyVars, Belongs, Living
<1>5. m \in ToSet(toServer[p])
    BY <1>2, FirstOfAdvanced DEF Taken
<1>6. IsOwn(m, p) /\ IsNumbered(m)
    BY <1>5 DEF TidyInv, MessagesBelong, CommandsNumbered
<1>7. CommandsStayTidy
    <2>1. \A x \in ToSet(toServer'[p]) : x \in ToSet(toServer[p])
        BY <1>2, AdvancedSet DEF Taken
    <2> QED
        BY <1>2, <2>1 DEF Taken, CommandsStayTidy
<1>8. AnswersStayTidy
    <2>1. CASE UNCHANGED toClient
        BY <2>1 DEF AnswersStayTidy
    <2>2. ASSUME NEW text, Answered(p, m, text)
          PROVE  AnswersStayTidy
        <3> SUFFICES ASSUME NEW q \in NetPeers, NEW x \in ToSet(toClient'[q]), x \notin ToSet(toClient[q])
                     PROVE  IsOwn(x, q)'
            BY DEF AnswersStayTidy
        <3>1. q = p /\ \E a : /\ IsAnswer(a, m)
                              /\ Extends(toClient'[q], toClient[q])
                              /\ Added(toClient'[q], toClient[q]) = {a}
            BY <2>2 DEF Answered
        <3>2. IsAnswer(x, m)
            BY <3>1, AddedSet
        <3> QED
            BY <1>4, <1>6, <3>1, <3>2 DEF IsAnswer, IsOwn
    <2> QED
        BY <1>2, <2>1, <2>2 DEF Replied
<1>9. DelayedStaysTidy
    <2> SUFFICES ASSUME NEW x \in ToSet(delayed'), x \notin ToSet(delayed)
                 PROVE  IsOwn(x, x.peer)' /\ x.nr # 0 /\ x.call = "setRange"
        BY DEF DelayedStaysTidy
    <2>1. m.call = "setRange" /\ x.peer = p /\ x.client = m.client /\ x.nr = m.nr /\ x.call = m.call
        BY <1>2 DEF Delayed
    <2> QED
        BY <1>4, <1>6, <2>1 DEF IsOwn, IsNumbered
<1>10. SubscribersStayTidy
    BY <1>2, <1>4, <1>6 DEF SubscribersStayTidy, Resubscribed, IsOwn
<1>11. MessagesBelong' /\ SubscribersBelong' /\ CommandsNumbered'
    BY <1>3, <1>7, <1>8, <1>9, <1>10, Tidied DEF TidyInv
<1>12. BlankUntilConnected'
    BY <1>1 DEF TidyInv, BlankUntilConnected, IsUnconnected, IsBlank, Living, proxyVars
<1>13. NothingUnread'
    <2>1. \A q \in NetPeers : m_peerState[q] # "open" => toClient'[q] = toClient[q]
        BY <1>2 DEF Replied, Answered
    <2> QED
        BY <1>4, <2>1 DEF TidyInv, NothingUnread
<1> QED
    BY <1>11, <1>12, <1>13 DEF TidyInv

-----------------------------------------------------------------------------
\* What is on its way on p is expected.
LEMMA AllExpected ==
    ASSUME AnswersInv, NEW p \in NetPeers
    PROVE  /\ \A m \in ToSet(toServer[p]) : Expected(m)
           /\ \A m \in ToSet(toClient[p]) : Expected(m)
<1>1. /\ Up(p) \in Queues /\ Down(p) \in Queues
      /\ Traffic[Up(p)] = toServer[p] /\ Traffic[Down(p)] = toClient[p]
    BY TrafficAt, QueuesDiffer DEF Traffic
<1> QED
    BY <1>1 DEF AnswersInv, ToSet

\* decodeProtobuffAnswer and receiveAnswer find a text in notifications and in the
\* answers to reads, if the interface is cPCBInterface.
ReadsText(c, m) ==
    LET cmd == CmdSendEnumVal(c, m.nr)
    IN  Conversion(KindOf[c], cmd) = "string" /\ cmd \in {"getrange", "pcbinterrupt"}

LEMMA TextsAreRead ==
    ASSUME ServiceClientsAssumption, NEW c \in Living, NEW m, m.client = c, Expected(m),
           m.nr # 0 => m.call \in Uses[c]
    PROVE  ReadsText(c, m) <=> KindOf[c] = "pcb" /\ (m.nr = 0 \/ m.call = "getRange")
<1>1. /\ KindOf[c] \in InterfaceKinds /\ Uses[c] \subseteq DOMAIN Calls[KindOf[c]]
    BY DEF ServiceClientsAssumption, Living
<1>2. PICK cmd : cmd = CmdSendEnumVal(c, m.nr)
    OBVIOUS
<1>3. ReadsText(c, m) <=> Conversion(KindOf[c], cmd) = "string" /\ cmd \in {"getrange", "pcbinterrupt"}
    BY <1>2 DEF ReadsText
<1>4. CASE m.nr = 0
    <2>1. cmd = InterruptOf[KindOf[c]]
        BY <1>2, <1>4 DEF CmdSendEnumVal
    <2>2. CASE KindOf[c] = "pcb"
        <3>1. cmd = "pcbinterrupt"
            BY <2>1, <2>2 DEF InterruptOf
        <3>2. Conversion("pcb", "pcbinterrupt") = "string"
            BY DEF Conversion, PcbConversion, PcbInt, PcbDouble, PcbText, PcbOutcome
        <3> QED
            BY <1>3, <1>4, <2>2, <3>1, <3>2
    <2>3. CASE KindOf[c] # "pcb"
        <3>1. KindOf[c] \in {"sec", "dsp", "rm"}
            BY <1>1, <2>3 DEF InterfaceKinds, Calls
        <3>2. cmd \in {"dspinterrupt", "setecalcunit", "rmident"}
            BY <2>1, <3>1 DEF InterruptOf
        <3> QED
            BY <1>3, <2>3, <3>2
    <2> QED
        BY <2>2, <2>3
<1>5. CASE m.nr # 0
    <2>1. m_MsgNrCmdList[c][m.nr] = Calls[KindOf[c]][m.call]
        BY <1>5 DEF Expected
    <2>2. TableOK(Calls[KindOf[c]], KindOf[c]) /\ m.call \in DOMAIN Calls[KindOf[c]]
        BY <1>1, <1>5, NotifierCommands
    <2>3. cmd = Calls[KindOf[c]][m.call]
        BY <1>2, <1>5, <2>1, <2>2 DEF CmdSendEnumVal, TableOK
    <2>4. /\ cmd = "getrange" <=> m.call = "getRange"
          /\ cmd # "pcbinterrupt"
          /\ m.call = "getRange" => KindOf[c] = "pcb"
        BY <2>2, <2>3 DEF TableOK
    <2>5. Conversion("pcb", "getrange") = "string"
        BY DEF Conversion, PcbConversion, PcbInt, PcbDouble, PcbText
    <2> QED
        BY <1>3, <1>5, <2>4, <2>5
<1> QED
    BY <1>4, <1>5

LEMMA Receive_Effects ==
    ASSUME ServiceClientsAssumption, ClientsTypeOK, AnswersInv, MessagesBelong,
           NEW p \in NetPeers, ReceiveAnswer(p)
    PROVE  /\ m_peerState[p] = "open"
           /\ UNCHANGED <<proxyVars, subscriptionVars, toServer, delayed, wants>>
           /\ Advances(toClient'[p], toClient[p])
           /\ \A q \in NetPeers : q # p => toClient'[q] = toClient[q]
           /\ \A c \in ProxyClients, n \in Notifiers :
                IF /\ c \in Living /\ n \in wants[c] /\ KindOf[c] = "pcb"
                   /\ IsNews(toClient[p][1], c, n)
                THEN heard'[c][n] = toClient[p][1].text
                ELSE heard'[c][n] = heard[c][n]
<1> DEFINE T == Message \cup Notified
<1>1. /\ toClient \in [NetPeers -> Seq(T)] /\ toClient[p] \in Seq(T)
      /\ heard \in [ProxyClients -> [Notifiers -> Texts \cup {NoText}]]
    BY DEF ClientsTypeOK
<1> HIDE DEF T
<1>2. PICK old, new : old = toClient[p] /\ new = Tail(old)
    OBVIOUS
<1>3. /\ old # <<>> /\ toClient' = [toClient EXCEPT ![p] = new] /\ m_peerState[p] = "open"
      /\ UNCHANGED <<proxyVars, subscriptionVars, toServer, delayed, wants>>
    BY <1>2 DEF ReceiveAnswer
<1>4. Advances(new, old) /\ old[1] = Head(old) /\ Head(old) \in T
    <2>1. old \in Seq(T)
        BY <1>1, <1>2
    <2> QED
        BY <1>2, <1>3, <2>1, FirstGone
<1>5. toClient'[p] = new /\ \A q \in NetPeers : q # p => toClient'[q] = toClient[q]
    BY <1>1, <1>3
<1>6. PICK m \in T : m = toClient[p][1] /\ m = Head(toClient[p])
    BY <1>2, <1>4
<1>7. m.client \in ProxyClients /\ m.notifier \in Notifiers
    BY DEF T, Message, Notified, ServiceClientsAssumption
<1>8. PICK d \in ProxyClients, k \in Notifiers : d = m.client /\ k = m.notifier
    BY <1>7
<1>9. IF d \notin Living THEN UNCHANGED heard
      ELSE heard' = IF ReadsText(d, m) /\ k \in wants[d]
                    THEN [heard EXCEPT ![d][k] = m.text] ELSE heard
    BY <1>6, <1>8 DEF ReceiveAnswer, ReadsText
<1>10. m \in ToSet(toClient[p])
    BY <1>2, <1>4, <1>6, FirstOfAdvanced
<1>11. Expected(m) /\ IsOwn(m, p)
    BY <1>10, AllExpected DEF MessagesBelong
<1>12. d \in Living => (ReadsText(d, m) <=> KindOf[d] = "pcb" /\ (m.nr = 0 \/ m.call = "getRange"))
    BY <1>8, <1>11, TextsAreRead DEF IsOwn
<1>13. ASSUME NEW c \in ProxyClients, NEW n \in Notifiers
       PROVE  IF c \in Living /\ n \in wants[c] /\ KindOf[c] = "pcb" /\ IsNews(m, c, n)
              THEN heard'[c][n] = m.text
              ELSE heard'[c][n] = heard[c][n]
    <2>1. CASE d \in Living /\ ReadsText(d, m) /\ k \in wants[d]
        <3>1. heard' = [heard EXCEPT ![d][k] = m.text]
            BY <1>9, <2>1
        <3>2. heard'[c][n] = IF c = d /\ n = k THEN m.text ELSE heard[c][n]
            BY <1>1, <3>1
        <3> QED
            BY <1>8, <1>12, <2>1, <3>2 DEF IsNews
    <2>2. CASE ~ (d \in Living /\ ReadsText(d, m) /\ k \in wants[d])
        <3>1. UNCHANGED heard
            BY <1>9, <2>2
        <3> QED
            BY <1>8, <1>12, <2>2, <3>1 DEF IsNews
    <2> QED
        BY <2>1, <2>2
<1> QED
    BY <1>2, <1>3, <1>4, <1>5, <1>6, <1>13

LEMMA Receive_Tidy ==
    ASSUME ProxyAssumption, ServiceClientsAssumption, ProxyInv, ClientsTypeOK, AnswersInv, TidyInv,
           NEW p \in NetPeers, ReceiveAnswer(p)
    PROVE  TidyInv'
<1>1. /\ m_peerState[p] = "open"
      /\ UNCHANGED <<proxyVars, subscriptionVars, toServer, delayed, wants>>
      /\ Advances(toClient'[p], toClient[p])
      /\ \A q \in NetPeers : q # p => toClient'[q] = toClient[q]
      /\ \A c \in ProxyClients, n \in Notifiers :
            \/ c \in Living /\ n \in wants[c] /\ KindOf[c] = "pcb"
            \/ heard'[c][n] = heard[c][n]
    BY Receive_Effects DEF TidyInv
<1>2. [ProxyNext]_proxyVars
    BY <1>1
<1>3. AnswersStayTidy
    <2>1. \A x \in ToSet(toClient'[p]) : x \in ToSet(toClient[p])
        BY <1>1, AdvancedSet
    <2> QED
        BY <1>1, <2>1 DEF AnswersStayTidy
<1>4. CommandsStayTidy /\ DelayedStaysTidy
    BY <1>1 DEF CommandsStayTidy, DelayedStaysTidy
<1>5. SubscribersStayTidy
    BY <1>1 DEF SubscribersStayTidy, SubscribersAt, subscriptionVars
<1>6. MessagesBelong' /\ SubscribersBelong' /\ CommandsNumbered'
    BY <1>2, <1>3, <1>4, <1>5, Tidied DEF TidyInv
<1>7. BlankUntilConnected'
    <2>1. /\ \A c : IsUnconnected(c)' <=> IsUnconnected(c)
          /\ wants' = wants
        BY <1>1 DEF IsUnconnected, Living, proxyVars
    <2>2. \A c \in ProxyClients : wants[c] = {} \/ KindOf[c] # "pcb" => (IsBlank(c) => IsBlank(c)')
        BY <1>1 DEF IsBlank
    <2> QED
        BY <2>1, <2>2 DEF TidyInv, BlankUntilConnected
<1>8. NothingUnread'
    BY <1>1 DEF TidyInv, NothingUnread, proxyVars
<1> QED
    BY <1>6, <1>7, <1>8 DEF TidyInv

\* Steps that put notifications, and the answer of a delayed command, to the clients.
LEMMA Told_Tidy ==
    ASSUME ProxyAssumption, ServiceClientsAssumption, ProxyInv, ClientsTypeOK, TidyInv,
           NEW n \in Notifiers, NEW text, NEW answers, Told(n, text, answers),
           \A p \in NetPeers : \A a \in ToSet(answers[p]) : IsOwn(a, p),
           \A m \in ToSet(delayed') : m \in ToSet(delayed),
           UNCHANGED <<proxyVars, m_subscriberVector, toServer, wants, heard>>
    PROVE  TidyInv'
<1>1. [ProxyNext]_proxyVars
    OBVIOUS
<1>2. \A c, p : Belongs(c, p)' <=> Belongs(c, p)
    BY DEF proxyVars, Belongs, Living
<1>3. AnswersStayTidy
    <2> SUFFICES ASSUME NEW p \in NetPeers, NEW x \in ToSet(toClient'[p]), x \notin ToSet(toClient[p])
                 PROVE  IsOwn(x, p)'
        BY DEF AnswersStayTidy
    <2>1. News(toClient'[p], toClient[p], n, text, m_sValue[n], SubscribersAt(n, p), ToSet(answers[p]))
        BY DEF Told
    <2>2. Extends(toClient'[p], toClient[p])
        BY <2>1 DEF News
    <2>3. x \in Added(toClient'[p], toClient[p])
        BY <2>2, AddedSet
    <2>4. \/ x \in ToSet(answers[p])
          \/ \E c \in SubscribersAt(n, p) : IsNotification(x, c, n)
        BY <2>1, <2>3 DEF News
    <2> QED
        BY <1>2, <2>4 DEF IsOwn, IsNotification, TidyInv, SubscribersBelong
<1>4. CommandsStayTidy /\ DelayedStaysTidy
    BY DEF CommandsStayTidy, DelayedStaysTidy
<1>5. SubscribersStayTidy
    BY DEF SubscribersStayTidy, SubscribersAt
<1>6. MessagesBelong' /\ SubscribersBelong' /\ CommandsNumbered'
    BY <1>1, <1>3, <1>4, <1>5, Tidied DEF TidyInv
<1>7. BlankUntilConnected'
    BY DEF TidyInv, BlankUntilConnected, IsUnconnected, IsBlank, Living, proxyVars
<1>8. NothingUnread'
    BY DEF TidyInv, NothingUnread, proxyVars, Told
<1> QED
    BY <1>6, <1>7, <1>8 DEF TidyInv

LEMMA Notifying_Tidy ==
    ASSUME ProxyAssumption, ServiceClientsAssumption, ProxyInv, ClientsTypeOK, TidyInv,
           CmdDone \/ \E n \in Notifiers : Assign(n) \/ Trigger(n)
    PROVE  TidyInv'
<1>1. \A p \in NetPeers : ToSet(NoAnswers[p]) = {}
    BY DEF NoAnswers, ToSet
<1>2. CASE CmdDone
    <2>1. PICK m, answers :
            /\ m \in DelayedCmd
            /\ m = delayed[1] /\ Advances(delayed', delayed)
            /\ Told(m.notifier, m.text, answers)
            /\ \A p \in NetPeers : \A a \in ToSet(answers[p]) : p = m.peer /\ IsAnswer(a, m)
        BY <1>2, CmdDone_Effects
    <2>2. m \in ToSet(delayed) /\ \A x \in ToSet(delayed') : x \in ToSet(delayed)
        BY <2>1, FirstOfAdvanced, AdvancedSet
    <2>3. IsOwn(m, m.peer)
        BY <2>2 DEF TidyInv, MessagesBelong
    <2>4. \A p \in NetPeers : \A a \in ToSet(answers[p]) : IsOwn(a, p)
        BY <2>1, <2>3 DEF IsOwn, IsAnswer
    <2>5. PICK n, text : n \in Notifiers /\ n = m.notifier /\ text = m.text
        BY <2>1 DEF DelayedCmd
    <2>6. Told(n, text, answers)
        BY <2>1, <2>5
    <2>7. UNCHANGED <<proxyVars, m_subscriberVector, toServer, wants, heard>>
        BY <1>2, CmdDone_Effects
    <2> QED
        BY <2>2, <2>4, <2>5, <2>6, <2>7, Told_Tidy
<1>3. ASSUME NEW n \in Notifiers, NEW text, Told(n, text, NoAnswers),
             UNCHANGED <<proxyVars, m_subscriberVector, toServer, delayed, wants, heard>>
      PROVE  TidyInv'
    <2>1. \A p \in NetPeers : \A a \in ToSet(NoAnswers[p]) : IsOwn(a, p)
        BY <1>1
    <2>2. \A m \in ToSet(delayed') : m \in ToSet(delayed)
        BY <1>3
    <2> QED
        BY <1>3, <2>1, <2>2, Told_Tidy
<1>4. ASSUME NEW n \in Notifiers, Assign(n) PROVE TidyInv'
    BY <1>3, <1>4, Assign_Effects
<1>5. ASSUME NEW n \in Notifiers, Trigger(n) PROVE TidyInv'
    <2>1. UNCHANGED <<proxyVars, m_subscriberVector, toServer, delayed, wants, heard>>
        BY <1>5 DEF Trigger, subscriptionVars
    <2> QED
        BY <1>3, <1>5, <2>1, Trigger_Told
<1> QED
    BY <1>2, <1>4, <1>5

\* Steps of the connections, which send nothing.
LEMMA Silent_Tidy ==
    ASSUME ProxyAssumption, ProxyInv, TidyInv, [ProxyNext]_proxyVars,
           UNCHANGED <<delayed, wants, heard>>,
           \A c \in ProxyClients : ~ ReleaseConnection(c),
           \A p \in NetPeers : /\ toServer'[p] = toServer[p] \/ toServer'[p] = <<>>
                               /\ toClient'[p] = toClient[p] \/ toClient'[p] = <<>>
                               /\ m_peerState[p] = "open" => \/ m_peerState'[p] = "open"
                                                             \/ toClient'[p] = <<>>,
           \A n \in Notifiers, p \in NetPeers : SubscribersAt(n, p)' \subseteq SubscribersAt(n, p)
    PROVE  TidyInv'
<1>1. ToSet(<<>>) = {}
    BY DEF ToSet
<1>2. CommandsStayTidy /\ AnswersStayTidy
    BY <1>1 DEF CommandsStayTidy, AnswersStayTidy
<1>3. DelayedStaysTidy /\ SubscribersStayTidy
    BY DEF DelayedStaysTidy, SubscribersStayTidy
<1>4. MessagesBelong' /\ SubscribersBelong' /\ CommandsNumbered'
    BY <1>2, <1>3, Tidied DEF TidyInv
<1>5. \A c \in ProxyClients : /\ wants'[c] = wants[c]
                              /\ IsBlank(c) => IsBlank(c)'
    BY DEF IsBlank
<1>6. BlankUntilConnected'
    BY <1>5, BlankStays DEF TidyInv
<1>7. NothingUnread'
    BY DEF TidyInv, NothingUnread
<1> QED
    BY <1>4, <1>6, <1>7 DEF TidyInv

LEMMA Connecting_Tidy ==
    ASSUME ProxyAssumption, ProxyInv, TidyInv, NEW c \in ProxyClients, Connect(c) \/ StartConnection(c)
    PROVE  TidyInv'
<1>1. [ProxyNext]_proxyVars
    BY DEF Connect, StartConnection, ProxyNext
<1>2. UNCHANGED <<subscriptionVars, toServer, toClient, delayed, wants, heard>>
    BY DEF Connect, StartConnection, clientVars
<1>3. \A d \in ProxyClients : ~ ReleaseConnection(d)
    <2>1. CASE Connect(c)
        <3>1. c \notin uuids /\ uuids' = uuids \cup {c}
            BY <2>1 DEF Connect, GetConnectionSmart
        <3> QED
            BY <3>1 DEF ReleaseConnection
    <2>2. CASE StartConnection(c)
        <3>1. c \notin startRequested /\ startRequested' = startRequested \cup {c}
            BY <2>2 DEF StartConnection, StartConnectionSmart
        <3> QED
            BY <3>1 DEF ReleaseConnection
    <2> QED
        BY <2>1, <2>2
<1>4. \A p \in NetPeers : m_peerState[p] = "open" => m_peerState'[p] = "open"
    <2>1. CASE Connect(c)
        <3>1. \/ UNCHANGED m_peerState
              \/ NewPeer # NoPeer /\ m_peerState' = [m_peerState EXCEPT ![NewPeer] = "idle"]
            BY <2>1 DEF Connect, GetConnectionSmart
        <3>2. NewPeer # NoPeer => m_peerState[NewPeer] = "unused"
            BY NewPeer_Unused
        <3>3. PICK new : new = NewPeer
            OBVIOUS
        <3> QED
            BY <3>1, <3>2, <3>3 DEF ProxyInv, ProxyTypeOK
    <2>2. CASE StartConnection(c)
        <3>1. PICK q : m_peerState' = [m_peerState EXCEPT ![q] = IF @ = "idle" THEN "connecting" ELSE @]
            BY <2>2 DEF StartConnection, StartConnectionSmart
        <3> QED
            BY <3>1 DEF ProxyInv, ProxyTypeOK
    <2> QED
        BY <2>1, <2>2
<1>5. \A n \in Notifiers, p \in NetPeers : SubscribersAt(n, p)' \subseteq SubscribersAt(n, p)
    BY <1>2 DEF subscriptionVars, SubscribersAt
<1> QED
    BY <1>1, <1>2, <1>3, <1>4, <1>5, Silent_Tidy

LEMMA Connection_Tidy ==
    ASSUME ProxyAssumption, ClientsTypeOK, ProxyInv, TidyInv, NEW p \in NetPeers, Connection(p)
    PROVE  TidyInv'
<1>1. [ProxyNext]_proxyVars
    BY DEF Connection, Establish, Refuse, LoseConnection, DeleteNetPeer,
           NotifyPeerConnectionClosed, ProxyNext
<1>2. UNCHANGED <<delayed, wants, heard, m_ConnectionHash>>
    BY DEF Connection, Establish, Refuse, LoseConnection, DeleteNetPeer,
           NotifyPeerConnectionClosed, clientVars, Established, Refused, ConnectionClosed,
           DeletePeer, ServerLosesPeer
<1>3. \A d \in ProxyClients : ~ ReleaseConnection(d)
    BY <1>2 DEF ReleaseConnection, Living, ProxyInv, ProxyTypeOK
<1>4. /\ m_peerState \in [NetPeers -> PeerStates] /\ DOMAIN toServer = NetPeers
      /\ DOMAIN toClient = NetPeers
    BY DEF ProxyInv, ProxyTypeOK, ClientsTypeOK
<1>5. CASE Establish(p) \/ Refuse(p)
    <2>1. /\ UNCHANGED <<subscriptionVars, toServer, toClient>>
          /\ m_peerState[p] = "connecting"
          /\ \E s : m_peerState' = [m_peerState EXCEPT ![p] = s]
        BY <1>5 DEF Establish, Refuse, Established, Refused, clientVars
    <2>2. \A q \in NetPeers : m_peerState[q] = "open" => m_peerState'[q] = "open"
        BY <1>4, <2>1
    <2>3. \A n \in Notifiers, q \in NetPeers : SubscribersAt(n, q)' \subseteq SubscribersAt(n, q)
        BY <2>1 DEF subscriptionVars, SubscribersAt
    <2> QED
        BY <1>1, <1>2, <1>3, <2>1, <2>2, <2>3, Silent_Tidy
<1>6. CASE LoseConnection(p) \/ DeleteNetPeer(p)
    <2>1. /\ UNCHANGED <<subscriptionVars, toServer>>
          /\ toClient' = [toClient EXCEPT ![p] = <<>>]
          /\ \E s : m_peerState' = [m_peerState EXCEPT ![p] = s]
        BY <1>6 DEF LoseConnection, DeleteNetPeer, ConnectionClosed, DeletePeer, Unread
    <2>2. \A q \in NetPeers : /\ toClient'[q] = toClient[q] \/ toClient'[q] = <<>>
                              /\ m_peerState[q] = "open" => \/ m_peerState'[q] = "open"
                                                            \/ toClient'[q] = <<>>
        BY <1>4, <2>1
    <2>3. \A n \in Notifiers, q \in NetPeers : SubscribersAt(n, q)' \subseteq SubscribersAt(n, q)
        BY <2>1 DEF subscriptionVars, SubscribersAt
    <2> QED
        BY <1>1, <1>2, <1>3, <2>1, <2>2, <2>3, Silent_Tidy
<1>7. CASE NotifyPeerConnectionClosed(p)
    <2>1. /\ UNCHANGED <<toClient, m_peerState>> /\ RemoveAllSubscribers(p, ProxyClients)
          /\ toServer' = [toServer EXCEPT ![p] = <<>>]
        BY <1>7 DEF NotifyPeerConnectionClosed, ServerLosesPeer
    <2>2. \A q \in NetPeers : toServer'[q] = toServer[q] \/ toServer'[q] = <<>>
        BY <1>4, <2>1
    <2>3. \A n \in Notifiers, q \in NetPeers : SubscribersAt(n, q)' \subseteq SubscribersAt(n, q)
        <3>1. SubscriptionTypeOK
            BY DEF ClientsTypeOK
        <3>2. PICK cs : cs = ProxyClients
            OBVIOUS
        <3>3. RemoveAllSubscribers(p, cs)
            BY <2>1, <3>2
        <3>4. \A n \in Notifiers, q \in NetPeers : SubscribersAt(n, q)' =
                IF q = p THEN SubscribersAt(n, q) \ cs ELSE SubscribersAt(n, q)
            BY <3>1, <3>3, SubscribersRemoved
        <3> QED
            BY <3>4
    <2> QED
        BY <1>1, <1>2, <1>3, <2>1, <2>2, <2>3, Silent_Tidy
<1> QED
    BY <1>5, <1>6, <1>7 DEF Connection

\* The client goes, and with it what its module wants; RELEASE is on its way.
LEMMA Release_Effects ==
    ASSUME ServiceClientsAssumption, ClientsTypeOK, ProxyInv, NEW c \in ProxyClients, Release(c)
    PROVE  /\ ReleaseConnection(c) /\ c \in Living /\ c \notin Living' /\ c \in uuids'
           /\ UNCHANGED <<subscriptionVars, toClient, delayed>>
           /\ \E m \in Command : /\ m.client = c /\ m.nr = 0 /\ m.call = "RELEASE"
                                 /\ Pushed(m_ConnectionHash[c], m)
           /\ wants'[c] = {} /\ IsBlank(c)'
           /\ \A d \in ProxyClients : d # c => wants'[d] = wants[d] /\ heard'[d] = heard[d]
<1> DEFINE record == [client |-> c, nr |-> 0, call |-> "RELEASE",
                      notifier |-> CHOOSE n \in Notifiers : TRUE, text |-> NoText]
<1>1. /\ ReleaseConnection(c) /\ ServerGets(m_ConnectionHash[c], record)
      /\ wants' = [wants EXCEPT ![c] = {}]
      /\ heard' = [heard EXCEPT ![c] = [n \in Notifiers |-> NoText]]
      /\ UNCHANGED <<subscriptionVars, toClient, delayed>>
    BY DEF Release
<1>2. PICK m \in Command : m = record
    BY ReleaseMessage
<1>3. c \in Living /\ c \notin Living' /\ c \in uuids'
    BY <1>1 DEF ReleaseConnection, Living, ProxyInv, ProxyTypeOK, AbsentClientsAreBlank
<1>4. m.client = c /\ m.nr = 0 /\ m.call = "RELEASE"
    BY <1>2
<1>5. PICK p \in NetPeers : p = m_ConnectionHash[c]
    BY <1>3, PeerOfLiving DEF ProxyInv
<1>6. ServerGets(p, m)
    BY <1>1, <1>2, <1>5
<1>7. Pushed(p, m)
    BY <1>6, ServerGets_Pushed
<1>8. /\ wants \in [ProxyClients -> SUBSET Notifiers]
      /\ heard \in [ProxyClients -> [Notifiers -> Texts \cup {NoText}]]
    BY DEF ClientsTypeOK
<1>9. /\ wants'[c] = {} /\ heard'[c] = [n \in Notifiers |-> NoText]
      /\ \A d \in ProxyClients : d # c => wants'[d] = wants[d] /\ heard'[d] = heard[d]
    BY <1>1, <1>8
<1>10. IsBlank(c)'
    BY <1>9 DEF IsBlank
<1> QED
    BY <1>1, <1>3, <1>4, <1>5, <1>7, <1>9, <1>10

LEMMA Release_Tidy ==
    ASSUME ProxyAssumption, ServiceClientsAssumption, ProxyInv, ClientsTypeOK, TidyInv,
           NEW c \in ProxyClients, Release(c)
    PROVE  TidyInv'
<1>1. /\ ReleaseConnection(c) /\ c \in Living /\ c \notin Living' /\ c \in uuids'
      /\ UNCHANGED <<subscriptionVars, toClient, delayed>>
      /\ wants'[c] = {} /\ IsBlank(c)'
      /\ \A d \in ProxyClients : d # c => wants'[d] = wants[d] /\ heard'[d] = heard[d]
    BY Release_Effects
<1>2. PICK m \in Command : /\ m.client = c /\ m.nr = 0 /\ m.call = "RELEASE"
                           /\ Pushed(m_ConnectionHash[c], m)
    BY Release_Effects
<1>3. [ProxyNext]_proxyVars
    BY <1>1 DEF ProxyNext
<1>4. CommandsStayTidy
    <2> SUFFICES ASSUME NEW p \in NetPeers, NEW x \in ToSet(toServer'[p]), x \notin ToSet(toServer[p])
                 PROVE  IsOwn(x, p)' /\ IsNumbered(x)'
        BY DEF CommandsStayTidy
    <2>1. Extends(toServer'[p], toServer[p]) /\ Added(toServer'[p], toServer[p]) = {m}
        BY <1>2 DEF Pushed
    <2>2. x = m
        BY <2>1, AddedSet
    <2> QED
        BY <1>1, <1>2, <2>2 DEF IsOwn, Belongs, IsNumbered
<1>5. AnswersStayTidy /\ DelayedStaysTidy
    BY <1>1 DEF AnswersStayTidy, DelayedStaysTidy
<1>6. SubscribersStayTidy
    BY <1>1 DEF SubscribersStayTidy, SubscribersAt, subscriptionVars
<1>7. MessagesBelong' /\ SubscribersBelong' /\ CommandsNumbered'
    BY <1>3, <1>4, <1>5, <1>6, Tidied DEF TidyInv
<1>8. \A d \in ProxyClients : d # c => (IsBlank(d) => IsBlank(d)')
    BY <1>1 DEF IsBlank
<1>9. \A d \in ProxyClients : ReleaseConnection(d) => d = c
    BY <1>1 DEF ReleaseConnection, Living, ProxyInv, ProxyTypeOK
<1>10. BlankUntilConnected'
    BY <1>1, <1>3, <1>8, <1>9, BlankStays DEF TidyInv
<1>11. NothingUnread'
    BY <1>1 DEF TidyInv, NothingUnread, ReleaseConnection
<1> QED
    BY <1>7, <1>10, <1>11 DEF TidyInv

LEMMA TidyInvStep ==
    ASSUME ProxyAssumption, ServiceClientsAssumption, ProxyInv, ClientsTypeOK, AnswersInv, TidyInv,
           [Next]_vars
    PROVE  TidyInv'
<1>1. ASSUME NEW c \in ProxyClients, Process(c) PROVE TidyInv'
    <2>1. CASE Connect(c) \/ StartConnection(c)
        BY <2>1, Connecting_Tidy
    <2>2. CASE Release(c)
        BY <2>2, Release_Tidy
    <2>3. CASE Asking(c)
        <3>1. PICK m : SentBy(c, m) /\ Marks(c, m)
            BY <2>3, Asking_Sends
        <3> QED
            BY <3>1, Sent_Tidy
    <2> QED
        BY <1>1, <2>1, <2>2, <2>3 DEF Process, Asking
<1>2. ASSUME NEW p \in NetPeers, Serve(p) PROVE TidyInv'
    BY <1>2, Serve_Tidy
<1>3. ASSUME NEW p \in NetPeers, ReceiveAnswer(p) PROVE TidyInv'
    BY <1>3, Receive_Tidy
<1>4. ASSUME NEW p \in NetPeers, Connection(p) PROVE TidyInv'
    BY <1>4, Connection_Tidy
<1>5. CASE CmdDone \/ \E n \in Notifiers : Assign(n) \/ Trigger(n)
    BY <1>5, Notifying_Tidy
<1>6. CASE UNCHANGED vars
    BY <1>6 DEF vars, proxyVars, subscriptionVars, clientVars, TidyInv, MessagesBelong,
                SubscribersBelong, CommandsNumbered, BlankUntilConnected, NothingUnread, IsOwn,
                Belongs, IsNumbered, IsUnconnected, IsBlank, SubscribersAt, Living
<1> QED
    BY <1>1, <1>2, <1>3, <1>4, <1>5, <1>6 DEF Next

LEMMA TidyInvInit ==
    ASSUME Init
    PROVE  TidyInv
<1>1. ToSet(<<>>) = {}
    BY DEF ToSet
<1>2. \A n \in Notifiers, p \in NetPeers : SubscribersAt(n, p) = {}
    BY DEF SubscribersAt, Init, SubscriptionInit
<1>3. \A p \in NetPeers : toServer[p] = <<>> /\ toClient[p] = <<>>
    BY DEF Init
<1>4. delayed = <<>>
    BY DEF Init
<1>5. MessagesBelong /\ SubscribersBelong /\ CommandsNumbered
    BY <1>1, <1>2, <1>3, <1>4 DEF MessagesBelong, SubscribersBelong, CommandsNumbered
<1>6. BlankUntilConnected
    BY DEF BlankUntilConnected, IsBlank, Init
<1>7. NothingUnread
    BY <1>3 DEF NothingUnread
<1> QED
    BY <1>5, <1>6, <1>7 DEF TidyInv

-----------------------------------------------------------------------------
(* Modules follow the notifiers they want.                                  *)

IsConnected(c, p) ==
    c \in Living /\ m_ConnectionHash[c] = p /\ m_peerState[p] = "open" /\ p \in serverSees

FollowsAt(c, p, n) ==
    Follows(c, n, toServer[p], toClient[p], SubscribersAt(n, p), m_sValue[n],
            wants[c], heard[c][n])

FollowingInv ==
    \A c \in ProxyClients, p \in NetPeers :
        IsConnected(c, p) => \A n \in Notifiers : FollowsAt(c, p, n)

\* Messages of others on the way to the service.
LEMMA Follows_Asks ==
    ASSUME NEW c, NEW n, NEW up, NEW down, NEW on, NEW val, NEW w, NEW h,
           Follows(c, n, up, down, on, val, w, h),
           NEW new, Extends(new, up),
           \A m \in Added(new, up) : ~ IsEnd(m, c) /\ ~ IsRegistration(m, c, n)
    PROVE  Follows(c, n, new, down, on, val, w, h)
<1>1. CASE n \in w
    BY <1>1, Followed_Asks DEF Follows
<1>2. CASE n \notin w
    BY <1>2, Unfollowed_Asks DEF Follows
<1> QED
    BY <1>1, <1>2

\* Messages on the way to the client.
LEMMA Follows_Told ==
    ASSUME NEW c, NEW n, NEW up, NEW down, NEW on, NEW val, NEW w, NEW h,
           Follows(c, n, up, down, on, val, w, h),
           NEW new, Extends(new, down), NEW text,
           \A m \in Added(new, down) :
                /\ n \in w => ~ IsEndAnswer(m, c)
                /\ n \in w => (IsNews(m, c, n) => c \in on /\ m.text \in {NoText, text})
                /\ IsNotification(m, c, n) => c \in on,
           \/ text = val
           \/ c \in on => \E m \in Added(new, down) : IsNews(m, c, n)
    PROVE  Follows(c, n, up, new, on, text, w, h)
<1>1. CASE n \in w
    <2>1. Followed(c, n, up, down, on, val, h)
        BY <1>1 DEF Follows
    <2>2. \A m \in Added(new, down) :
                /\ ~ IsEndAnswer(m, c)
                /\ IsNews(m, c, n) => c \in on /\ m.text \in {NoText, text}
        BY <1>1
    <2>3. Followed(c, n, up, new, on, text, h)
        BY <2>1, <2>2, Followed_Told
    <2> QED
        BY <1>1, <2>3 DEF Follows
<1>2. CASE n \notin w
    <2>1. Unfollowed(c, n, up, down, on, h)
        BY <1>2 DEF Follows
    <2>2. Unfollowed(c, n, up, new, on, h)
        BY <2>1, Unfollowed_Told
    <2> QED
        BY <1>2, <2>2 DEF Follows
<1> QED
    BY <1>1, <1>2

\* Nothing is there of a client that is new.
LEMMA Follows_Nothing ==
    ASSUME NEW c, NEW n, NEW up, NEW down, NEW on, NEW val,
           \A m \in ToSet(up) : m.client # c, \A m \in ToSet(down) : m.client # c, c \notin on
    PROVE  Follows(c, n, up, down, on, val, {}, NoText)
BY DEF Follows, Unfollowed, ToSet, IsNotification, IsRegistration

LEMMA SubscribedFollowers ==
    ASSUME UNCHANGED m_subscriberVector
    PROVE  \A n \in Notifiers, p \in NetPeers : SubscribersAt(n, p)' = SubscribersAt(n, p)
BY DEF SubscribersAt

-----------------------------------------------------------------------------
LEMMA Told_Following ==
    ASSUME FollowingInv, ClientsTypeOK, NEW n \in Notifiers, NEW text, NEW answers,
           Told(n, text, answers), SetText(n, text),
           \A p \in NetPeers : \A a \in ToSet(answers[p]) : a.nr # 0 /\ a.call = "setRange",
           UNCHANGED <<proxyVars, m_subscriberVector, toServer, wants, heard>>
    PROVE  FollowingInv'
<1> SUFFICES ASSUME NEW c \in ProxyClients, NEW p \in NetPeers, IsConnected(c, p)',
                    NEW k \in Notifiers
             PROVE  FollowsAt(c, p, k)'
    BY DEF FollowingInv
<1>1. IsConnected(c, p)
    BY DEF IsConnected, Living, proxyVars
<1>2. FollowsAt(c, p, k)
    BY <1>1 DEF FollowingInv
<1>3. PICK down, new, up, on, w, h, val, others :
        /\ down = toClient[p] /\ new = toClient'[p] /\ up = toServer[p]
        /\ on = SubscribersAt(k, p) /\ w = wants[c] /\ h = heard[c][k] /\ val = m_sValue[k]
        /\ others = ToSet(answers[p])
    OBVIOUS
<1>4. /\ up = toServer'[p] /\ on = SubscribersAt(k, p)' /\ w = wants'[c] /\ h = heard'[c][k]
      /\ m_sValue'[k] = IF k = n THEN text ELSE val
    <2>1. DOMAIN m_sValue = Notifiers
        BY DEF ClientsTypeOK, SubscriptionTypeOK
    <2>2. SubscribersAt(k, p)' = SubscribersAt(k, p)
        BY SubscribedFollowers
    <2> QED
        BY <1>3, <2>1, <2>2 DEF SetText
<1>5. Follows(c, k, up, down, on, val, w, h)
    BY <1>2, <1>3 DEF FollowsAt
<1>6. News(new, down, n, text, m_sValue[n], SubscribersAt(n, p), others)
    BY <1>1, <1>3 DEF Told, IsConnected
<1>7. PICK text2 : text2 = m_sValue'[k]
    OBVIOUS
<1>8. Extends(new, down)
    BY <1>6 DEF News
<1>9. \A m \in Added(new, down) :
            \/ m.nr # 0 /\ m.call = "setRange"
            \/ \E d \in SubscribersAt(n, p) : IsNotification(m, d, n) /\ m.text \in {NoText, text}
    BY <1>3, <1>6 DEF News
<1>10. ASSUME NEW m \in Added(new, down)
       PROVE  /\ ~ IsEndAnswer(m, c)
              /\ IsNews(m, c, k) => c \in on /\ m.text \in {NoText, text2}
              /\ IsNotification(m, c, k) => c \in on
    <2>1. CASE m.nr # 0 /\ m.call = "setRange"
        BY <2>1 DEF IsEndAnswer, IsEnd, IsNews, IsNotification
    <2>2. CASE \E d \in SubscribersAt(n, p) : IsNotification(m, d, n) /\ m.text \in {NoText, text}
        <3>1. PICK d \in SubscribersAt(n, p) : IsNotification(m, d, n) /\ m.text \in {NoText, text}
            BY <2>2
        <3>2. m.nr = 0 /\ m.client = d /\ m.notifier = n
            BY <3>1 DEF IsNotification
        <3>3. ~ IsEndAnswer(m, c)
            BY <3>2 DEF IsEndAnswer
        <3>4. IsNews(m, c, k) \/ IsNotification(m, c, k) => d = c /\ k = n
            BY <3>2 DEF IsNews, IsNotification
        <3> QED
            BY <1>3, <1>4, <1>7, <3>1, <3>3, <3>4
    <2> QED
        BY <1>9, <2>1, <2>2
<1>11. \/ text2 = val
       \/ c \in on => \E m \in Added(new, down) : IsNews(m, c, k)
    <2>1. CASE k = n /\ text # val
        <3>1. \A d \in on : \E m \in Added(new, down) : IsNotification(m, d, k)
            BY <1>3, <1>6, <2>1 DEF News
        <3> QED
            BY <3>1 DEF IsNotification, IsNews
    <2>2. CASE ~ (k = n /\ text # val)
        BY <1>4, <1>7, <2>2
    <2> QED
        BY <2>1, <2>2
<1>12. Follows(c, k, up, new, on, text2, w, h)
    BY <1>5, <1>8, <1>10, <1>11, Follows_Told
<1> QED
    BY <1>3, <1>4, <1>7, <1>12 DEF FollowsAt

LEMMA Notifying_Following ==
    ASSUME ServiceClientsAssumption, ClientsTypeOK, TidyInv, FollowingInv,
           CmdDone \/ \E n \in Notifiers : Assign(n) \/ Trigger(n)
    PROVE  FollowingInv'
<1>1. \A p \in NetPeers : ToSet(NoAnswers[p]) = {}
    BY DEF NoAnswers, ToSet
<1>2. CASE CmdDone
    <2>1. PICK m, answers :
            /\ m \in DelayedCmd
            /\ m = delayed[1] /\ Advances(delayed', delayed) /\ SetText(m.notifier, m.text)
            /\ Told(m.notifier, m.text, answers)
            /\ \A p \in NetPeers : \A a \in ToSet(answers[p]) : p = m.peer /\ IsAnswer(a, m)
        BY <1>2, CmdDone_Effects
    <2>2. m \in ToSet(delayed)
        BY <2>1, FirstOfAdvanced
    <2>3. m.nr # 0 /\ m.call = "setRange"
        BY <2>2 DEF TidyInv, CommandsNumbered
    <2>4. \A p \in NetPeers : \A a \in ToSet(answers[p]) : a.nr # 0 /\ a.call = "setRange"
        BY <2>1, <2>3 DEF IsAnswer
    <2>5. PICK n, text : n \in Notifiers /\ n = m.notifier /\ text = m.text
        BY <2>1 DEF DelayedCmd
    <2>6. Told(n, text, answers) /\ SetText(n, text)
        BY <2>1, <2>5
    <2>7. UNCHANGED <<proxyVars, m_subscriberVector, toServer, wants, heard>>
        BY <1>2, CmdDone_Effects
    <2> QED
        BY <2>4, <2>5, <2>6, <2>7, Told_Following
<1>3. ASSUME NEW n \in Notifiers, NEW text, Told(n, text, NoAnswers), SetText(n, text),
             UNCHANGED <<proxyVars, m_subscriberVector, toServer, delayed, wants, heard>>
      PROVE  FollowingInv'
    <2>1. \A p \in NetPeers : \A a \in ToSet(NoAnswers[p]) : a.nr # 0 /\ a.call = "setRange"
        BY <1>1
    <2> QED
        BY <1>3, <2>1, Told_Following
<1>4. ASSUME NEW n \in Notifiers, Assign(n) PROVE FollowingInv'
    BY <1>3, <1>4, Assign_Effects
<1>5. ASSUME NEW n \in Notifiers, Trigger(n) PROVE FollowingInv'
    <2>1. UNCHANGED <<proxyVars, subscriptionVars, toServer, delayed, wants, heard>>
        BY <1>5 DEF Trigger
    <2>2. SetText(n, m_sValue[n])
        BY <2>1 DEF SetText, subscriptionVars, ClientsTypeOK, SubscriptionTypeOK
    <2>3. PICK text : text = m_sValue[n]
        OBVIOUS
    <2>4. Told(n, text, NoAnswers) /\ SetText(n, text)
        BY <1>5, <2>2, <2>3, Trigger_Told
    <2>5. UNCHANGED <<proxyVars, m_subscriberVector, toServer, delayed, wants, heard>>
        BY <2>1 DEF subscriptionVars
    <2> QED
        BY <1>3, <2>4, <2>5
<1> QED
    BY <1>2, <1>4, <1>5

-----------------------------------------------------------------------------
\* A module that waits for neither has no read and no end of registrations underway.
LEMMA NotWaiting ==
    ASSUME ServiceClientsAssumption, ClientsTypeOK, AnswersInv, TidyInv, NEW c \in Living,
           ~ IsWaiting(c), NEW p \in NetPeers,
           NEW m \in ToSet(toServer[p]) \cup ToSet(toClient[p]), m.client = c, m.nr # 0
    PROVE  m.call \notin {"getRange", "unregisterNotifiers"}
<1>1. Expected(m) /\ IsOwn(m, p)
    BY AllExpected DEF TidyInv, MessagesBelong
<1>2. m.nr \in MsgNrs
    <2>1. CASE m \in ToSet(toServer[p])
        <3>1. toServer[p] \in Seq(Command) /\ m \in Command
            BY <2>1 DEF ClientsTypeOK, ToSet
        <3> QED
            BY <3>1, NumberedMessage DEF AnyMessage, Command
    <2>2. CASE m \in ToSet(toClient[p])
        <3> DEFINE T == Message \cup Notified
        <3>1. toClient[p] \in Seq(T)
            BY DEF ClientsTypeOK
        <3> HIDE DEF T
        <3>2. m \in T
            BY <2>2, <3>1 DEF ToSet
        <3>3. m \in AnyMessage
            BY <3>2 DEF T, AnyMessage
        <3> QED
            BY <3>3, NumberedMessage
    <2> QED
        BY <2>1, <2>2
<1>3. m_MsgNrCmdList[c][m.nr] = Calls[KindOf[c]][m.call]
    BY <1>1 DEF Expected
<1>4. TableOK(Calls[KindOf[c]], KindOf[c]) /\ m.call \in DOMAIN Calls[KindOf[c]]
    <2>1. KindOf[c] \in InterfaceKinds /\ Uses[c] \subseteq DOMAIN Calls[KindOf[c]]
        BY DEF ServiceClientsAssumption, Living
    <2> QED
        BY <1>1, <2>1, NotifierCommands DEF IsOwn
<1>5. m_MsgNrCmdList[c][m.nr] \notin {"getrange", "unregnotifier"}
    BY <1>2 DEF IsWaiting
<1> QED
    BY <1>3, <1>4, <1>5 DEF TableOK

LEMMA Sent_Following ==
    ASSUME ServiceClientsAssumption, ClientsTypeOK, ProxyInv, AnswersInv, TidyInv, FollowingInv,
           NEW c \in ProxyClients, NEW m, SentBy(c, m), Marks(c, m)
    PROVE  FollowingInv'
<1> SUFFICES ASSUME NEW d \in ProxyClients, NEW p \in NetPeers, IsConnected(d, p)',
                    NEW n \in Notifiers
             PROVE  FollowsAt(d, p, n)'
    BY DEF FollowingInv
<1>1. /\ m.client = c /\ m.call \in Uses[c] /\ m.call # "RELEASE" /\ m.nr # 0
      /\ c \in Living /\ Pushed(m_ConnectionHash[c], m)
      /\ UNCHANGED <<proxyVars, subscriptionVars, toClient, delayed>>
    BY DEF SentBy
<1>2. IsConnected(d, p)
    BY <1>1 DEF IsConnected, Living, proxyVars
<1>3. FollowsAt(d, p, n)
    BY <1>2 DEF FollowingInv
<1>4. PICK up, new, down, on, w, h, val :
        /\ down = toClient[p] /\ new = toServer'[p] /\ up = toServer[p]
        /\ on = SubscribersAt(n, p) /\ w = wants[d] /\ h = heard[d][n] /\ val = m_sValue[n]
    OBVIOUS
<1>5. down = toClient'[p] /\ on = SubscribersAt(n, p)' /\ val = m_sValue'[n]
    BY <1>1, <1>4, SubscribedFollowers DEF subscriptionVars
<1>6. Follows(d, n, up, down, on, val, w, h)
    BY <1>3, <1>4 DEF FollowsAt
<1>7. SUFFICES Follows(d, n, new, down, on, val, wants'[d], heard'[d][n])
    BY <1>4, <1>5 DEF FollowsAt
<1>8. /\ wants \in [ProxyClients -> SUBSET Notifiers]
      /\ heard \in [ProxyClients -> [Notifiers -> Texts \cup {NoText}]]
    BY DEF ClientsTypeOK
<1>9. CASE m_ConnectionHash[c] # p
    <2>1. new = up
        BY <1>1, <1>4, <1>9 DEF Pushed
    <2>2. d # c
        BY <1>2, <1>9 DEF IsConnected
    <2>3. wants'[d] = w /\ heard'[d][n] = h
        BY <1>4, <1>8, <2>2 DEF Marks
    <2> QED
        BY <1>6, <2>1, <2>3
<1>10. CASE m_ConnectionHash[c] = p
    <2>1. Extends(new, up) /\ Added(new, up) = {m}
        BY <1>1, <1>2, <1>4, <1>10 DEF Pushed, IsConnected
    <2>2. ASSUME ~ IsEnd(m, d), ~ IsRegistration(m, d, n)
          PROVE  Follows(d, n, new, down, on, val, w, h)
        <3>1. \A x \in Added(new, up) : ~ IsEnd(x, d) /\ ~ IsRegistration(x, d, n)
            BY <2>1, <2>2
        <3> QED
            BY <1>6, <2>1, <3>1, Follows_Asks
    <2>3. CASE d # c
        <3>1. wants'[d] = w /\ heard'[d][n] = h
            BY <1>4, <1>8, <2>3 DEF Marks
        <3>2. ~ IsEnd(m, d) /\ ~ IsRegistration(m, d, n)
            BY <1>1, <2>3 DEF IsEnd, IsRegistration
        <3> QED
            BY <2>2, <3>1, <3>2
    <2>4. CASE d = c /\ m.call \notin {"registerNotifier", "unregisterNotifiers"}
        <3>1. UNCHANGED <<wants, heard>>
            BY <2>4 DEF Marks
        <3>2. ~ IsEnd(m, d) /\ ~ IsRegistration(m, d, n)
            BY <2>4 DEF IsEnd, IsRegistration
        <3> QED
            BY <1>4, <2>2, <3>1, <3>2
    <2>5. CASE d = c /\ m.call = "registerNotifier"
        <3>1. /\ m.notifier \notin w /\ ~ IsWaiting(c)
              /\ wants'[d] = w \cup {m.notifier} /\ heard'[d][n] = h
            BY <1>4, <1>8, <2>5 DEF Marks
        <3>2. ~ IsEnd(m, d)
            BY <2>5 DEF IsEnd
        <3>3. CASE n # m.notifier
            <4>1. ~ IsRegistration(m, d, n)
                BY <3>3 DEF IsRegistration
            <4>2. Follows(d, n, new, down, on, val, w, h)
                BY <2>2, <3>2, <4>1
            <4> QED
                BY <3>1, <3>3, <4>2 DEF Follows
        <3>4. CASE n = m.notifier
            <4>1. Unfollowed(d, n, up, down, on, h)
                BY <1>6, <3>1, <3>4 DEF Follows
            <4>2. IsRegistration(m, d, n)
                BY <1>1, <2>5, <3>4 DEF IsRegistration
            <4>3. ASSUME NEW x \in ToSet(up)
                  PROVE  ~ IsEnd(x, d) /\ ~ IsRead(x, d, n)
                <5>1. x.client = d => x.nr # 0
                    BY <1>1, <1>4, <2>5 DEF TidyInv, CommandsNumbered, IsNumbered
                <5> QED
                    BY <1>1, <1>4, <2>5, <3>1, <5>1, NotWaiting DEF IsEnd, IsRead
            <4>4. ASSUME NEW x \in ToSet(down)
                  PROVE  /\ ~ IsEndAnswer(x, d)
                         /\ IsNews(x, d, n) => IsNotification(x, d, n)
                <5>1. x.client = d /\ x.nr # 0 => x.call \notin {"getRange", "unregisterNotifiers"}
                    BY <1>1, <1>4, <2>5, <3>1, NotWaiting
                <5> QED
                    BY <5>1 DEF IsEndAnswer, IsEnd, IsNews, IsNotification
            <4>5. \A i \in DOMAIN up : ~ IsEnd(up[i], d) /\ ~ IsRead(up[i], d, n)
                BY <4>3 DEF ToSet
            <4>6. \A i \in DOMAIN down : /\ ~ IsEndAnswer(down[i], d)
                                         /\ IsNews(down[i], d, n) => IsNotification(down[i], d, n)
                BY <4>4 DEF ToSet
            <4>7. Followed(d, n, new, down, on, val, h)
                BY <2>1, <4>1, <4>2, <4>5, <4>6, Unfollowed_Registers
            <4> QED
                BY <3>1, <3>4, <4>7 DEF Follows
        <3> QED
            BY <3>3, <3>4
    <2>6. CASE d = c /\ m.call = "unregisterNotifiers"
        <3>1. wants'[d] = {} /\ heard'[d][n] = NoText
            BY <1>8, <2>6 DEF Marks
        <3>2. PICK h2 : h2 = heard'[d][n]
            OBVIOUS
        <3>3. IsEnd(m, d)
            BY <1>1, <2>6 DEF IsEnd
        <3>4. Unfollowed(d, n, new, down, on, h2)
            BY <2>1, <3>1, <3>2, <3>3, Unregistered
        <3> QED
            BY <3>1, <3>2, <3>4 DEF Follows
    <2> QED
        BY <2>3, <2>4, <2>5, <2>6
<1> QED
    BY <1>9, <1>10

\* The service has taken the first message, up[1], and answered it.
LEMMA Follows_Served ==
    ASSUME NEW c, NEW n, NEW up, NEW down, NEW on, NEW val, NEW w, NEW h,
           Follows(c, n, up, down, on, val, w, h),
           NEW up2, Advances(up2, up), NEW down2, Extends(down2, down), NEW on2,
           NEW m, m = up[1],
           \A a \in Added(down2, down) : /\ IsAnswer(a, m) /\ a.nr # 0
                                         /\ a.call = "getRange" /\ a.notifier = n => a.text = val,
           IsEnd(m, c) => c \notin on2 /\ \E a : Added(down2, down) = {a},
           ~ IsEnd(m, c) => (c \in on2 <=> c \in on \/ IsRegistration(m, c, n))
    PROVE  Follows(c, n, up2, down2, on2, val, w, h)
<1>1. CASE IsEnd(m, c)
    <2>1. n \notin w
        <3> SUFFICES ASSUME n \in w PROVE FALSE
            OBVIOUS
        <3>1. Followed(c, n, up, down, on, val, h)
            BY DEF Follows
        <3>2. 1 \in DOMAIN up
            BY DEF Advances
        <3> QED
            BY <1>1, <3>1, <3>2 DEF Followed
    <2>2. Unfollowed(c, n, up, down, on, h)
        BY <2>1 DEF Follows
    <2>3. PICK a : Added(down2, down) = {a}
        BY <1>1
    <2>4. IsEndAnswer(a, c)
        BY <1>1, <2>3 DEF IsEndAnswer, IsEnd, IsAnswer
    <2>5. Unfollowed(c, n, up2, down2, on2, h)
        BY <1>1, <2>2, <2>3, <2>4, Unfollowed_Ended
    <2> QED
        BY <2>1, <2>5 DEF Follows
<1>2. CASE ~ IsEnd(m, c)
    <2>1. c \in on2 <=> c \in on \/ IsRegistration(up[1], c, n)
        BY <1>2
    <2>2. Follows(c, n, up2, down, on2, val, w, h) /\ (n \in w /\ IsRead(m, c, n) => c \in on2)
        <3>1. CASE n \in w
            <4>1. Followed(c, n, up, down, on, val, h)
                BY <3>1 DEF Follows
            <4>2. /\ Followed(c, n, up2, down, on2, val, h)
                  /\ IsRead(up[1], c, n) => c \in on
                BY <2>1, <4>1, Followed_Served
            <4> QED
                BY <2>1, <3>1, <4>2 DEF Follows
        <3>2. CASE n \notin w
            <4>1. Unfollowed(c, n, up, down, on, h)
                BY <3>2 DEF Follows
            <4>2. Unfollowed(c, n, up2, down, on2, h)
                BY <1>2, <2>1, <4>1, Unfollowed_Served
            <4> QED
                BY <3>2, <4>2 DEF Follows
        <3> QED
            BY <3>1, <3>2
    <2>3. ASSUME NEW a \in Added(down2, down)
          PROVE  /\ ~ IsEndAnswer(a, c)
                 /\ n \in w => (IsNews(a, c, n) => c \in on2 /\ a.text \in {NoText, val})
                 /\ ~ IsNotification(a, c, n)
        <3>1. /\ IsAnswer(a, m) /\ a.nr # 0
              /\ a.call = "getRange" /\ a.notifier = n => a.text = val
            OBVIOUS
        <3>2. ~ IsEndAnswer(a, c)
            BY <1>2, <3>1 DEF IsEndAnswer, IsEnd, IsAnswer
        <3>3. IsNews(a, c, n) => IsRead(m, c, n) /\ a.text = val
            BY <3>1 DEF IsNews, IsRead, IsAnswer
        <3> QED
            BY <2>2, <3>1, <3>2, <3>3 DEF IsNotification
    <2> QED
        BY <2>2, <2>3, Follows_Told
<1> QED
    BY <1>1, <1>2

LEMMA Serve_Following ==
    ASSUME ServiceClientsAssumption, ClientsTypeOK, ProxyInv, TidyInv, FollowingInv,
           NEW s \in NetPeers, Serve(s)
    PROVE  FollowingInv'
<1> SUFFICES ASSUME NEW c \in ProxyClients, NEW p \in NetPeers, IsConnected(c, p)',
                    NEW n \in Notifiers
             PROVE  FollowsAt(c, p, n)'
    BY DEF FollowingInv
<1>1. UNCHANGED <<proxyVars, wants, heard, m_sValue>>
    BY Serve_Effects
<1>2. PICK m \in Command : Taken(s, m) /\ Resubscribed(s, m) /\ Replied(s, m) /\ Delayed(s, m)
    BY Serve_Effects
<1>3. IsConnected(c, p)
    BY <1>1 DEF IsConnected, Living, proxyVars
<1>4. FollowsAt(c, p, n)
    BY <1>3 DEF FollowingInv
<1>5. PICK up, up2, down, down2, on, on2, w, h, val :
        /\ up = toServer[p] /\ up2 = toServer'[p] /\ down = toClient[p] /\ down2 = toClient'[p]
        /\ on = SubscribersAt(n, p) /\ on2 = SubscribersAt(n, p)'
        /\ w = wants[c] /\ h = heard[c][n] /\ val = m_sValue[n]
    OBVIOUS
<1>6. Follows(c, n, up, down, on, val, w, h)
    BY <1>4, <1>5 DEF FollowsAt
<1>7. SUFFICES Follows(c, n, up2, down2, on2, val, w, h)
    BY <1>1, <1>5 DEF FollowsAt
<1>8. CASE p # s
    <2>1. up2 = up /\ on2 = on
        BY <1>2, <1>5, <1>8 DEF Taken, Resubscribed
    <2>2. down2 = down
        BY <1>2, <1>5, <1>8 DEF Replied, Answered
    <2> QED
        BY <1>6, <2>1, <2>2
<1>9. CASE p = s
    <2>1. m = up[1] /\ Advances(up2, up)
        BY <1>2, <1>5, <1>9 DEF Taken
    <2>2. m \in ToSet(toServer[p])
        BY <1>5, <2>1, FirstOfAdvanced
    <2>3. IF m.call = "RELEASE" THEN m.client \notin Living ELSE m.nr # 0
        BY <2>2 DEF TidyInv, CommandsNumbered, IsNumbered
    <2>4. c \in Living /\ m_peerState[p] = "open"
        BY <1>3 DEF IsConnected
    <2>5. /\ Extends(down2, down)
          /\ \A a \in Added(down2, down) : /\ IsAnswer(a, m) /\ a.nr # 0
                                           /\ a.call = "getRange" /\ a.notifier = n => a.text = val
          /\ IsEnd(m, c) => \E a : Added(down2, down) = {a}
        <3>1. CASE m.call \in {"RELEASE", "setRange"}
            <4>1. down2 = down
                BY <1>2, <1>5, <3>1 DEF Replied
            <4>2. toClient[p] \in Seq(Message \cup Notified)
                BY DEF ClientsTypeOK
            <4>3. Extends(down, down) /\ Added(down, down) = {}
                BY <1>5, <4>2, NothingAdded
            <4> QED
                BY <3>1, <4>1, <4>3 DEF IsEnd
        <3>2. CASE m.call \notin {"RELEASE", "setRange"}
            <4>1. PICK text : /\ Answered(s, m, text)
                              /\ m.call = "getRange" => text = m_sValue[m.notifier]
                BY <1>2, <3>2 DEF Replied
            <4>2. PICK a : /\ IsAnswer(a, m) /\ a.text = text
                           /\ Extends(down2, down) /\ Added(down2, down) = {a}
                BY <1>5, <1>9, <2>4, <4>1 DEF Answered
            <4>3. a.nr # 0
                BY <2>3, <3>2, <4>2 DEF IsAnswer
            <4> QED
                BY <1>5, <4>1, <4>2, <4>3 DEF IsAnswer
        <3> QED
            BY <3>1, <3>2
    <2>6. /\ IsEnd(m, c) => c \notin on2
          /\ ~ IsEnd(m, c) => (c \in on2 <=> c \in on \/ IsRegistration(m, c, n))
        <3>1. on2 = IF m.call \in {"RELEASE", "unregisterNotifiers"} THEN on \ {m.client}
                    ELSE IF n = m.notifier /\ m.call = "registerNotifier" THEN on \cup {m.client}
                    ELSE on
            BY <1>2, <1>5, <1>9 DEF Resubscribed
        <3> QED
            BY <2>3, <2>4, <3>1 DEF IsEnd, IsRegistration
    <2> QED
        BY <1>6, <2>1, <2>5, <2>6, Follows_Served
<1> QED
    BY <1>8, <1>9

LEMMA Receive_Following ==
    ASSUME ServiceClientsAssumption, ClientsTypeOK, ProxyInv, AnswersInv, TidyInv, FollowingInv,
           NEW s \in NetPeers, ReceiveAnswer(s)
    PROVE  FollowingInv'
<1> SUFFICES ASSUME NEW c \in ProxyClients, NEW p \in NetPeers, IsConnected(c, p)',
                    NEW n \in Notifiers
             PROVE  FollowsAt(c, p, n)'
    BY DEF FollowingInv
<1>1. /\ UNCHANGED <<proxyVars, subscriptionVars, toServer, delayed, wants>>
      /\ Advances(toClient'[s], toClient[s])
      /\ \A q \in NetPeers : q # s => toClient'[q] = toClient[q]
      /\ IF /\ c \in Living /\ n \in wants[c] /\ KindOf[c] = "pcb"
            /\ IsNews(toClient[s][1], c, n)
         THEN heard'[c][n] = toClient[s][1].text
         ELSE heard'[c][n] = heard[c][n]
    BY Receive_Effects DEF TidyInv
<1>2. IsConnected(c, p)
    BY <1>1 DEF IsConnected, Living, proxyVars
<1>3. FollowsAt(c, p, n)
    BY <1>2 DEF FollowingInv
<1>4. PICK up, down, down2, on, w, h, h2, val :
        /\ up = toServer[p] /\ down = toClient[p] /\ down2 = toClient'[p]
        /\ on = SubscribersAt(n, p) /\ w = wants[c] /\ h = heard[c][n] /\ h2 = heard'[c][n]
        /\ val = m_sValue[n]
    OBVIOUS
<1>5. /\ up = toServer'[p] /\ on = SubscribersAt(n, p)' /\ w = wants'[c] /\ val = m_sValue'[n]
    BY <1>1, <1>4, SubscribedFollowers DEF subscriptionVars
<1>6. Follows(c, n, up, down, on, val, w, h)
    BY <1>3, <1>4 DEF FollowsAt
<1>7. SUFFICES Follows(c, n, up, down2, on, val, w, h2)
    BY <1>4, <1>5 DEF FollowsAt
<1>8. CASE p # s
    <2>1. toClient[s][1] \in ToSet(toClient[s])
        BY <1>1, FirstOfAdvanced
    <2>2. Belongs(toClient[s][1].client, s)
        BY <2>1 DEF TidyInv, MessagesBelong, IsOwn
    <2>3. ~ IsNews(toClient[s][1], c, n)
        BY <1>2, <1>8, <2>2 DEF IsNews, Belongs, IsConnected
    <2>4. h2 = h /\ down2 = down
        BY <1>1, <1>4, <1>8, <2>3
    <2> QED
        BY <1>6, <2>4
<1>9. CASE p = s
    <2>1. Advances(down2, down)
        BY <1>1, <1>4, <1>9
    <2>2. CASE n \in w
        <3>1. Followed(c, n, up, down, on, val, h)
            BY <1>6, <2>2 DEF Follows
        <3>2. IF IsNews(down[1], c, n) THEN h2 \in {down[1].text, NoText} ELSE h2 = h
            <4>1. c \in Living
                BY <1>2 DEF IsConnected
            <4>2. KindOf[c] # "pcb" => h = NoText
                BY <1>4 DEF TidyInv, BlankUntilConnected, IsBlank
            <4> QED
                BY <1>1, <1>4, <1>9, <2>2, <4>1, <4>2
        <3>3. Followed(c, n, up, down2, on, val, h2)
            BY <2>1, <3>1, <3>2, Followed_Received
        <3> QED
            BY <2>2, <3>3 DEF Follows
    <2>3. CASE n \notin w
        <3>1. Unfollowed(c, n, up, down, on, h)
            BY <1>6, <2>3 DEF Follows
        <3>2. h2 = h
            BY <1>1, <1>4, <2>3
        <3>3. Unfollowed(c, n, up, down2, on, h)
            BY <2>1, <3>1, Unfollowed_Received
        <3> QED
            BY <2>3, <3>2, <3>3 DEF Follows
    <2> QED
        BY <2>2, <2>3
<1> QED
    BY <1>8, <1>9

LEMMA Release_Following ==
    ASSUME ServiceClientsAssumption, ClientsTypeOK, ProxyInv, FollowingInv,
           NEW c \in ProxyClients, Release(c)
    PROVE  FollowingInv'
<1> SUFFICES ASSUME NEW d \in ProxyClients, NEW p \in NetPeers, IsConnected(d, p)',
                    NEW n \in Notifiers
             PROVE  FollowsAt(d, p, n)'
    BY DEF FollowingInv
<1>1. /\ ReleaseConnection(c) /\ c \in Living /\ c \notin Living'
      /\ UNCHANGED <<subscriptionVars, toClient>>
      /\ \A e \in ProxyClients : e # c => wants'[e] = wants[e] /\ heard'[e] = heard[e]
    BY Release_Effects
<1>2. PICK m \in Command : m.client = c /\ m.call = "RELEASE" /\ Pushed(m_ConnectionHash[c], m)
    BY Release_Effects
<1>3. d # c
    BY <1>1 DEF IsConnected
<1>4. IsConnected(d, p)
    BY <1>1, <1>3 DEF IsConnected, ReleaseConnection, Living, ProxyInv, ProxyTypeOK
<1>5. FollowsAt(d, p, n)
    BY <1>4 DEF FollowingInv
<1>6. PICK up, up2, down, on, w, h, val :
        /\ up = toServer[p] /\ up2 = toServer'[p] /\ down = toClient[p]
        /\ on = SubscribersAt(n, p) /\ w = wants[d] /\ h = heard[d][n] /\ val = m_sValue[n]
    OBVIOUS
<1>7. /\ down = toClient'[p] /\ on = SubscribersAt(n, p)' /\ w = wants'[d] /\ h = heard'[d][n]
      /\ val = m_sValue'[n]
    BY <1>1, <1>3, <1>6, SubscribedFollowers DEF subscriptionVars
<1>8. Follows(d, n, up, down, on, val, w, h)
    BY <1>5, <1>6 DEF FollowsAt
<1>9. Follows(d, n, up2, down, on, val, w, h)
    <2>1. CASE up2 = up
        BY <1>8, <2>1
    <2>2. CASE Extends(up2, up) /\ Added(up2, up) = {m}
        <3>1. \A x \in Added(up2, up) : ~ IsEnd(x, d) /\ ~ IsRegistration(x, d, n)
            BY <1>2, <1>3, <2>2 DEF IsEnd, IsRegistration
        <3> QED
            BY <1>8, <2>2, <3>1, Follows_Asks
    <2> QED
        BY <1>2, <1>6, <2>1, <2>2 DEF Pushed
<1> QED
    BY <1>6, <1>7, <1>9 DEF FollowsAt

\* A step that leaves what c, at p, is about alone.
LEMMA SameFollowing ==
    ASSUME FollowingInv, NEW c \in ProxyClients, NEW p \in NetPeers, IsConnected(c, p),
           NEW n \in Notifiers,
           UNCHANGED <<wants, heard, m_sValue>>, toServer'[p] = toServer[p],
           toClient'[p] = toClient[p], SubscribersAt(n, p)' = SubscribersAt(n, p)
    PROVE  FollowsAt(c, p, n)'
<1>1. FollowsAt(c, p, n)
    BY DEF FollowingInv
<1> QED
    BY <1>1 DEF FollowsAt

LEMMA Connecting_Following ==
    ASSUME ProxyAssumption, ClientsTypeOK, ProxyInv, TidyInv, FollowingInv,
           NEW c \in ProxyClients, Connect(c) \/ StartConnection(c)
    PROVE  FollowingInv'
<1> SUFFICES ASSUME NEW d \in ProxyClients, NEW p \in NetPeers, IsConnected(d, p)',
                    NEW n \in Notifiers
             PROVE  FollowsAt(d, p, n)'
    BY DEF FollowingInv
<1>1. UNCHANGED <<subscriptionVars, toServer, toClient, wants, heard, serverSees>>
    BY DEF Connect, StartConnection, clientVars, GetConnectionSmart, StartConnectionSmart
<1>2. SubscribersAt(n, p)' = SubscribersAt(n, p) /\ m_sValue' = m_sValue
    BY <1>1, SubscribedFollowers DEF subscriptionVars
<1>3. /\ m_peerState \in [NetPeers -> PeerStates]
      /\ m_ConnectionHash \in [ProxyClients -> NetPeers \cup {NoPeer}]
    BY DEF ProxyInv, ProxyTypeOK
<1>4. ASSUME m_peerState'[p] = "open" PROVE m_peerState[p] = "open"
    <2>1. CASE Connect(c)
        <3>1. \/ UNCHANGED m_peerState
              \/ m_peerState' = [m_peerState EXCEPT ![NewPeer] = "idle"]
            BY <2>1 DEF Connect, GetConnectionSmart
        <3>2. PICK new : new = NewPeer
            OBVIOUS
        <3> QED
            BY <1>3, <1>4, <3>1, <3>2
    <2>2. CASE StartConnection(c)
        <3>1. PICK q : m_peerState' = [m_peerState EXCEPT ![q] = IF @ = "idle" THEN "connecting" ELSE @]
            BY <2>2 DEF StartConnection, StartConnectionSmart
        <3> QED
            BY <1>3, <1>4, <3>1
    <2> QED
        BY <2>1, <2>2
<1>5. CASE d # c \/ StartConnection(c)
    <2>1. m_ConnectionHash'[d] = m_ConnectionHash[d]
        <3>1. CASE StartConnection(c)
            BY <3>1 DEF StartConnection, StartConnectionSmart
        <3>2. CASE Connect(c) /\ d # c
            <4>1. \E q : m_ConnectionHash' = [m_ConnectionHash EXCEPT ![c] = q]
                BY <3>2 DEF Connect, GetConnectionSmart
            <4> QED
                BY <1>3, <3>2, <4>1
        <3> QED
            BY <1>5, <3>1, <3>2
    <2>2. IsConnected(d, p)
        BY <1>1, <1>4, <2>1 DEF IsConnected, Living
    <2> QED
        BY <1>1, <1>2, <2>2, SameFollowing
<1>6. CASE d = c /\ Connect(c)
    <2>1. c \notin uuids
        BY <1>6 DEF Connect, GetConnectionSmart
    <2>2. c \notin Living
        BY <2>1 DEF ProxyInv, AbsentClientsAreBlank
    <2>3. wants[d] = {} /\ heard[d][n] = NoText
        BY <1>6, <2>2 DEF TidyInv, BlankUntilConnected, IsUnconnected, IsBlank
    <2>4. PICK up, down, on, val : /\ up = toServer[p] /\ down = toClient[p]
                                   /\ on = SubscribersAt(n, p) /\ val = m_sValue[n]
        OBVIOUS
    <2>5. /\ \A m \in ToSet(up) : m.client # d
          /\ \A m \in ToSet(down) : m.client # d
          /\ d \notin on
        BY <1>6, <2>1, <2>4 DEF TidyInv, MessagesBelong, SubscribersBelong, IsOwn, Belongs
    <2>6. Follows(d, n, up, down, on, val, {}, NoText)
        BY <2>5, Follows_Nothing
    <2> QED
        BY <1>1, <1>2, <2>3, <2>4, <2>6 DEF FollowsAt
<1> QED
    BY <1>5, <1>6

LEMMA Establish_Following ==
    ASSUME ServiceClientsAssumption, ClientsTypeOK, ProxyInv, OrphansInv, TidyInv, FollowingInv,
           NEW s \in NetPeers, Establish(s)
    PROVE  FollowingInv'
<1> SUFFICES ASSUME NEW c \in ProxyClients, NEW p \in NetPeers, IsConnected(c, p)',
                    NEW n \in Notifiers
             PROVE  FollowsAt(c, p, n)'
    BY DEF FollowingInv
<1>1. /\ UNCHANGED <<subscriptionVars, toServer, toClient, wants, heard, m_ConnectionHash>>
      /\ m_peerState[s] = "connecting" /\ m_peerState' = [m_peerState EXCEPT ![s] = "open"]
      /\ serverSees' = serverSees \cup {s}
    BY DEF Establish, Established, clientVars
<1>2. SubscribersAt(n, p)' = SubscribersAt(n, p) /\ m_sValue' = m_sValue
    BY <1>1, SubscribedFollowers DEF subscriptionVars
<1>3. m_peerState \in [NetPeers -> PeerStates]
    BY DEF ProxyInv, ProxyTypeOK
<1>4. CASE p # s
    <2>1. IsConnected(c, p)
        BY <1>1, <1>3, <1>4 DEF IsConnected, Living
    <2> QED
        BY <1>1, <1>2, <2>1, SameFollowing
<1>5. CASE p = s
    <2>1. s \notin serverSees
        BY <1>1 DEF OrphansInv, SeenWereOpen
    <2>2. toServer[p] = <<>> /\ toClient[p] = <<>>
        BY <1>1, <1>5, <2>1 DEF OrphansInv, SeenWereOpen, TidyInv, NothingUnread
    <2>3. SubscribersAt(n, p) = {}
        BY <1>5, <2>1 DEF OrphansInv, SubscribersAreBound, SubscribersAt
    <2>4. wants[c] = {} /\ heard[c][n] = NoText
        <3>1. m_ConnectionHash[c] = s
            BY <1>1, <1>5 DEF IsConnected
        <3> QED
            BY <1>1, <3>1 DEF TidyInv, BlankUntilConnected, IsUnconnected, IsBlank
    <2>5. PICK up, down, on, val : /\ up = toServer[p] /\ down = toClient[p]
                                   /\ on = SubscribersAt(n, p) /\ val = m_sValue[n]
        OBVIOUS
    <2>6. /\ \A m \in ToSet(up) : m.client # c
          /\ \A m \in ToSet(down) : m.client # c
          /\ c \notin on
        BY <2>2, <2>3, <2>5 DEF ToSet
    <2>7. Follows(c, n, up, down, on, val, {}, NoText)
        BY <2>6, Follows_Nothing
    <2> QED
        BY <1>1, <1>2, <2>4, <2>5, <2>7 DEF FollowsAt
<1> QED
    BY <1>4, <1>5

LEMMA Connection_Following ==
    ASSUME ServiceClientsAssumption, ClientsTypeOK, ProxyInv, OrphansInv, TidyInv, FollowingInv,
           NEW s \in NetPeers, Connection(s)
    PROVE  FollowingInv'
<1>1. CASE Establish(s)
    BY <1>1, Establish_Following
<1>2. CASE ~ Establish(s)
    <2> SUFFICES ASSUME NEW c \in ProxyClients, NEW p \in NetPeers, IsConnected(c, p)',
                        NEW n \in Notifiers
                 PROVE  FollowsAt(c, p, n)'
        BY DEF FollowingInv
    <2>1. /\ UNCHANGED <<m_sValue, wants, heard, m_ConnectionHash>>
          /\ serverSees' \subseteq serverSees
        BY <1>2 DEF Connection, Refuse, LoseConnection, DeleteNetPeer, NotifyPeerConnectionClosed,
                    Refused, ConnectionClosed, DeletePeer, ServerLosesPeer, clientVars,
                    subscriptionVars
    <2>2. /\ m_peerState \in [NetPeers -> PeerStates] /\ DOMAIN toServer = NetPeers
          /\ DOMAIN toClient = NetPeers /\ SubscriptionTypeOK
        BY DEF ProxyInv, ProxyTypeOK, ClientsTypeOK
    <2>3. CASE Refuse(s) \/ LoseConnection(s) \/ DeleteNetPeer(s)
        <3>1. /\ \E x \in {"failed", "closed", "deleted"} : m_peerState' = [m_peerState EXCEPT ![s] = x]
              /\ UNCHANGED <<subscriptionVars, toServer>>
              /\ UNCHANGED toClient \/ toClient' = [toClient EXCEPT ![s] = <<>>]
            BY <2>3 DEF Refuse, LoseConnection, DeleteNetPeer, Refused, ConnectionClosed, DeletePeer,
                        clientVars, Unread
        <3>2. p # s
            BY <2>2, <3>1 DEF IsConnected
        <3>3. IsConnected(c, p) /\ toClient'[p] = toClient[p]
            BY <2>1, <2>2, <3>1, <3>2 DEF IsConnected, Living
        <3>4. SubscribersAt(n, p)' = SubscribersAt(n, p)
            BY <3>1, SubscribedFollowers DEF subscriptionVars
        <3> QED
            BY <2>1, <3>1, <3>3, <3>4, SameFollowing
    <2>4. CASE NotifyPeerConnectionClosed(s)
        <3>1. /\ UNCHANGED <<m_peerState, toClient>> /\ serverSees' = serverSees \ {s}
              /\ RemoveAllSubscribers(s, ProxyClients)
              /\ toServer' = [toServer EXCEPT ![s] = <<>>]
            BY <2>4 DEF NotifyPeerConnectionClosed, ServerLosesPeer
        <3>2. p # s
            BY <3>1 DEF IsConnected
        <3>3. IsConnected(c, p) /\ toServer'[p] = toServer[p]
            BY <2>1, <2>2, <3>1, <3>2 DEF IsConnected, Living
        <3>4. SubscribersAt(n, p)' = SubscribersAt(n, p)
            <4>1. PICK cs : cs = ProxyClients
                OBVIOUS
            <4>2. RemoveAllSubscribers(s, cs)
                BY <3>1, <4>1
            <4> QED
                BY <2>2, <3>2, <4>2, SubscribersRemoved
        <3> QED
            BY <2>1, <3>1, <3>3, <3>4, SameFollowing
    <2> QED
        BY <1>2, <2>3, <2>4 DEF Connection
<1> QED
    BY <1>1, <1>2

LEMMA FollowingInvStep ==
    ASSUME ProxyAssumption, ServiceClientsAssumption, ProxyInv, ClientsTypeOK, OrphansInv,
           AnswersInv, TidyInv, FollowingInv, [Next]_vars
    PROVE  FollowingInv'
<1>1. ASSUME NEW c \in ProxyClients, Process(c) PROVE FollowingInv'
    <2>1. CASE Connect(c) \/ StartConnection(c)
        BY <2>1, Connecting_Following
    <2>2. CASE Release(c)
        BY <2>2, Release_Following
    <2>3. CASE Asking(c)
        <3>1. PICK m : SentBy(c, m) /\ Marks(c, m)
            BY <2>3, Asking_Sends
        <3> QED
            BY <3>1, Sent_Following
    <2> QED
        BY <1>1, <2>1, <2>2, <2>3 DEF Process, Asking
<1>2. ASSUME NEW p \in NetPeers, Serve(p) PROVE FollowingInv'
    BY <1>2, Serve_Following
<1>3. ASSUME NEW p \in NetPeers, ReceiveAnswer(p) PROVE FollowingInv'
    BY <1>3, Receive_Following
<1>4. ASSUME NEW p \in NetPeers, Connection(p) PROVE FollowingInv'
    BY <1>4, Connection_Following
<1>5. CASE CmdDone \/ \E n \in Notifiers : Assign(n) \/ Trigger(n)
    BY <1>5, Notifying_Following
<1>6. CASE UNCHANGED vars
    <2>1. UNCHANGED <<m_ConnectionHash, m_peerState, serverSees, toServer, toClient,
                      m_subscriberVector, m_sValue, wants, heard>>
        BY <1>6 DEF vars, proxyVars, subscriptionVars, clientVars
    <2> QED
        BY <2>1 DEF FollowingInv, IsConnected, FollowsAt, SubscribersAt, Living
<1> QED
    BY <1>1, <1>2, <1>3, <1>4, <1>5, <1>6 DEF Next

LEMMA FollowingInvHolds == Spec => [](TidyInv /\ FollowingInv)
<1> USE ProxyAssumption, ServiceClientsAssumption
<1> DEFINE Inv == TidyInv /\ FollowingInv
           Known == ProxyInv /\ ClientsTypeOK /\ OrphansInv /\ AnswersInv
<1>1. Init => Inv
    <2>1. Init => FollowingInv
        BY DEF Init, ProxyInit, FollowingInv, IsConnected
    <2> QED
        BY <2>1, TidyInvInit
<1>2. Known /\ Inv /\ [Next]_vars => Inv'
    BY TidyInvStep, FollowingInvStep
<1>3. Spec => []Known
    BY ProxyInvHolds, ClientsTypeOKHolds, OrphansInvHolds, AnswersInvHolds, PTL
<1> QED
    BY <1>1, <1>2, <1>3, PTL DEF Spec

-----------------------------------------------------------------------------
(* The last of the messages about something.                                *)

LEMMA LargestPosition ==
    ASSUME NEW k \in Nat, NEW S \in SUBSET (1 .. k), S # {}
    PROVE  Max(S) \in S /\ \A i \in S : i <= Max(S)
<1> DEFINE R == StrictSubsetOrdering(Nat)
           From == {i .. k : i \in S}
<1>1. IsWellFoundedOn(R, FiniteSubsetsOf(Nat))
    BY FS_StrictSubsetOrderingWellFounded
<1>2. From \subseteq FiniteSubsetsOf(Nat)
    <2>1. ASSUME NEW i \in S
          PROVE  i .. k \in FiniteSubsetsOf(Nat)
        <3>1. i \in Int /\ k \in Int /\ i .. k \in SUBSET Nat
            OBVIOUS
        <3>2. IsFiniteSet(i .. k)
            BY <3>1, FS_Interval
        <3> QED
            BY <3>1, <3>2 DEF FiniteSubsetsOf
    <2> QED
        BY <2>1
<1>3. From # {}
    OBVIOUS
<1>4. \E x \in From : \A y \in From : <<y, x>> \notin R
    <2> HIDE DEF R, From
    <2> QED
        BY <1>1, <1>2, <1>3, WFMin
<1>5. PICK m \in S : \A i \in S : <<i .. k, m .. k>> \notin R
    BY <1>4
<1>6. ASSUME NEW i \in S, i > m
      PROVE  FALSE
    <2>1. /\ i .. k \in SUBSET Nat /\ m .. k \in SUBSET Nat
          /\ i .. k \subseteq m .. k
        BY <1>6
    <2>2. m \in m .. k /\ m \notin i .. k
        BY <1>6
    <2> QED
        BY <1>5, <2>1, <2>2 DEF StrictSubsetOrdering
<1>7. \A i \in S : m >= i
    BY <1>6
<1>8. Max(S) \in S /\ \A i \in S : Max(S) >= i
    BY <1>5, <1>7 DEF Max
<1> QED
    BY <1>8

\* Where down tells c of n.
NewsIn(down, c, n) == {i \in DOMAIN down : IsNews(down[i], c, n)}

LEMMA LatestOfFollowed ==
    ASSUME NEW c, NEW n, NEW up, NEW down, NEW on, NEW val, NEW h,
           NEW k \in Nat, DOMAIN down = 1 .. k,
           Followed(c, n, up, down, on, val, h),
           NEW S, S = NewsIn(down, c, n)
    PROVE  /\ c \notin on => S = {} /\ h = NoText
           /\ c \in on /\ S = {} => h \in {NoText, val}
           /\ c \in on /\ S # {} => down[Max(S)].text \in {NoText, val}
<1>1. c \notin on => S = {} /\ h = NoText
    BY DEF Followed, HasNews, NewsIn
<1>2. c \in on /\ S = {} => h \in {NoText, val}
    BY DEF Followed, HasNews, NewsIn
<1>3. ASSUME c \in on, S # {}
      PROVE  down[Max(S)].text \in {NoText, val}
    <2>1. S \in SUBSET (1 .. k)
        BY DEF NewsIn
    <2>2. Max(S) \in S /\ \A i \in S : i <= Max(S)
        BY <1>3, <2>1, LargestPosition
    <2>3. IsLastNews(down, Max(S), c, n)
        BY <2>2 DEF IsLastNews, NewsIn
    <2> QED
        BY <1>3, <2>2, <2>3 DEF Followed, NewsIn
<1> QED
    BY <1>1, <1>2, <1>3

LEMMA FollowingIsUpToDate ==
    ASSUME ProxyInv, ClientsTypeOK, FollowingInv
    PROVE  UpToDate
<1> SUFFICES ASSUME NEW c \in Living, NEW n \in wants[c],
                    m_peerState[m_ConnectionHash[c]] = "open",
                    m_ConnectionHash[c] \in serverSees,
                    Latest(c, n) # NoText
             PROVE  IsSubscribed(c, n) /\ Latest(c, n) = m_sValue[n]
    BY DEF UpToDate
<1>1. PICK p : p = m_ConnectionHash[c]
    OBVIOUS
<1>2. c \in ProxyClients /\ p \in NetPeers /\ n \in Notifiers
    BY <1>1, PeerOfLiving DEF ProxyInv, ClientsTypeOK
<1>3. FollowsAt(c, p, n)
    BY <1>1, <1>2 DEF FollowingInv, IsConnected
<1>4. Followed(c, n, toServer[p], toClient[p], SubscribersAt(n, p), m_sValue[n], heard[c][n])
    BY <1>3 DEF FollowsAt, Follows
<1>5. PICK k \in Nat : DOMAIN toClient[p] = 1 .. k
    <2>1. toClient[p] \in Seq(Message \cup Notified)
        BY <1>2 DEF ClientsTypeOK
    <2> QED
        BY <2>1
<1>6. PICK S : S = NewsIn(toClient[p], c, n)
    OBVIOUS
<1>7. Latest(c, n) = IF S = {} THEN heard[c][n] ELSE toClient[p][Max(S)].text
    BY <1>1, <1>6 DEF Latest, IsNews, NewsIn
<1>8. /\ c \notin SubscribersAt(n, p) => S = {} /\ heard[c][n] = NoText
      /\ c \in SubscribersAt(n, p) /\ S = {} => heard[c][n] \in {NoText, m_sValue[n]}
      /\ c \in SubscribersAt(n, p) /\ S # {} => toClient[p][Max(S)].text \in {NoText, m_sValue[n]}
    <2>1. PICK up, down, on, val, h :
              /\ up = toServer[p] /\ down = toClient[p] /\ on = SubscribersAt(n, p)
              /\ val = m_sValue[n] /\ h = heard[c][n]
        OBVIOUS
    <2>2. /\ Followed(c, n, up, down, on, val, h)
          /\ DOMAIN down = 1 .. k
          /\ S = NewsIn(down, c, n)
        BY <1>4, <1>5, <1>6, <2>1
    <2>3. /\ c \notin on => S = {} /\ h = NoText
          /\ c \in on /\ S = {} => h \in {NoText, val}
          /\ c \in on /\ S # {} => down[Max(S)].text \in {NoText, val}
        BY <2>2, LatestOfFollowed
    <2> QED
        BY <2>1, <2>3
<1>9. c \in SubscribersAt(n, p)
    BY <1>7, <1>8
<1>10. IsSubscribed(c, n)
    BY <1>9 DEF SubscribersAt, IsSubscribed
<1>11. Latest(c, n) = m_sValue[n]
    BY <1>7, <1>8, <1>9
<1> QED
    BY <1>10, <1>11

\* A module that has registered at the notifiers of a pcb service (pcbinterface.cpp
\* and the NotificationString of pcbserver.cpp) and then read one knows the text it
\* has, or will when it has read what is on its way, and is still among its
\* subscribers: whatever clients there are and however their messages, the changes of
\* the texts, delayed commands and lost connections interleave.
THEOREM UpToDateAlways == Spec => []UpToDate
<1>1. ProxyInv /\ ClientsTypeOK /\ FollowingInv => UpToDate
    BY FollowingIsUpToDate
<1> QED
    BY <1>1, ProxyInvHolds, ClientsTypeOKHolds, FollowingInvHolds,
       ProxyAssumption, ServiceClientsAssumption, PTL

=============================================================================
