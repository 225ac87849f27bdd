------------------------- MODULE ZdspClientsProofs -------------------------
(***************************************************************************)
(* Proofs about ZdspClients, for any proxies, peers, limits and batches.   *)
(***************************************************************************)
EXTENDS ZdspClients, TLAPS

\* No interrupt id is in use that the counter has not reached yet.
Counted(k) ==
    \A id \in Ids : k.m_clientsByDspInterruptId[id] # Nobody
                        => id <= k.m_currentDspInterruptId

ClientsInv ==
    /\ ZdspTypeOK
    /\ ContainersAgree
    /\ ClientsAreConnected

OrderlyInv ==
    /\ ClientsInv
    /\ Counted(container)
    /\ OnlyTelnetCrashes

-----------------------------------------------------------------------------
(* Kept and the operations of the container.                                *)

LEMMA KeptEntries ==
    ASSUME NEW T, NEW seq \in Seq(T), NEW S \in SUBSET DOMAIN seq,
           NEW list \in Kept(seq, S)
    PROVE  /\ list \in Seq(T)
           /\ \E index \in [DOMAIN list -> S] :
                /\ \A j \in DOMAIN list : list[j] = seq[index[j]]
                /\ \A i, j \in DOMAIN list : index[i] = index[j] => i = j
                /\ \A k \in S : \E j \in DOMAIN list : index[j] = k
<1>1. PICK n \in 0 .. Len(seq) : \E index \in [1 .. n -> S] :
        /\ list = [j \in DOMAIN index |-> seq[index[j]]]
        /\ \A i, j \in DOMAIN index : i < j => index[i] < index[j]
        /\ \A k \in S : \E j \in DOMAIN index : index[j] = k
    BY DEF Kept
<1>2. PICK index \in [1 .. n -> S] :
        /\ list = [j \in DOMAIN index |-> seq[index[j]]]
        /\ \A i, j \in DOMAIN index : i < j => index[i] < index[j]
        /\ \A k \in S : \E j \in DOMAIN index : index[j] = k
    BY <1>1
<1>3. n \in Nat /\ DOMAIN index = 1 .. n
    OBVIOUS
<1>4. list = [j \in 1 .. n |-> seq[index[j]]]
    BY <1>2, <1>3
<1>5. \A j \in 1 .. n : index[j] \in S /\ index[j] \in Nat /\ seq[index[j]] \in T
    OBVIOUS
<1>6. list \in Seq(T) /\ DOMAIN list = 1 .. n
    BY <1>3, <1>4, <1>5
<1>7. ASSUME NEW i \in 1 .. n, NEW j \in 1 .. n, index[i] = index[j]
      PROVE  i = j
    <2>1. ~ (i < j) /\ ~ (j < i)
        BY <1>2, <1>3, <1>5, <1>7
    <2> QED
        BY <1>3, <2>1
<1> QED
    BY <1>2, <1>3, <1>4, <1>6, <1>7

LEMMA NextIdIsId ==
    ASSUME NEW i \in 0 .. (IdLimit - 1)
    PROVE  NextId(i) \in Ids
BY ZdspAssumption DEF NextId, Ids

LEMMA AddClientAgrees ==
    ASSUME NEW k \in Containers, Agree(k), NEW p \in Proxies
    PROVE  /\ AddClient(k, p) \in Containers
           /\ Agree(AddClient(k, p))
           /\ AddClient(k, p).m_clientsByProxyConnectionId
                 \in {k.m_clientsByProxyConnectionId,
                      k.m_clientsByProxyConnectionId \cup {p}}
<1> DEFINE id == NextId(k.m_currentDspInterruptId)
           new == [k EXCEPT
                !.m_currentDspInterruptId = id,
                !.m_clientsChonological = Append(@, p),
                !.m_clientsByDspInterruptId[id] = p,
                !.m_clientsByProxyConnectionId = @ \cup {p},
                !.m_dspInterruptId[p] = id]
<1>1. id \in Ids /\ id \in 0 .. (IdLimit - 1)
    BY NextIdIsId, ZdspAssumption DEF Containers, Ids
<1>2. CASE p \in k.m_clientsByProxyConnectionId
    BY <1>2 DEF AddClient
<1>3. CASE p \notin k.m_clientsByProxyConnectionId
           /\ k.m_clientsByDspInterruptId[id] # Nobody
    <2>1. AddClient(k, p) = [k EXCEPT !.m_currentDspInterruptId = id]
        BY <1>3 DEF AddClient
    <2> QED
        BY <1>1, <2>1 DEF Containers, Agree
<1>4. CASE p \notin k.m_clientsByProxyConnectionId
           /\ k.m_clientsByDspInterruptId[id] = Nobody
    <2> HIDE DEF id
    <2>1. AddClient(k, p) = new
        BY <1>4 DEF AddClient, id
    <2>2. /\ new.m_clientsChonological = Append(k.m_clientsChonological, p)
          /\ new.m_clientsByDspInterruptId = [k.m_clientsByDspInterruptId EXCEPT ![id] = p]
          /\ new.m_clientsByProxyConnectionId = k.m_clientsByProxyConnectionId \cup {p}
          /\ new.m_currentDspInterruptId = id
          /\ new.m_dspSuperClient = k.m_dspSuperClient
          /\ new.m_dspInterruptId = [k.m_dspInterruptId EXCEPT ![p] = id]
        BY DEF Containers
    <2>3. new \in Containers
        <3>1. Append(k.m_clientsChonological, p) \in Seq(Proxies)
            BY DEF Containers
        <3>2. [k.m_clientsByDspInterruptId EXCEPT ![id] = p]
                    \in [Ids -> Proxies \cup {Nobody}]
            BY DEF Containers
        <3>3. [k.m_dspInterruptId EXCEPT ![p] = id] \in [Proxies -> Ids \cup {0}]
            BY <1>1 DEF Containers
        <3> QED
            BY <1>1, <3>1, <3>2, <3>3 DEF Containers
    <2>4. IsInjective(new.m_clientsChonological)
          /\ ToSet(new.m_clientsChonological) = new.m_clientsByProxyConnectionId
        <3> DEFINE list == k.m_clientsChonological
        <3>1. list \in Seq(Proxies) /\ Len(list) \in Nat /\ DOMAIN list = 1 .. Len(list)
            BY DEF Containers
        <3>2. \A i \in 1 .. Len(list) : list[i] # p
            BY <1>4, <3>1 DEF Agree, ToSet
        <3> HIDE DEF list
        <3>3. /\ DOMAIN Append(list, p) = 1 .. (Len(list) + 1)
              /\ \A i \in 1 .. Len(list) : Append(list, p)[i] = list[i]
              /\ Append(list, p)[Len(list) + 1] = p
            BY <3>1
        <3>4. IsInjective(Append(list, p))
            BY <3>1, <3>2, <3>3 DEF IsInjective, Agree, list
        <3>5. ToSet(Append(list, p)) = ToSet(list) \cup {p}
            BY <3>1, <3>3 DEF ToSet
        <3> QED
            BY <2>2, <3>4, <3>5 DEF Agree, list
    <2>5. ASSUME NEW i \in Ids, NEW q \in Proxies
          PROVE  new.m_clientsByDspInterruptId[i] = q
                    <=> q \in new.m_clientsByProxyConnectionId /\ new.m_dspInterruptId[q] = i
        BY <1>1, <1>4, <2>2, ZdspAssumption DEF Containers, Agree
    <2>6. new.m_dspSuperClient \in new.m_clientsByProxyConnectionId \cup {Nobody}
        BY <2>2 DEF Agree
    <2>7. \A q \in new.m_clientsByProxyConnectionId : new.m_dspInterruptId[q] \in Ids
        BY <1>1, <2>2 DEF Agree, Containers
    <2>8. Agree(new)
        BY <2>4, <2>5, <2>6, <2>7 DEF Agree
    <2> QED
        BY <2>1, <2>2, <2>3, <2>8
<1> QED
    BY <1>2, <1>3, <1>4

\* Below its end the counter always finds a free id.
LEMMA AddClientServes ==
    ASSUME NEW k \in Containers, Counted(k), NEW p \in Proxies,
           p \in k.m_clientsByProxyConnectionId \/ k.m_currentDspInterruptId + 1 < IdLimit
    PROVE  p \in AddClient(k, p).m_clientsByProxyConnectionId /\ Counted(AddClient(k, p))
<1> DEFINE id == NextId(k.m_currentDspInterruptId)
<1>1. CASE p \in k.m_clientsByProxyConnectionId
    BY <1>1 DEF AddClient
<1>2. CASE p \notin k.m_clientsByProxyConnectionId
    <2>1. k.m_currentDspInterruptId \in Nat /\ id = k.m_currentDspInterruptId + 1 /\ id \in Ids
        BY <1>2, NextIdIsId, ZdspAssumption DEF Containers, NextId
    <2>2. k.m_clientsByDspInterruptId[id] = Nobody
        BY <2>1 DEF Counted
    <2>3. AddClient(k, p) = [k EXCEPT
                !.m_currentDspInterruptId = id,
                !.m_clientsChonological = Append(@, p),
                !.m_clientsByDspInterruptId[id] = p,
                !.m_clientsByProxyConnectionId = @ \cup {p},
                !.m_dspInterruptId[p] = id]
        BY <1>2, <2>2 DEF AddClient
    <2> HIDE DEF id
    <2>4. /\ AddClient(k, p).m_clientsByProxyConnectionId = k.m_clientsByProxyConnectionId \cup {p}
          /\ AddClient(k, p).m_currentDspInterruptId = id
          /\ AddClient(k, p).m_clientsByDspInterruptId = [k.m_clientsByDspInterruptId EXCEPT ![id] = p]
        BY <2>3 DEF Containers
    <2>5. \A i \in Ids : i \in Nat
        BY ZdspAssumption DEF Ids
    <2> QED
        BY <2>1, <2>4, <2>5 DEF Counted, Containers
<1> QED
    BY <1>1, <1>2

LEMMA WithoutAgrees ==
    ASSUME NEW k \in Containers, Agree(k), NEW ps, NEW rest \in Without(k, ps)
    PROVE  /\ rest \in Containers
           /\ Agree(rest)
           /\ rest.m_clientsByProxyConnectionId = k.m_clientsByProxyConnectionId \ ps
           /\ Counted(k) => Counted(rest)
<1> DEFINE gone == ps \cap k.m_clientsByProxyConnectionId
           old == k.m_clientsChonological
           S == Staying(k, gone)
           Removed(list) ==
             [k EXCEPT
                !.m_clientsChonological = list,
                !.m_clientsByProxyConnectionId = @ \ gone,
                !.m_clientsByDspInterruptId =
                    [i \in Ids |-> IF \E p \in gone : k.m_dspInterruptId[p] = i
                                   THEN Nobody ELSE @[i]],
                !.m_dspSuperClient = IF @ \in gone THEN Nobody ELSE @,
                !.m_dspInterruptId =
                    [p \in Proxies |-> IF p \in gone THEN 0 ELSE @[p]]]
<1>1. PICK list \in Kept(old, S) : rest = ResetInterruptIdOnNoClients(Removed(list))
    BY DEF Without
<1>2. old \in Seq(Proxies) /\ S \in SUBSET DOMAIN old
    BY DEF Containers, Staying
<1>3. /\ list \in Seq(Proxies)
      /\ \E index \in [DOMAIN list -> S] :
            /\ \A j \in DOMAIN list : list[j] = old[index[j]]
            /\ \A i, j \in DOMAIN list : index[i] = index[j] => i = j
            /\ \A i \in S : \E j \in DOMAIN list : index[j] = i
    <2> HIDE DEF old, S, Removed, gone
    <2> QED
        BY <1>1, <1>2, KeptEntries
<1>4. PICK index \in [DOMAIN list -> S] :
            /\ \A j \in DOMAIN list : list[j] = old[index[j]]
            /\ \A i, j \in DOMAIN list : index[i] = index[j] => i = j
            /\ \A i \in S : \E j \in DOMAIN list : index[j] = i
    BY <1>3
<1> DEFINE mid == Removed(list)
<1>5. /\ mid.m_clientsChonological = list
      /\ mid.m_clientsByProxyConnectionId = k.m_clientsByProxyConnectionId \ gone
      /\ mid.m_clientsByDspInterruptId =
            [i \in Ids |-> IF \E p \in gone : k.m_dspInterruptId[p] = i
                           THEN Nobody ELSE k.m_clientsByDspInterruptId[i]]
      /\ mid.m_dspSuperClient =
            IF k.m_dspSuperClient \in gone THEN Nobody ELSE k.m_dspSuperClient
      /\ mid.m_dspInterruptId =
            [p \in Proxies |-> IF p \in gone THEN 0 ELSE k.m_dspInterruptId[p]]
      /\ mid.m_currentDspInterruptId = k.m_currentDspInterruptId
    BY DEF Containers
<1>6. mid \in Containers
    BY <1>3 DEF Containers
<1> HIDE DEF mid, S
<1>7. IsInjective(list)
    <2>1. ASSUME NEW i \in DOMAIN list, NEW j \in DOMAIN list, list[i] = list[j]
          PROVE  i = j
        <3>1. index[i] \in DOMAIN old /\ index[j] \in DOMAIN old
              /\ old[index[i]] = old[index[j]]
            BY <1>2, <1>4, <2>1
        <3>2. index[i] = index[j]
            BY <3>1 DEF Agree, IsInjective
        <3> QED
            BY <1>4, <3>2
    <2> QED
        BY <2>1 DEF IsInjective
<1>8. ToSet(list) = k.m_clientsByProxyConnectionId \ gone
    <2>1. ASSUME NEW j \in DOMAIN list
          PROVE  list[j] \in ToSet(old) /\ list[j] \notin gone
        BY <1>4 DEF S, Staying, ToSet
    <2>2. ASSUME NEW p \in ToSet(old), p \notin gone
          PROVE  p \in ToSet(list)
        <3>1. PICK i \in S : old[i] = p
            BY <2>2 DEF ToSet, S, Staying
        <3>2. PICK j \in DOMAIN list : index[j] = i
            BY <1>4
        <3> QED
            BY <1>4, <3>1, <3>2 DEF ToSet
    <2> QED
        BY <2>1, <2>2 DEF ToSet, Agree
<1>9. ASSUME NEW id \in Ids, NEW p \in Proxies
      PROVE  mid.m_clientsByDspInterruptId[id] = p
                <=> p \in mid.m_clientsByProxyConnectionId /\ mid.m_dspInterruptId[p] = id
    BY <1>5, ZdspAssumption DEF Agree, Containers, Ids
<1>10. Agree(mid)
    <2>1. \A p \in mid.m_clientsByProxyConnectionId : mid.m_dspInterruptId[p] \in Ids
        BY <1>5 DEF Agree, Containers
    <2> QED
        BY <1>5, <1>7, <1>8, <1>9, <2>1 DEF Agree
<1>11. Counted(k) => Counted(mid)
    BY <1>5 DEF Counted
<1>12. rest = mid \/ /\ rest = [mid EXCEPT !.m_currentDspInterruptId = 0]
                     /\ \A i \in Ids : mid.m_clientsByDspInterruptId[i] = Nobody
    BY <1>1 DEF ResetInterruptIdOnNoClients, mid
<1>13. /\ rest \in Containers
       /\ rest.m_clientsChonological = mid.m_clientsChonological
       /\ rest.m_clientsByProxyConnectionId = mid.m_clientsByProxyConnectionId
       /\ rest.m_clientsByDspInterruptId = mid.m_clientsByDspInterruptId
       /\ rest.m_dspInterruptId = mid.m_dspInterruptId
       /\ rest.m_dspSuperClient = mid.m_dspSuperClient
    BY <1>6, <1>12, ZdspAssumption DEF Containers
<1>14. Agree(rest)
    BY <1>10, <1>13 DEF Agree
<1>15. Counted(k) => Counted(rest)
    BY <1>11, <1>12, <1>13 DEF Counted
<1> QED
    BY <1>5, <1>13, <1>14, <1>15


LEMMA NoClientsAgree == NoClients \in Containers /\ Agree(NoClients) /\ Counted(NoClients)
<1>1. NoClients \in Containers
    BY ZdspAssumption DEF NoClients, Containers
<1>2. IsInjective(NoClients.m_clientsChonological)
      /\ ToSet(NoClients.m_clientsChonological) = {}
    BY DEF NoClients, IsInjective, ToSet
<1>3. ASSUME NEW id \in Ids, NEW p \in Proxies
      PROVE  NoClients.m_clientsByDspInterruptId[id] # p
    BY ZdspAssumption DEF NoClients
<1>4. Agree(NoClients)
    BY <1>2, <1>3 DEF Agree, NoClients
<1>5. Counted(NoClients)
    BY DEF Counted, NoClients
<1> QED
    BY <1>1, <1>4, <1>5

LEMMA FoundAgrees ==
    ASSUME ZdspTypeOK, ContainersAgree, NEW p \in Proxies
    PROVE  /\ Found(p) \in Containers
           /\ Agree(Found(p))
           /\ Found(p).m_clientsByProxyConnectionId \in {Clients, Clients \cup {p}}
BY AddClientAgrees DEF ZdspTypeOK, ContainersAgree, Found, Clients

LEMMA ListsOfType ==
    ASSUME cmdList \in [Proxies -> Lists], NEW k
    PROVE  ListsOf(k) \in [Proxies -> Lists]
BY DEF ListsOf, Lists

LEMMA ProgramOfType ==
    ASSUME NEW k \in Containers, Agree(k)
    PROVE  ProgramOf(k) \in SUBSET (Ids \X Proxies)
BY DEF ProgramOf, Agree, Containers

\* A step that may change container and connections, but tells nobody.
LEMMA Quiet_Inv ==
    ASSUME ClientsInv, connected' \in SUBSET Peers, container' \in Containers,
           Agree(container'), cmdList' \in [Proxies -> Lists],
           program' \in SUBSET (Ids \X Proxies), buffer' \in Seq(Interrupt),
           sent' = <<>>, crashed' \in BOOLEAN,
           \A p \in container'.m_clientsByProxyConnectionId :
                PeerOf[p] = NoPeer \/ PeerOf[p] \in connected'
    PROVE  ClientsInv'
<1>1. ZdspTypeOK'
    BY DEF ZdspTypeOK
<1>2. ContainersAgree'
    BY DEF ContainersAgree
<1>3. ClientsAreConnected'
    BY DEF ClientsAreConnected, Clients
<1> QED
    BY <1>1, <1>2, <1>3 DEF ClientsInv

LEMMA Peers_Inv ==
    ASSUME ClientsInv, PeerNext
    PROVE  ClientsInv'
<1> USE DEF ClientsInv, ZdspTypeOK, ContainersAgree, NoMessage
<1>1. ASSUME NEW peer \in Peers, Connect(peer)
      PROVE  ClientsInv'
    BY <1>1, Quiet_Inv DEF Connect, ClientsAreConnected, Clients
<1>2. ASSUME NEW peer \in Peers, Disconnect(peer)
      PROVE  ClientsInv'
    <2>1. /\ container' \in Containers /\ Agree(container')
          /\ container'.m_clientsByProxyConnectionId = Clients \ OfPeer(container, peer)
        BY <1>2, WithoutAgrees DEF Disconnect, Clients
    <2>2. cmdList' \in [Proxies -> Lists]
        BY <1>2, ListsOfType DEF Disconnect
    <2>3. \A p \in Clients \ OfPeer(container, peer) :
                PeerOf[p] = NoPeer \/ PeerOf[p] \in connected \ {peer}
        BY DEF OfPeer, ClientsAreConnected, Clients, Agree
    <2> QED
        BY <1>2, <2>1, <2>2, <2>3, Quiet_Inv DEF Disconnect
<1> QED
    BY <1>1, <1>2 DEF PeerNext

\* A command makes its client known, and may end with some of the clients gone.
LEMMA Commands_Inv ==
    ASSUME ClientsInv, NEW p \in Proxies, CommandNext(p) \/ Unserved(p)
    PROVE  ClientsInv'
<1> USE DEF ClientsInv, ZdspTypeOK, ContainersAgree, NoMessage
<1>1. /\ Found(p) \in Containers /\ Agree(Found(p))
      /\ Found(p).m_clientsByProxyConnectionId \in {Clients, Clients \cup {p}}
    BY FoundAgrees
<1>2. CanSend(p) => \A q \in Clients \cup {p} : PeerOf[q] = NoPeer \/ PeerOf[q] \in connected
    BY DEF CanSend, ClientsAreConnected
<1>3. ASSUME Release(p)
      PROVE  ClientsInv'
    <2>1. /\ container' \in Containers /\ Agree(container')
          /\ container'.m_clientsByProxyConnectionId = Clients \ {p}
        BY <1>3, WithoutAgrees DEF Release, Clients
    <2> QED
        BY <1>2, <1>3, <2>1, ListsOfType, Quiet_Inv DEF Release
<1>4. ASSUME NEW list \in Lists, SetCmdList(p, list)
      PROVE  ClientsInv'
    BY <1>1, <1>2, <1>4, Quiet_Inv DEF SetCmdList
<1>5. ASSUME LoadCmdList(p)
      PROVE  ClientsInv'
    <2>1. cmdList' \in [Proxies -> Lists] /\ crashed' \in BOOLEAN
        BY <1>5, ListsOfType DEF LoadCmdList, MayCrash
    <2>2. CASE Compiles(Found(p))
        <3>1. program' \in SUBSET (Ids \X Proxies)
            BY <1>1, <1>5, <2>2, ProgramOfType DEF LoadCmdList
        <3> QED
            BY <1>1, <1>2, <1>5, <2>1, <2>2, <3>1, Quiet_Inv DEF LoadCmdList
    <2>3. CASE ~ Compiles(Found(p))
        <3>1. container' \in Without(Found(p), {p}) /\ UNCHANGED program
            BY <1>5, <2>3 DEF LoadCmdList
        <3>2. /\ container' \in Containers /\ Agree(container')
              /\ container'.m_clientsByProxyConnectionId
                    = Found(p).m_clientsByProxyConnectionId \ {p}
            BY <1>1, <3>1, WithoutAgrees
        <3> QED
            BY <1>1, <1>2, <1>5, <2>1, <3>1, <3>2, Quiet_Inv DEF LoadCmdList
    <2> QED
        BY <2>2, <2>3
<1>6. ASSUME UnloadCmdListAllClients(p)
      PROVE  ClientsInv'
    <2>1. program' \in SUBSET (Ids \X Proxies)
        BY <1>6, NoClientsAgree, ProgramOfType DEF UnloadCmdListAllClients
    <2>2. NoClients.m_clientsByProxyConnectionId = {}
        BY DEF NoClients
    <2> QED
        BY <1>6, <2>1, <2>2, NoClientsAgree, ListsOfType, Quiet_Inv
        DEF UnloadCmdListAllClients
<1>7. ASSUME MakeSuperClient(p)
      PROVE  ClientsInv'
    <2>1. p \in Found(p).m_clientsByProxyConnectionId
        BY <1>7 DEF MakeSuperClient, Served
    <2>2. container' \in Containers /\ Agree(container')
          /\ container'.m_clientsByProxyConnectionId = Found(p).m_clientsByProxyConnectionId
        BY <1>1, <1>7, <2>1 DEF MakeSuperClient, Containers, Agree
    <2> QED
        BY <1>1, <1>2, <1>7, <2>2, Quiet_Inv DEF MakeSuperClient
<1>8. ASSUME Unserved(p)
      PROVE  ClientsInv'
    BY <1>1, <1>2, <1>8, Quiet_Inv DEF Unserved, MayCrash
<1> QED
    BY <1>3, <1>4, <1>5, <1>6, <1>7, <1>8 DEF CommandNext

\* Whom the handler of a DSP interrupt sends messages to.
LEMMA MessagesType ==
    ASSUME ClientsInv, buffer # <<>>, NEW readOk, HandleDspInterrupt(readOk)
    PROVE  sent' \in Seq([to : Proxies, par : Params])
<1> USE DEF ClientsInv, ZdspTypeOK
<1>0. buffer \in Seq(Interrupt)
    OBVIOUS
<1>1. \A i \in DOMAIN buffer : buffer[i] \in Interrupt
    OBVIOUS
<1>2. \A id \in Ids : FindById(id) \in Proxies \cup {Nobody}
    BY DEF FindById, Containers
<1>3. ToTheSuperClient \in Seq([to : Proxies, par : Params])
    <2>1. buffer[Len(buffer)] \in Interrupt
        OBVIOUS
    <2>2. SuperClient \in Proxies \cup {Nobody}
        BY DEF SuperClient, Containers
    <2>3. CASE SuperClient = Nobody
        BY <2>3 DEF ToTheSuperClient
    <2>4. CASE SuperClient \in Proxies
        <3>1. [to |-> SuperClient, par |-> buffer[Len(buffer)].par]
                    \in [to : Proxies, par : Params]
            BY <2>1, <2>4 DEF Interrupt
        <3>2. <<[to |-> SuperClient, par |-> buffer[Len(buffer)].par]>>
                    \in Seq([to : Proxies, par : Params])
            BY <3>1
        <3>3. ToTheSuperClient
                \in {<<[to |-> SuperClient, par |-> buffer[Len(buffer)].par]>>, <<>>}
            BY DEF ToTheSuperClient
        <3>4. <<>> \in Seq([to : Proxies, par : Params])
            OBVIOUS
        <3> QED
            BY <3>2, <3>3, <3>4
    <2> QED
        BY <2>2, <2>3, <2>4
<1>4. ASSUME NEW others \in ToTheOthers
      PROVE  others \in Seq([to : Proxies, par : Params])
    <2>1. PICK e \in Kept(buffer, ForOthers) : others = Messages(e)
        BY <1>4 DEF ToTheOthers
    <2>2. ForOthers \in SUBSET DOMAIN buffer
        BY DEF ForOthers
    <2> HIDE DEF ClientsInv, ZdspTypeOK
    <2>3. /\ e \in Seq(Interrupt)
          /\ \E index \in [DOMAIN e -> ForOthers] :
                \A j \in DOMAIN e : e[j] = buffer[index[j]]
        BY <1>0, <2>1, <2>2, KeptEntries
    <2>4. \A j \in DOMAIN e : e[j] \in Interrupt /\ FindById(e[j].id) # Nobody
        BY <2>3 DEF ForOthers
    <2>5. \A j \in DOMAIN e : FindById(e[j].id) \in Proxies /\ e[j].par \in Params
        BY <1>2, <2>4 DEF Interrupt
    <2>6. DOMAIN e = 1 .. Len(e) /\ Len(e) \in Nat
        BY <2>3
    <2>7. others = [i \in 1 .. Len(e) |-> [to |-> FindById(e[i].id), par |-> e[i].par]]
        BY <2>1, <2>6 DEF Messages
    <2> QED
        BY <2>5, <2>6, <2>7
<1>5. CASE sent' = <<>>
    BY <1>5
<1>6. CASE \E others \in ToTheOthers : sent' = ToTheSuperClient \o others
    <2> DEFINE M == [to : Proxies, par : Params]
    <2>1. PICK others \in ToTheOthers : sent' = ToTheSuperClient \o others
        BY <1>6
    <2>2. ToTheSuperClient \in Seq(M) /\ others \in Seq(M)
        BY <1>3, <1>4
    <2> HIDE DEF M, ClientsInv, ZdspTypeOK
    <2>3. ToTheSuperClient \o others \in Seq(M)
        BY <2>2
    <2> QED
        BY <2>1, <2>3 DEF M
<1> QED
    BY <1>5, <1>6 DEF HandleDspInterrupt, TellAll, NoMessage

LEMMA Dsp_Inv ==
    ASSUME ClientsInv, DspNext
    PROVE  ClientsInv'
<1> USE DEF ClientsInv, ZdspTypeOK
<1>1. ASSUME NEW batch \in Batches, DspPost(batch)
      PROVE  ClientsInv'
    <2>1. batch \in Seq(Interrupt)
        BY DEF Batches, BatchesUpTo
    <2> QED
        BY <1>1, <2>1, Quiet_Inv DEF DspPost, NoMessage, ContainersAgree,
           ClientsAreConnected, Clients
<1>2. ASSUME NEW readOk \in BOOLEAN, DspIntHandler(readOk)
      PROVE  ClientsInv'
    <2>1. sent' \in Seq([to : Proxies, par : Params])
        BY <1>2, MessagesType DEF DspIntHandler
    <2>2. buffer' = <<>> /\ UNCHANGED <<connected, container, cmdList, program>>
        BY <1>2 DEF DspIntHandler, HandleDspInterrupt
    <2>3. crashed' \in BOOLEAN
        <3> DEFINE null == \E i \in DOMAIN sent' :
                              sent'[i].to = Nobody \/ PeerOf[sent'[i].to] = NoPeer
        <3>1. crashed' \in IF null THEN BOOLEAN ELSE {FALSE}
            BY <1>2 DEF DspIntHandler, MayCrash
        <3> HIDE DEF null
        <3> QED
            BY <3>1
    <2>4. buffer' \in Seq(Interrupt)
        BY <2>2
    <2>5. ZdspTypeOK'
        BY <2>1, <2>2, <2>3, <2>4
    <2> QED
        BY <2>2, <2>5 DEF ContainersAgree, ClientsAreConnected, Clients
<1> QED
    BY <1>1, <1>2 DEF DspNext

LEMMA ClientsInvInit ==
    ASSUME ZdspInit
    PROVE  ClientsInv
<1>1. Clients = {}
    BY DEF ZdspInit, NoClients, Clients
<1>2. buffer \in Seq(Interrupt) /\ sent \in Seq([to : Proxies, par : Params])
    BY DEF ZdspInit
<1>3. cmdList \in [Proxies -> Lists]
    BY DEF ZdspInit, Lists
<1>4. container \in Containers /\ Agree(container)
    BY NoClientsAgree DEF ZdspInit
<1>5. ZdspTypeOK
    BY <1>2, <1>3, <1>4 DEF ZdspInit, ZdspTypeOK
<1> QED
    BY <1>1, <1>4, <1>5 DEF ClientsInv, ContainersAgree, ClientsAreConnected

LEMMA ClientsInvNext ==
    ASSUME ClientsInv, [ZdspNext]_zdspVars
    PROVE  ClientsInv'
<1>1. CASE UNCHANGED zdspVars
    BY <1>1 DEF zdspVars, ClientsInv, ZdspTypeOK, ContainersAgree, ClientsAreConnected, Clients
<1> QED
    BY <1>1, Peers_Inv, Dsp_Inv, Commands_Inv DEF ZdspNext

-----------------------------------------------------------------------------
\* Type correctness.
THEOREM ZdspTypeCorrect == ZdspSpec => []ZdspTypeOK
<1>1. ClientsInv => ZdspTypeOK
    BY DEF ClientsInv
<1> QED
    BY <1>1, ClientsInvInit, ClientsInvNext, PTL DEF ZdspSpec

\* Whatever clients send, come and go, and whatever the DSP reports: the
\* collections of ZDspClientContainer hold the same clients.
THEOREM ZdspContainersAgree == ZdspSpec => []ContainersAgree
<1>1. ClientsInv => ContainersAgree
    BY DEF ClientsInv
<1> QED
    BY <1>1, ClientsInvInit, ClientsInvNext, PTL DEF ZdspSpec

\* Every client belongs to an open connection, or to telnet.
THEOREM ZdspClientsAreConnected == ZdspSpec => []ClientsAreConnected
<1>1. ClientsInv => ClientsAreConnected
    BY DEF ClientsInv
<1> QED
    BY <1>1, ClientsInvInit, ClientsInvNext, PTL DEF ZdspSpec


-----------------------------------------------------------------------------
(* What may crash.                                                          *)

LEMMA OrderlyIsNext == ASSUME OrderlyNext PROVE ZdspNext
BY DEF OrderlyNext, ZdspNext

\* Every command of a proxy that the counter has an id left for is served.
LEMMA CommandsAreServed ==
    ASSUME ZdspTypeOK, Counted(container), NEW p \in Proxies, WithinIds(p)
    PROVE  Served(p) /\ Counted(Found(p))
BY AddClientServes DEF ZdspTypeOK, WithinIds, Clients, Served, Found

LEMMA Counted_Inv ==
    ASSUME OrderlyInv, OrderlyNext
    PROVE  Counted(container)'
<1> USE DEF OrderlyInv, ClientsInv, ZdspTypeOK, ContainersAgree
<1>1. ASSUME NEW k \in Containers, Agree(k), Counted(k), NEW ps,
             container' \in Without(k, ps)
      PROVE  Counted(container')
    BY <1>1, WithoutAgrees
<1>2. CASE PeerNext
    <2>1. ASSUME NEW peer \in Peers, Connect(peer)
          PROVE  Counted(container')
        BY <2>1 DEF Connect
    <2>2. ASSUME NEW peer \in Peers, Disconnect(peer)
          PROVE  Counted(container')
        BY <1>1, <2>2 DEF Disconnect
    <2> QED
        BY <1>2, <2>1, <2>2 DEF PeerNext
<1>3. CASE DspNext
    <2>1. UNCHANGED container
        BY <1>3 DEF DspNext, DspPost, DspIntHandler
    <2> QED
        BY <2>1
<1>4. ASSUME NEW p \in Proxies, WithinIds(p), CommandNext(p)
      PROVE  Counted(container')
    <2>1. Found(p) \in Containers /\ Agree(Found(p)) /\ Counted(Found(p))
        BY <1>4, FoundAgrees, CommandsAreServed
    <2>2. CASE Release(p)
        BY <1>1, <2>2 DEF Release
    <2>3. ASSUME NEW list, SetCmdList(p, list)
          PROVE  Counted(container')
        BY <2>1, <2>3 DEF SetCmdList
    <2>4. CASE LoadCmdList(p)
        BY <1>1, <2>1, <2>4 DEF LoadCmdList
    <2>5. CASE UnloadCmdListAllClients(p)
        BY <2>5, NoClientsAgree DEF UnloadCmdListAllClients
    <2>6. CASE MakeSuperClient(p)
        BY <2>1, <2>6 DEF MakeSuperClient, Counted, Containers
    <2> QED
        BY <1>4, <2>2, <2>3, <2>4, <2>5, <2>6 DEF CommandNext
<1> QED
    BY <1>2, <1>3, <1>4 DEF OrderlyNext

LEMMA Crash_Inv ==
    ASSUME OrderlyInv, OrderlyNext
    PROVE  OnlyTelnetCrashes'
<1> USE DEF OrderlyInv, ClientsInv
<1>1. CASE PeerNext
    BY <1>1 DEF PeerNext, Connect, Disconnect, OnlyTelnetCrashes
<1>2. ASSUME NEW batch, DspPost(batch)
      PROVE  OnlyTelnetCrashes'
    BY <1>2 DEF DspPost, OnlyTelnetCrashes
<1>3. ASSUME NEW readOk \in BOOLEAN, DspIntHandler(readOk)
      PROVE  OnlyTelnetCrashes'
    <2> DEFINE null == \E i \in DOMAIN sent' :
                          sent'[i].to = Nobody \/ PeerOf[sent'[i].to] = NoPeer
    <2>1. sent' \in Seq([to : Proxies, par : Params])
        BY <1>3, MessagesType DEF DspIntHandler
    <2>2. \A i \in DOMAIN sent' : sent'[i] \in [to : Proxies, par : Params]
        <3> DEFINE M == [to : Proxies, par : Params]
        <3>1. sent' \in Seq(M)
            BY <2>1
        <3> HIDE DEF M, null, OrderlyInv, ClientsInv
        <3>2. \A i \in DOMAIN sent' : sent'[i] \in M
            BY <3>1
        <3> QED
            BY <3>2 DEF M
    <2>3. \A i \in DOMAIN sent' : sent'[i].to # Nobody
        BY <2>2, ZdspAssumption
    <2>4. null => \E i \in DOMAIN sent' : PeerOf[sent'[i].to] = NoPeer
        BY <2>3
    <2>5. crashed' \in IF null THEN BOOLEAN ELSE {FALSE}
        BY <1>3 DEF DspIntHandler, MayCrash
    <2>6. crashed' => null
        <3> HIDE DEF null
        <3> QED
            BY <2>5
    <2> QED
        BY <2>4, <2>6 DEF OnlyTelnetCrashes
<1>4. ASSUME NEW p \in Proxies, WithinIds(p), CommandNext(p)
      PROVE  OnlyTelnetCrashes'
    <2>1. Served(p)
        BY <1>4, CommandsAreServed
    <2>2. CASE LoadCmdList(p)
        <3>1. MayCrash(FALSE)
            BY <2>1, <2>2 DEF LoadCmdList, MayCrash
        <3> QED
            BY <3>1 DEF MayCrash, OnlyTelnetCrashes
    <2> QED
        BY <1>4, <2>2 DEF CommandNext, Release, SetCmdList, UnloadCmdListAllClients,
           MakeSuperClient, CanSend, OnlyTelnetCrashes
<1> QED
    BY <1>1, <1>2, <1>3, <1>4 DEF OrderlyNext, DspNext

LEMMA OrderlyInvInit ==
    ASSUME ZdspInit
    PROVE  OrderlyInv
BY ClientsInvInit, NoClientsAgree DEF ZdspInit, OrderlyInv, OnlyTelnetCrashes

LEMMA OrderlyInvNext ==
    ASSUME OrderlyInv, [OrderlyNext]_zdspVars
    PROVE  OrderlyInv'
<1>1. CASE UNCHANGED zdspVars
    <2>1. ClientsInv'
        BY <1>1, ClientsInvNext DEF OrderlyInv
    <2>2. UNCHANGED <<container, sent, crashed>>
        BY <1>1 DEF zdspVars
    <2> QED
        BY <2>1, <2>2 DEF OrderlyInv, OnlyTelnetCrashes
<1>2. CASE OrderlyNext
    <2>1. ClientsInv'
        BY <1>2, OrderlyIsNext, ClientsInvNext DEF OrderlyInv
    <2> QED
        BY <1>2, <2>1, Counted_Inv, Crash_Inv DEF OrderlyInv
<1> QED
    BY <1>1, <1>2

\* Until the counter of interrupt ids wraps, every command finds or makes its
\* client, and an interrupt is sent to no null client: what crashes the service
\* is a message to the telnet client.
THEOREM ZdspOnlyTelnetCrashes == OrderlySpec => []OnlyTelnetCrashes
<1>1. OrderlyInv => OnlyTelnetCrashes
    BY DEF OrderlyInv
<1> QED
    BY <1>1, OrderlyInvInit, OrderlyInvNext, PTL DEF OrderlySpec

-----------------------------------------------------------------------------
(* What a batch becomes.                                                    *)

\* The messages of a batch: d of them for the super client, and then one for each
\* entry that is for somebody else, in the order of the entries.
SentAs(d, n, index) ==
    /\ DOMAIN sent' = 1 .. d + n
    /\ \A j \in 1 .. n : /\ sent'[d + j].to = FindById(buffer[index[j]].id)
                         /\ sent'[d + j].par = buffer[index[j]].par
    /\ \A i, j \in 1 .. n : i < j => index[i] < index[j]
    /\ \A k \in ForOthers : \E j \in 1 .. n : index[j] = k
    /\ d = 1 => sent'[1].to = SuperClient
    /\ d = 0 => SuperClient = Nobody \/ EntriesFor(SuperClient) = {}

LEMMA BatchMessages ==
    ASSUME ClientsInv, buffer # <<>>, NEW readOk, HandleDspInterrupt(readOk), sent' # <<>>
    PROVE  \E d \in 0 .. 1 : \E n \in Nat :
                \E index \in [1 .. n -> ForOthers] : SentAs(d, n, index)
<1>1. PICK others \in ToTheOthers : sent' = ToTheSuperClient \o others
    BY DEF HandleDspInterrupt, TellAll, NoMessage
<1>2. PICK list \in Kept(buffer, ForOthers) : others = Messages(list)
    BY DEF ToTheOthers
<1>3. buffer \in Seq(Interrupt)
    BY DEF ClientsInv, ZdspTypeOK
<1>4. PICK n \in 0 .. Len(buffer) : \E index \in [1 .. n -> ForOthers] :
        /\ list = [j \in DOMAIN index |-> buffer[index[j]]]
        /\ \A i, j \in DOMAIN index : i < j => index[i] < index[j]
        /\ \A k \in ForOthers : \E j \in DOMAIN index : index[j] = k
    BY DEF Kept
<1>5. PICK index \in [1 .. n -> ForOthers] :
        /\ list = [j \in 1 .. n |-> buffer[index[j]]]
        /\ \A i, j \in 1 .. n : i < j => index[i] < index[j]
        /\ \A k \in ForOthers : \E j \in 1 .. n : index[j] = k
    BY <1>4
<1>6. n \in Nat
    BY <1>3
<1>7. others = [j \in 1 .. n |-> [to |-> FindById(buffer[index[j]].id),
                                  par |-> buffer[index[j]].par]]
    BY <1>2, <1>5 DEF Messages
<1>8. PICK T : T = {others[j] : j \in 1 .. n} \cup {ToTheSuperClient[1]}
    OBVIOUS
<1>9. others \in Seq(T) /\ Len(others) = n
    BY <1>6, <1>7, <1>8
<1>10. CASE SuperClient # Nobody /\ EntriesFor(SuperClient) # {}
    <2>1. PICK m : m = [to |-> SuperClient, par |-> buffer[Len(buffer)].par]
        OBVIOUS
    <2>2. ToTheSuperClient = <<m>>
        BY <1>10, <2>1 DEF ToTheSuperClient, EntriesFor
    <2>3. m \in T /\ <<m>> \in Seq(T) /\ Len(<<m>>) = 1 /\ <<m>>[1] = m
        BY <1>8, <2>2
    <2>4. /\ DOMAIN sent' = 1 .. 1 + n /\ sent'[1] = m
          /\ \A j \in 1 .. n : sent'[1 + j] = others[j]
        BY <1>1, <1>6, <1>9, <2>2, <2>3
    <2>5. sent'[1].to = SuperClient
        BY <2>1, <2>4
    <2>6. \A j \in 1 .. n : /\ sent'[1 + j].to = FindById(buffer[index[j]].id)
                            /\ sent'[1 + j].par = buffer[index[j]].par
        BY <1>7, <2>4
    <2>7. SentAs(1, n, index)
        BY <1>5, <2>4, <2>5, <2>6 DEF SentAs
    <2> QED
        BY <1>6, <2>7
<1>11. CASE ~ (SuperClient # Nobody /\ EntriesFor(SuperClient) # {})
    <2>1. ToTheSuperClient = <<>>
        BY <1>11 DEF ToTheSuperClient, EntriesFor
    <2>2. sent' = others
        BY <1>1, <1>9, <2>1
    <2>3. \A j \in 1 .. n : /\ sent'[0 + j].to = FindById(buffer[index[j]].id)
                            /\ sent'[0 + j].par = buffer[index[j]].par
        BY <1>7, <2>2
    <2>4. DOMAIN sent' = 1 .. 0 + n
        BY <1>6, <1>7, <2>2
    <2>5. SentAs(0, n, index)
        BY <1>5, <1>11, <2>3, <2>4 DEF SentAs
    <2> QED
        BY <1>6, <2>5
<1> QED
    BY <1>10, <1>11

LEMMA HandlerReaches ==
    ASSUME ZdspAssumption, ClientsInv, buffer # <<>>, NEW readOk, HandleDspInterrupt(readOk)
    PROVE  BatchReaches
<1> SUFFICES ASSUME sent' # <<>>
             PROVE  /\ \A p \in Clients \ {SuperClient} :
                         \E entry \in [MessagesTo(p)' -> EntriesFor(p)] :
                            /\ \A i \in MessagesTo(p)' : sent'[i].par = buffer[entry[i]].par
                            /\ \A i, j \in MessagesTo(p)' : i < j => entry[i] < entry[j]
                            /\ \A k \in EntriesFor(p) : \E i \in MessagesTo(p)' : entry[i] = k
                    /\ \A i \in DOMAIN sent' : sent'[i].to = SuperClient => i = 1
                    /\ SuperClient # Nobody /\ EntriesFor(SuperClient) # {}
                           => sent'[1].to = SuperClient
    BY DEF BatchReaches
<1>0. PICK d \in 0 .. 1, n \in Nat : \E index \in [1 .. n -> ForOthers] : SentAs(d, n, index)
    BY BatchMessages
<1>1. PICK index \in [1 .. n -> ForOthers] : SentAs(d, n, index)
    BY <1>0
<1> USE DEF SentAs
<1>2. ASSUME NEW i \in DOMAIN sent', sent'[i].to = SuperClient
      PROVE  i = 1
    <2>0. i \in 1 .. d + n
        BY <1>1
    <2>1. CASE i <= d
        BY <2>0, <2>1
    <2>2. CASE i > d
        <3>1. i - d \in 1 .. n /\ i = d + (i - d)
            BY <2>0, <2>2
        <3>2. index[i - d] \in ForOthers /\ sent'[i].to = FindById(buffer[index[i - d]].id)
            BY <1>1, <3>1
        <3> QED
            BY <1>2, <3>2 DEF ForOthers
    <2> QED
        BY <2>0, <2>1, <2>2
<1>3. SuperClient # Nobody /\ EntriesFor(SuperClient) # {} => sent'[1].to = SuperClient
    BY <1>1
<1>4. ASSUME NEW p \in Clients \ {SuperClient}
      PROVE  \E entry \in [MessagesTo(p)' -> EntriesFor(p)] :
                /\ \A i \in MessagesTo(p)' : sent'[i].par = buffer[entry[i]].par
                /\ \A i, j \in MessagesTo(p)' : i < j => entry[i] < entry[j]
                /\ \A k \in EntriesFor(p) : \E i \in MessagesTo(p)' : entry[i] = k
    <2>1. p # Nobody
        BY DEF ClientsInv, ZdspTypeOK, Containers, Clients, ZdspAssumption
    <2>2. ForOthers \in SUBSET Nat /\ ForOthers \in SUBSET DOMAIN buffer
        BY DEF ForOthers, ClientsInv, ZdspTypeOK
    <2>3. ASSUME NEW i \in MessagesTo(p)'
          PROVE  /\ i - d \in 1 .. n /\ i = d + (i - d)
                 /\ index[i - d] \in EntriesFor(p)
                 /\ sent'[i].par = buffer[index[i - d]].par
        <3>1. i \in 1 .. d + n /\ sent'[i].to = p
            BY <1>1 DEF MessagesTo
        <3>2. i > d
            BY <1>1, <3>1
        <3>3. i - d \in 1 .. n /\ i = d + (i - d)
            BY <1>1, <3>1, <3>2
        <3>4. /\ FindById(buffer[index[i - d]].id) = p
              /\ sent'[i].par = buffer[index[i - d]].par
              /\ index[i - d] \in DOMAIN buffer
            BY <1>1, <2>2, <3>1, <3>3
        <3> QED
            BY <3>3, <3>4 DEF EntriesFor
    <2>4. PICK entry : entry = [i \in MessagesTo(p)' |-> index[i - d]]
        OBVIOUS
    <2>5. entry \in [MessagesTo(p)' -> EntriesFor(p)]
        BY <2>3, <2>4
    <2>6. \A i \in MessagesTo(p)' : sent'[i].par = buffer[entry[i]].par
        BY <2>3, <2>4
    <2>7. ASSUME NEW i \in MessagesTo(p)', NEW j \in MessagesTo(p)', i < j
          PROVE  entry[i] < entry[j]
        <3>1. i - d \in 1 .. n /\ j - d \in 1 .. n /\ i - d < j - d
            BY <1>1, <2>3, <2>7
        <3> QED
            BY <1>1, <2>4, <3>1
    <2>8. ASSUME NEW k \in EntriesFor(p)
          PROVE  \E i \in MessagesTo(p)' : entry[i] = k
        <3>1. k \in ForOthers /\ FindById(buffer[k].id) = p
            BY <2>1 DEF EntriesFor, ForOthers
        <3>2. PICK j \in 1 .. n : index[j] = k
            BY <1>1, <3>1
        <3>3. d + j \in MessagesTo(p)'
            <4>1. d + j \in 1 .. d + n /\ sent'[d + j].to = p
                BY <1>1, <3>1, <3>2
            <4> QED
                BY <1>1, <4>1 DEF MessagesTo
        <3>4. (d + j) - d = j
            BY <1>1
        <3> QED
            BY <2>4, <3>2, <3>3, <3>4
    <2> QED
        BY <2>5, <2>6, <2>7, <2>8
<1> QED
    BY <1>2, <1>3, <1>4

\* Only the handler of the DSP's interrupt sends messages.
LEMMA BatchReachesStep ==
    ASSUME ZdspAssumption, ClientsInv, ZdspNext
    PROVE  BatchReaches
<1>1. CASE sent' = <<>>
    BY <1>1 DEF BatchReaches
<1>2. CASE \E readOk \in BOOLEAN : DspIntHandler(readOk)
    BY <1>2, HandlerReaches DEF DspIntHandler
<1> QED
    BY <1>1, <1>2 DEF ZdspNext, PeerNext, DspNext, CommandNext, Connect, Disconnect, DspPost,
       Release, SetCmdList, LoadCmdList, UnloadCmdListAllClients, MakeSuperClient, Unserved,
       NoMessage

\* handleDspInterrupt (zdspserver.cpp) sends each client all its interrupts of the
\* batch, once and in their order, and the super client one message before all
\* others, or nobody anything; whatever clients come and go.
THEOREM ZdspBatchReachesClients == ZdspSpec => BatchReachesClients
<1>1. ClientsInv /\ [ZdspNext]_zdspVars => [BatchReaches]_zdspVars
    BY BatchReachesStep, ZdspAssumption
<1> QED
    BY <1>1, ClientsInvInit, ClientsInvNext, PTL DEF ZdspSpec, BatchReachesClients

=============================================================================
