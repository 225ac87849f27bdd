---------------------------- MODULE ZdspClients ----------------------------
(***************************************************************************)
(* zdsp1d: the clients of the DSP and the way its interrupts take to them. *)
(*                                                                         *)
(* A client object is created by the first command that comes with an      *)
(* unknown proxy connection id.  It gets an interrupt id, which the        *)
(* commands compiled for the client carry, and which the DSP puts into the *)
(* upper half of each interrupt it reports.  The object goes when its peer *)
(* closes, when its proxy is released, when its own MEMORY:SET fails, or   *)
(* when anybody sends MEMORY:CLALL.                                        *)
(*                                                                         *)
(* There is at most one object per proxy connection id, so an object is    *)
(* named by this id.  ZDspClientContainer is one record, because handlers  *)
(* change it more than once.                                               *)
(***************************************************************************)
EXTENDS Naturals, SequencesExt, Lists

CONSTANTS Proxies,     \* proxy connection ids
          Peers,       \* TCP peers
          NoPeer,      \* nullptr: the peer of the telnet client
          PeerOf,      \* the peer a proxy connection id comes through
          Nobody,      \* nullptr in place of a client
          IdLimit,     \* interrupt ids are counted modulo this (2^16)
          MaxPending,  \* DSP_MAX_PENDING_INTERRUPT_COUNT
          Params,      \* lower halves of interrupts
          WithLists    \* bound: the proxies that set command lists

ASSUME ZdspAssumption ==
    /\ PeerOf \in [Proxies -> Peers \cup {NoPeer}]
    /\ NoPeer \notin Peers
    /\ Nobody \notin Proxies
    /\ IdLimit \in Nat /\ IdLimit > 1
    /\ MaxPending \in Nat \ {0}

Ids == 1 .. (IdLimit - 1)

VARIABLES
    connected,   \* peers with an open connection
    container,   \* ZDspClientContainer
    cmdList,     \* the command lists a client has set: whether they compile
    program,     \* DSP: which interrupt ids it reports, and (history) for whom
    buffer,      \* DSP: CTRLCMDPAR, interrupts it waits to see acknowledged
    sent,        \* the DSPINT messages of the step that has just been taken
    crashed      \* a null client or the null peer was dereferenced

zdspVars == <<connected, container, cmdList, program, buffer, sent, crashed>>

Lists == {"none", "good", "bad"}

Interrupt == [id : Ids, owner : Proxies, par : Params]

\* m_dspInterruptId is the field of the client object, 0 when there is none.
Containers ==
    [m_clientsChonological : Seq(Proxies),
     m_clientsByDspInterruptId : [Ids -> Proxies \cup {Nobody}],
     m_clientsByProxyConnectionId : SUBSET Proxies,
     m_currentDspInterruptId : 0 .. (IdLimit - 1),
     m_dspSuperClient : Proxies \cup {Nobody},
     m_dspInterruptId : [Proxies -> Ids \cup {0}]]

ZdspTypeOK ==
    /\ connected \in SUBSET Peers
    /\ container \in Containers
    /\ cmdList \in [Proxies -> Lists]
    /\ program \in SUBSET (Ids \X Proxies)
    /\ buffer \in Seq(Interrupt)
    /\ sent \in Seq([to : Proxies, par : Params])
    /\ crashed \in BOOLEAN

NoClients ==
    [m_clientsChonological |-> <<>>,
     m_clientsByDspInterruptId |-> [i \in Ids |-> Nobody],
     m_clientsByProxyConnectionId |-> {},
     m_currentDspInterruptId |-> 0,
     m_dspSuperClient |-> Nobody,
     m_dspInterruptId |-> [p \in Proxies |-> 0]]

ZdspInit ==
    /\ connected = {}
    /\ container = NoClients
    /\ cmdList = [p \in Proxies |-> "none"]
    /\ program = {}
    /\ buffer = <<>>
    /\ sent = <<>>
    /\ crashed = FALSE

-----------------------------------------------------------------------------
(* ZDspClientContainer.                                                     *)

\* calcDspInterruptId: 0 is left out.
NextId(i) == IF i + 1 = IdLimit THEN 1 ELSE i + 1

AddClient(k, p) ==
    LET id == NextId(k.m_currentDspInterruptId)
    IN  IF p \in k.m_clientsByProxyConnectionId
        THEN k
        ELSE IF k.m_clientsByDspInterruptId[id] # Nobody
        THEN [k EXCEPT !.m_currentDspInterruptId = id]
        ELSE [k EXCEPT
                !.m_currentDspInterruptId = id,
                !.m_clientsChonological = Append(@, p),
                !.m_clientsByDspInterruptId[id] = p,
                !.m_clientsByProxyConnectionId = @ \cup {p},
                !.m_dspInterruptId[p] = id]

\* Mutant: the counter starts again although there are clients.
ResetInterruptIdOnNoClients_Always(k) ==
    [k EXCEPT !.m_currentDspInterruptId = 0]

ResetInterruptIdOnNoClients(k) ==
    IF \A i \in Ids : k.m_clientsByDspInterruptId[i] = Nobody
    THEN [k EXCEPT !.m_currentDspInterruptId = 0]
    ELSE k

\* The places of the list of clients at which none of gone is.
Staying(k, gone) ==
    {i \in DOMAIN k.m_clientsChonological : k.m_clientsChonological[i] \notin gone}

\* Mutant: the entry in the hash of the interrupt ids is forgotten.
Without_IdStays(k, ps) ==
    LET gone == ps \cap k.m_clientsByProxyConnectionId
    IN  {ResetInterruptIdOnNoClients(
            [k EXCEPT
                !.m_clientsChonological = list,
                !.m_clientsByProxyConnectionId = @ \ gone,
                !.m_dspSuperClient = IF @ \in gone THEN Nobody ELSE @,
                !.m_dspInterruptId =
                    [p \in Proxies |-> IF p \in gone THEN 0 ELSE @[p]]]) :
            list \in Kept(k.m_clientsChonological, Staying(k, gone))}

\* delClient for one proxy connection id or, one after the other, for several.
Without(k, ps) ==
    LET gone == ps \cap k.m_clientsByProxyConnectionId
    IN  {ResetInterruptIdOnNoClients(
            [k EXCEPT
                !.m_clientsChonological = list,
                !.m_clientsByProxyConnectionId = @ \ gone,
                !.m_clientsByDspInterruptId =
                    [i \in Ids |-> IF \E p \in gone : k.m_dspInterruptId[p] = i
                                   THEN Nobody ELSE @[i]],
                !.m_dspSuperClient = IF @ \in gone THEN Nobody ELSE @,
                !.m_dspInterruptId =
                    [p \in Proxies |-> IF p \in gone THEN 0 ELSE @[p]]]) :
            list \in Kept(k.m_clientsChonological, Staying(k, gone))}

\* Mutant: the list is changed under the loop, which skips every second one.
OfPeer_EverySecond(k, peer) ==
    LET list == k.m_clientsChonological
    IN  {list[i] : i \in {i \in DOMAIN list : PeerOf[list[i]] = peer /\ i % 2 = 1}}

\* delClients: the clients of a peer.
OfPeer(k, peer) ==
    {p \in ToSet(k.m_clientsChonological) : PeerOf[p] = peer}

FindById(id) == container.m_clientsByDspInterruptId[id]

Clients == container.m_clientsByProxyConnectionId

\* What a deleted object had set is gone with it.
ListsOf(k) ==
    [p \in Proxies |->
        IF p \in k.m_clientsByProxyConnectionId THEN cmdList[p] ELSE "none"]

-----------------------------------------------------------------------------
(* Connections and commands.  Undefined behaviour may crash the service.    *)

NoMessage == sent' = <<>>

MayCrash(undefined) == crashed' \in IF undefined THEN BOOLEAN ELSE {FALSE}

\* The telnet client needs no peer.
CanSend(p) == ~crashed /\ (PeerOf[p] = NoPeer \/ PeerOf[p] \in connected)

\* The container that a command of p finds.
Found(p) == AddClient(container, p)

Served(p) == p \in Found(p).m_clientsByProxyConnectionId

Connect(peer) ==
    /\ ~crashed
    /\ peer \notin connected
    /\ connected' = connected \cup {peer}
    /\ NoMessage
    /\ UNCHANGED <<container, cmdList, program, buffer, crashed>>

\* onProtobufDisconnect.  The DSP goes on with the program it has.
Disconnect(peer) ==
    /\ ~crashed
    /\ peer \in connected
    /\ connected' = connected \ {peer}
    /\ container' \in Without(container, OfPeer(container, peer))
    /\ cmdList' = ListsOf(container')
    /\ NoMessage
    /\ UNCHANGED <<program, buffer, crashed>>

\* The netcommand RELEASE of a proxy.  Telnet has no such thing.
Release(p) ==
    /\ CanSend(p)
    /\ PeerOf[p] # NoPeer
    /\ container' \in Without(container, {p})
    /\ cmdList' = ListsOf(container')
    /\ NoMessage
    /\ UNCHANGED <<connected, program, buffer, crashed>>

\* A command that finds no client: undefined when it needs one.
Unserved(p) ==
    /\ CanSend(p)
    /\ ~Served(p)
    /\ container' = Found(p)
    /\ MayCrash(TRUE)
    /\ NoMessage
    /\ UNCHANGED <<connected, cmdList, program, buffer>>

\* MEMORY:CYCLIST and MEMORY:INTLIST: stored as they are.
SetCmdList(p, list) ==
    /\ CanSend(p) /\ Served(p)
    /\ container' = Found(p)
    /\ cmdList' = [cmdList EXCEPT ![p] = list]
    /\ NoMessage
    /\ UNCHANGED <<connected, program, buffer, crashed>>

\* compileCmdListsForAllClientsToCompileLists stops at the first bad list.
Compiles(k) == \A p \in k.m_clientsByProxyConnectionId : cmdList[p] # "bad"

ProgramOf(k) ==
    {<<k.m_dspInterruptId[p], p>> :
        p \in {p \in k.m_clientsByProxyConnectionId : cmdList[p] = "good"}}

\* MEMORY:SET: all lists of all clients are compiled and uploaded.
LoadCmdList(p) ==
    /\ CanSend(p)
    /\ IF Compiles(Found(p))
       THEN /\ container' = Found(p)
            /\ program' = ProgramOf(Found(p))
       ELSE /\ container' \in Without(Found(p), {p})
            /\ UNCHANGED program
    /\ cmdList' = ListsOf(container')
    /\ MayCrash(~Compiles(Found(p)) /\ ~Served(p))
    /\ NoMessage
    /\ UNCHANGED <<connected, buffer>>

\* MEMORY:CLALL: delAllClients, then an upload without any client.
UnloadCmdListAllClients(p) ==
    /\ CanSend(p)
    /\ container' = NoClients
    /\ program' = ProgramOf(NoClients)
    /\ cmdList' = ListsOf(container')
    /\ NoMessage
    /\ UNCHANGED <<connected, buffer, crashed>>

\* SYSTEM:DSP:DSPSUPERCLIENT: the first one to ask.
MakeSuperClient(p) ==
    /\ CanSend(p) /\ Served(p)
    /\ container' =
            [Found(p) EXCEPT !.m_dspSuperClient = IF @ = Nobody THEN p ELSE @]
    /\ NoMessage
    /\ UNCHANGED <<connected, cmdList, program, buffer, crashed>>

-----------------------------------------------------------------------------
(* DSP interrupts.                                                          *)

\* The DSP reports what its program raised and waits for CTRLACK.
DspPost(batch) ==
    /\ ~crashed
    /\ buffer = <<>>
    /\ batch # <<>>
    /\ \A i \in DOMAIN batch : <<batch[i].id, batch[i].owner>> \in program
    /\ buffer' = batch
    /\ NoMessage
    /\ UNCHANGED <<connected, container, cmdList, program, crashed>>

SuperClient == container.m_dspSuperClient

\* The entries of the batch for somebody but the super client.
ForOthers ==
    {i \in DOMAIN buffer : FindById(buffer[i].id) \notin {Nobody, SuperClient}}

Messages(entries) ==
    [i \in DOMAIN entries |->
        [to |-> FindById(entries[i].id), par |-> entries[i].par]]

\* Mutant: the second loop starts at the entry behind the first one.
ToTheOthers_SkipsFirst == {Messages(e) : e \in Kept(buffer, ForOthers \ {1})}

\* The second loop: each entry to its client, the super client left out.
ToTheOthers == {Messages(e) : e \in Kept(buffer, ForOthers)}

\* The first loop: once, with the parameter of the last entry of the batch.
ToTheSuperClient ==
    IF SuperClient # Nobody /\ \E i \in DOMAIN buffer : FindById(buffer[i].id) = SuperClient
    THEN <<[to |-> SuperClient, par |-> buffer[Len(buffer)].par]>>
    ELSE <<>>

TellAll(readOk) ==
    IF Clients # {} /\ readOk /\ Len(buffer) <= MaxPending
    THEN \E others \in ToTheOthers : sent' = ToTheSuperClient \o others
    ELSE NoMessage

\* Mutant: without clients nobody acknowledges.
HandleDspInterrupt_NoAckWhenEmpty(readOk) ==
    /\ Clients # {}
    /\ TellAll(readOk)
    /\ buffer' = <<>>

\* handleDspInterrupt tells nobody when there is no client to read through,
\* the device cannot be read or the batch is too long.  It always acknowledges.
HandleDspInterrupt(readOk) ==
    /\ TellAll(readOk)
    /\ buffer' = <<>>

\* A message to the telnet client goes to the null peer.
DspIntHandler(readOk) ==
    /\ ~crashed
    /\ buffer # <<>>
    /\ HandleDspInterrupt(readOk)
    /\ MayCrash(\E i \in DOMAIN sent' :
                    sent'[i].to = Nobody \/ PeerOf[sent'[i].to] = NoPeer)
    /\ UNCHANGED <<connected, container, cmdList, program>>

-----------------------------------------------------------------------------
BatchesUpTo(n) == UNION {[1 .. k -> Interrupt] : k \in 1 .. n}

Batches == {b \in BatchesUpTo(MaxPending + 1) :
                \A i \in DOMAIN b : <<b[i].id, b[i].owner>> \in program}

PeerNext == \E peer \in Peers : Connect(peer) \/ Disconnect(peer)

DspNext ==
    \/ \E batch \in Batches : DspPost(batch)
    \/ \E readOk \in BOOLEAN : DspIntHandler(readOk)

CommandNext(p) ==
    \/ Release(p)
    \/ \E list \in Lists : p \in WithLists /\ SetCmdList(p, list)
    \/ LoadCmdList(p)
    \/ UnloadCmdListAllClients(p)
    \/ MakeSuperClient(p)

ZdspNext ==
    \/ PeerNext
    \/ DspNext
    \/ \E p \in Proxies : CommandNext(p) \/ Unserved(p)

\* Bound: no new client when the counter is at its end, so it does not wrap.
WithinIds(p) ==
    p \in Clients \/ container.m_currentDspInterruptId + 1 < IdLimit

OrderlyNext ==
    \/ PeerNext
    \/ DspNext
    \/ \E p \in Proxies : WithinIds(p) /\ CommandNext(p)

\* The event loop reads the pipe in each of its rounds.
HandlerFairness == WF_zdspVars(\E readOk \in BOOLEAN : DspIntHandler(readOk))

ZdspSpec == ZdspInit /\ [][ZdspNext]_zdspVars

OrderlySpec == ZdspInit /\ [][OrderlyNext]_zdspVars /\ HandlerFairness

-----------------------------------------------------------------------------
(* Properties.                                                              *)

\* The three collections of ZDspClientContainer hold the same clients, and the
\* super client is one of them: no deleted object is pointed to from anywhere.
Agree(k) ==
    /\ IsInjective(k.m_clientsChonological)
    /\ ToSet(k.m_clientsChonological) = k.m_clientsByProxyConnectionId
    /\ \A id \in Ids, p \in Proxies :
            k.m_clientsByDspInterruptId[id] = p
                <=> p \in k.m_clientsByProxyConnectionId /\ k.m_dspInterruptId[p] = id
    /\ \A p \in k.m_clientsByProxyConnectionId : k.m_dspInterruptId[p] \in Ids
    /\ k.m_dspSuperClient \in k.m_clientsByProxyConnectionId \cup {Nobody}

ContainersAgree == Agree(container)

\* Every client belongs to an open connection or to telnet: what sends a DSPINT
\* message never goes to a peer that is no more.
ClientsAreConnected ==
    \A p \in Clients : PeerOf[p] = NoPeer \/ PeerOf[p] \in connected

\* The service dereferences no null client, and a null peer only when the
\* telnet client is sent an interrupt, its own or that of a stale program.
OnlyTelnetCrashes ==
    crashed => \E i \in DOMAIN sent : PeerOf[sent[i].to] = NoPeer

\* The entries of the batch that are for a client, and the messages it is sent.
EntriesFor(p) == {i \in DOMAIN buffer : FindById(buffer[i].id) = p}
MessagesTo(p) == {i \in DOMAIN sent : sent[i].to = p}

\* What a batch holds for a client reaches it complete, in order and once; a
\* batch goes out to everybody or, read error or overflow, to nobody.  The
\* super client is told once, before all the others.
BatchReaches ==
    buffer # <<>> /\ buffer' = <<>> /\ sent' # <<>> =>
        /\ \A p \in Clients \ {SuperClient} :
             \E entry \in [MessagesTo(p)' -> EntriesFor(p)] :
                /\ \A i \in MessagesTo(p)' : sent'[i].par = buffer[entry[i]].par
                /\ \A i, j \in MessagesTo(p)' : i < j => entry[i] < entry[j]
                /\ \A k \in EntriesFor(p) : \E i \in MessagesTo(p)' : entry[i] = k
        /\ \A i \in DOMAIN sent' : sent'[i].to = SuperClient => i = 1
        /\ SuperClient # Nobody /\ EntriesFor(SuperClient) # {}
               => sent'[1].to = SuperClient

BatchReachesClients == [][BatchReaches]_zdspVars

\* The DSP gets its acknowledge, whatever became of its clients in between: it
\* does not report again before.
DspIsAcknowledged == buffer # <<>> ~> buffer = <<>>

=============================================================================
