-------------------------- MODULE ServiceClients --------------------------
(***************************************************************************)
(* Measuring modules as clients of a service: the client interfaces on top *)
(* of Zera::Proxy, the connections with their messages, and the service's  *)
(* PCBServer, which answers some commands at once, others when its         *)
(* controller has done them, and notifies subscribers in between.          *)
(*                                                                         *)
(* What a module makes of the answers is not in this repository; heard is  *)
(* what a module that follows the protocol knows of a notifier's text: it  *)
(* registers before it reads, and reads again after a notification without *)
(* a value.                                                                *)
(***************************************************************************)
EXTENDS Naturals, Proxy, Subscriptions, ClientMessages

CONSTANTS KindOf,           \* the interface a client is used by
          Uses,             \* the calls a client's module makes
          FirstText,        \* what the NotificationStrings are at start-up
          MsgNrLimit,       \* width of message numbers, 2^32 in the code
          PipeLimit         \* bound: messages on a connection, per direction

ASSUME ServiceClientsAssumption ==
    /\ KindOf \in [ProxyClients -> InterfaceKinds]
    /\ \A c \in ProxyClients : Uses[c] \subseteq DOMAIN Calls[KindOf[c]]
    /\ \A kind \in InterfaceKinds : "RELEASE" \notin DOMAIN Calls[kind]
    /\ Notifiers # {}
    /\ Subscribers = ProxyClients
    /\ ServerPeers = NetPeers
    /\ FirstText \in Texts
    /\ MsgNrLimit \in Nat /\ MsgNrLimit > 2
    /\ PipeLimit \in Nat /\ PipeLimit > 0

VARIABLES
    m_nMsgNr,          \* NotZeroNumGen, one for the process
    m_MsgNrCmdList,    \* per client's interface: enumerator of a message number
    toServer,          \* messages on their way, per peer
    toClient,
    delayed,           \* commands the service's controller has to do
    wants,             \* a module has sent its registration for a notifier
    heard              \* the text a module knows, NoText when it has to ask

clientVars == <<m_nMsgNr, m_MsgNrCmdList, toServer, toClient, delayed, wants, heard>>
vars == <<proxyVars, subscriptionVars, clientVars>>

MsgNrs == 1 .. MsgNrLimit - 1
NoCommand == "nothing"

CallNames == {"RELEASE"} \cup UNION {Uses[c] : c \in ProxyClients}

Message == [client : ProxyClients, nr : 0 .. MsgNrLimit - 1, call : CallNames,
            notifier : Notifiers, text : Texts \cup {NoText}]

Command == {m \in Message : m.call = "setRange" => m.text \in Texts}

Notified == [client : ProxyClients, nr : {0}, notifier : Notifiers, text : Texts \cup {NoText}]

DelayedCmd == [peer : NetPeers, client : ProxyClients, nr : 0 .. MsgNrLimit - 1,
               call : CallNames, notifier : Notifiers, text : Texts]

\* What the methods of the clients put into their lists.
Enumerators == {NoCommand} \cup UNION {{Calls[KindOf[c]][call] : call \in Uses[c]} : c \in ProxyClients}

ClientsTypeOK ==
    /\ ProxyTypeOK
    /\ SubscriptionTypeOK
    /\ m_nMsgNr \in 0 .. MsgNrLimit - 1
    /\ m_MsgNrCmdList \in [ProxyClients -> [MsgNrs -> Enumerators]]
    /\ toServer \in [NetPeers -> Seq(Command)]
    /\ toClient \in [NetPeers -> Seq(Message \cup Notified)]
    /\ delayed \in Seq(DelayedCmd)
    /\ wants \in [ProxyClients -> SUBSET Notifiers]
    /\ heard \in [ProxyClients -> [Notifiers -> Texts \cup {NoText}]]

Init ==
    /\ ProxyInit
    /\ SubscriptionInit(FirstText)
    /\ m_nMsgNr = 0
    /\ m_MsgNrCmdList = [c \in ProxyClients |-> [n \in MsgNrs |-> NoCommand]]
    /\ toServer = [p \in NetPeers |-> <<>>]
    /\ toClient = [p \in NetPeers |-> <<>>]
    /\ delayed = <<>>
    /\ wants = [c \in ProxyClients |-> {}]
    /\ heard = [c \in ProxyClients |-> [n \in Notifiers |-> NoText]]

-----------------------------------------------------------------------------
(* The process: connections and commands.                                  *)

\* What a message sent to p does: a peer that is not connected drops it.
SendTo(queues, p, messages, isUp) ==
    IF isUp THEN [queues EXCEPT ![p] = @ \o messages] ELSE queues

ServerGets(p, message) ==
    toServer' = SendTo(toServer, p, <<message>>,
                       m_peerState[p] = "open" /\ p \in serverSees)

Connect(c) ==
    /\ GetConnectionSmart(c)
    /\ UNCHANGED <<subscriptionVars, clientVars>>

StartConnection(c) ==
    /\ StartConnectionSmart(c)
    /\ UNCHANGED <<subscriptionVars, clientVars>>

\* The module goes, with its interface and its client.
Release(c) ==
    /\ ReleaseConnection(c)
    /\ Len(toServer[m_ConnectionHash[c]]) < PipeLimit + 1
    /\ ServerGets(m_ConnectionHash[c],
                  [client |-> c, nr |-> 0, call |-> "RELEASE",
                   notifier |-> CHOOSE n \in Notifiers : TRUE, text |-> NoText])
    /\ m_MsgNrCmdList' = [m_MsgNrCmdList EXCEPT ![c] = [n \in MsgNrs |-> NoCommand]]
    /\ wants' = [wants EXCEPT ![c] = {}]
    /\ heard' = [heard EXCEPT ![c] = [n \in Notifiers |-> NoText]]
    /\ UNCHANGED <<subscriptionVars, m_nMsgNr, toClient, delayed>>

\* NotZeroNumGen::getMsgNr
GetMsgNr == IF m_nMsgNr = MsgNrLimit - 1 THEN 1 ELSE m_nMsgNr + 1

\* Numbers of commands whose answer has not come.
InTransit ==
    (UNION {{toServer[p][i].nr : i \in DOMAIN toServer[p]} : p \in NetPeers})
      \cup (UNION {{toClient[p][i].nr : i \in DOMAIN toClient[p]} : p \in NetPeers})
      \cup {delayed[i].nr : i \in DOMAIN delayed}

\* A method of the interface: transmitCommand, then the entry in the list.
\* Modules send when they have been told that they are connected, and 2^32
\* numbers are enough for the one to be free (the only bound on commands).
SendCommand(c, call, n, text) ==
    LET nr == GetMsgNr
        p == m_ConnectionHash[c]
    IN  /\ c \in Living
        /\ call \in Uses[c]
        /\ told[c] = "connected"
        /\ Len(toServer[p]) < PipeLimit
        /\ nr \notin InTransit \ {0}
        /\ m_nMsgNr' = nr
        /\ ServerGets(p, [client |-> c, nr |-> nr, call |-> call,
                          notifier |-> n, text |-> text])
        /\ m_MsgNrCmdList' = [m_MsgNrCmdList EXCEPT ![c][nr] = Calls[KindOf[c]][call]]
        /\ UNCHANGED <<proxyVars, subscriptionVars, toClient, delayed>>

NotifierCalls == {"setRange", "getRange", "registerNotifier", "unregisterNotifiers"}

\* A call that neither reads nor changes a notifier.
Ask(c) ==
    /\ \E call \in Uses[c] \ NotifierCalls :
            SendCommand(c, call, CHOOSE n \in Notifiers : TRUE, NoText)
    /\ UNCHANGED <<wants, heard>>

SetRange(c) ==
    /\ \E n \in Notifiers, t \in Texts : SendCommand(c, "setRange", n, t)
    /\ UNCHANGED <<wants, heard>>

\* A module waits for these before it registers again: a text that was read, or
\* notified, for the registration before could be taken for the current one.
IsWaiting(c) ==
    \E nr \in MsgNrs : m_MsgNrCmdList[c][nr] \in {"getrange", "unregnotifier"}

\* With or without the value; NoText stands for "without".
RegisterNotifier(c) ==
    /\ ~ IsWaiting(c)
    /\ \E n \in Notifiers \ wants[c], t \in {NoText, FirstText} :
        /\ SendCommand(c, "registerNotifier", n, t)
        /\ wants' = [wants EXCEPT ![c] = @ \cup {n}]
    /\ UNCHANGED heard

UnregisterNotifiers(c) ==
    /\ wants[c] # {}
    /\ SendCommand(c, "unregisterNotifiers", CHOOSE n \in Notifiers : TRUE, NoText)
    /\ wants' = [wants EXCEPT ![c] = {}]
    /\ heard' = [heard EXCEPT ![c] = [n \in Notifiers |-> NoText]]

Read(c) ==
    /\ \E n \in wants[c] : heard[c][n] = NoText /\ SendCommand(c, "getRange", n, NoText)
    /\ UNCHANGED <<wants, heard>>

\* decodeProtobuffAnswer: the enumerator that is switched on.
CmdSendEnumVal(c, nr) ==
    IF nr = 0 THEN InterruptOf[KindOf[c]]
    ELSE IF m_MsgNrCmdList[c][nr] = NoCommand THEN FirstOf[KindOf[c]]
    ELSE m_MsgNrCmdList[c][nr]

\* Mutant: the entry is looked up and stays.
TakeEntry_Kept(c, nr) == m_MsgNrCmdList

\* Mutant: the list is cleared with the answer.
TakeEntry_All(c, nr) ==
    [m_MsgNrCmdList EXCEPT ![c] = [n \in MsgNrs |-> NoCommand]]

\* m_MsgNrCmdList.take
TakeEntry(c, nr) ==
    IF nr = 0 THEN m_MsgNrCmdList ELSE [m_MsgNrCmdList EXCEPT ![c][nr] = NoCommand]

\* handleReceiveMessage and receiveAnswer: messages for clients that have been
\* released are ignored, an answer takes its entry from the list.
ReceiveAnswer(p) ==
    LET m == Head(toClient[p])
        c == m.client
        cmd == CmdSendEnumVal(c, m.nr)
    IN  /\ m_peerState[p] = "open"
        /\ toClient[p] # <<>>
        /\ toClient' = [toClient EXCEPT ![p] = Tail(@)]
        /\ IF c \notin Living THEN UNCHANGED <<m_MsgNrCmdList, heard>>
           ELSE /\ m_MsgNrCmdList' = TakeEntry(c, m.nr)
                /\ heard' =
                    IF /\ Conversion(KindOf[c], cmd) = "string"
                       /\ cmd \in {"getrange", "pcbinterrupt"}
                       /\ m.notifier \in wants[c]
                    THEN [heard EXCEPT ![c][m.notifier] = m.text]
                    ELSE heard
        /\ UNCHANGED <<proxyVars, subscriptionVars, m_nMsgNr, toServer, delayed, wants>>

-----------------------------------------------------------------------------
(* The service.                                                            *)

Answer(m, text) == [client |-> m.client, nr |-> m.nr, notifier |-> m.notifier,
                    text |-> text, call |-> m.call]

\* The next command on p is one of calls.
Serves(p, calls) ==
    /\ p \in serverSees
    /\ toServer[p] # <<>>
    /\ Head(toServer[p]).call \in calls
    /\ toServer' = [toServer EXCEPT ![p] = Tail(@)]
    /\ UNCHANGED <<proxyVars, m_nMsgNr, m_MsgNrCmdList, wants, heard>>

ClientGets(p, messages) ==
    toClient' = SendTo(toClient, p, messages, m_peerState[p] = "open")

\* executeCommandProto on a netcommand.
ServeRelease(p) ==
    /\ Serves(p, {"RELEASE"})
    /\ RemoveAllSubscribers(p, {Head(toServer[p]).client})
    /\ UNCHANGED <<m_sValue, toClient, delayed>>

ServeRegister(p) ==
    LET m == Head(toServer[p])
    IN  /\ Serves(p, {"registerNotifier"})
        /\ AddSubscriber(m.notifier, [netPeer |-> p, client |-> m.client,
                                      withValue |-> m.text # NoText])
        /\ ClientGets(p, <<Answer(m, NoText)>>)
        /\ UNCHANGED <<m_sValue, delayed>>

ServeUnregister(p) ==
    LET m == Head(toServer[p])
    IN  /\ Serves(p, {"unregisterNotifiers"})
        /\ RemoveAllSubscribers(p, {m.client})
        /\ ClientGets(p, <<Answer(m, NoText)>>)
        /\ UNCHANGED <<m_sValue, delayed>>

ServeRead(p) ==
    LET m == Head(toServer[p])
    IN  /\ Serves(p, {"getRange"})
        /\ ClientGets(p, <<Answer(m, m_sValue[m.notifier])>>)
        /\ UNCHANGED <<subscriptionVars, delayed>>

ServePlain(p) ==
    /\ Serves(p, (UNION {Uses[c] : c \in ProxyClients}) \ NotifierCalls)
    /\ ClientGets(p, <<Answer(Head(toServer[p]), NoText)>>)
    /\ UNCHANGED <<subscriptionVars, delayed>>

\* setRangeCommon with a controller that needs time: startAsyncRangeIo.
ServeSetRange(p) ==
    LET m == Head(toServer[p])
    IN  /\ Serves(p, {"setRange"})
        /\ delayed' = Append(delayed, [peer |-> p, client |-> m.client, nr |-> m.nr,
                                       notifier |-> m.notifier, text |-> m.text,
                                       call |-> m.call])
        /\ UNCHANGED <<subscriptionVars, toClient>>

\* The text of notifier n changes; then the answers are sent.
Notifying(n, text, answers) ==
    LET notified(p) == NotifyAllSubscribers(n, text, p)
    IN  /\ \E sent \in OneOfEach(NetPeers, notified) :
              toClient' = [p \in NetPeers |->
                              IF m_peerState[p] = "open"
                                THEN toClient[p] \o sent[p] \o answers[p] ELSE toClient[p]]
        /\ SetText(n, text)

\* sigCmdDone of the delayed command, which is answered when its peer is there.
CmdDone ==
    LET m == Head(delayed)
        answers == [p \in NetPeers |->
                       IF p = m.peer /\ p \in serverSees THEN <<Answer(m, NoText)>> ELSE <<>>]
    IN  /\ delayed # <<>>
        /\ \A p \in NetPeers : Len(toClient[p]) <= PipeLimit + 1
        /\ Notifying(m.notifier, m.text, answers)
        /\ delayed' = Tail(delayed)
        /\ UNCHANGED <<proxyVars, m_subscriberVector, m_nMsgNr, m_MsgNrCmdList,
                       toServer, wants, heard>>

\* The service changes a NotificationString by itself, e.g. on a plugged device.
Assign(n) ==
    /\ \A p \in NetPeers : Len(toClient[p]) < PipeLimit
    /\ \E text \in Texts \ {m_sValue[n]} : Notifying(n, text, [p \in NetPeers |-> <<>>])
    /\ UNCHANGED <<proxyVars, m_subscriberVector, m_nMsgNr, m_MsgNrCmdList,
                   toServer, delayed, wants, heard>>

\* forceTrigger, e.g. when the measuring mode decides which ranges there are.
Trigger(n) ==
    LET notified(p) == ForceTrigger(n, p)
    IN  /\ \A p \in NetPeers : Len(toClient[p]) < PipeLimit
        /\ \E sent \in OneOfEach(NetPeers, notified) :
              toClient' = [p \in NetPeers |->
                              IF m_peerState[p] = "open" THEN toClient[p] \o sent[p]
                              ELSE toClient[p]]
        /\ UNCHANGED <<proxyVars, subscriptionVars, m_nMsgNr, m_MsgNrCmdList,
                       toServer, delayed, wants, heard>>

-----------------------------------------------------------------------------
(* The connections.                                                        *)

Establish(p) ==
    /\ Established(p)
    /\ UNCHANGED <<subscriptionVars, clientVars>>

Refuse(p) ==
    /\ Refused(p)
    /\ UNCHANGED <<subscriptionVars, clientVars>>

\* A connection that the process no longer has delivers nothing to it.
Unread(p) == toClient' = [toClient EXCEPT ![p] = <<>>]

LoseConnection(p) ==
    /\ ConnectionClosed(p)
    /\ Unread(p)
    /\ UNCHANGED <<subscriptionVars, m_nMsgNr, m_MsgNrCmdList, toServer,
                   delayed, wants, heard>>

DeleteNetPeer(p) ==
    /\ DeletePeer(p)
    /\ Unread(p)
    /\ UNCHANGED <<subscriptionVars, m_nMsgNr, m_MsgNrCmdList, toServer,
                   delayed, wants, heard>>

\* onNotifyPeerConnectionClosed: an empty client id stands for all clients.
NotifyPeerConnectionClosed(p) ==
    /\ ServerLosesPeer(p)
    /\ RemoveAllSubscribers(p, ProxyClients)
    /\ toServer' = [toServer EXCEPT ![p] = <<>>]
    /\ UNCHANGED <<m_sValue, m_nMsgNr, m_MsgNrCmdList, toClient, delayed, wants, heard>>

-----------------------------------------------------------------------------
Process(c) == \/ Connect(c) \/ StartConnection(c) \/ Release(c)
              \/ Ask(c) \/ SetRange(c) \/ RegisterNotifier(c)
              \/ UnregisterNotifiers(c) \/ Read(c)

Serve(p) == \/ ServeRelease(p) \/ ServeRegister(p) \/ ServeUnregister(p)
            \/ ServeRead(p) \/ ServePlain(p) \/ ServeSetRange(p)

Connection(p) == \/ Establish(p) \/ Refuse(p) \/ LoseConnection(p)
                 \/ DeleteNetPeer(p) \/ NotifyPeerConnectionClosed(p)

Next == \/ \E c \in ProxyClients : Process(c)
        \/ \E p \in NetPeers : Serve(p) \/ ReceiveAnswer(p) \/ Connection(p)
        \/ CmdDone
        \/ \E n \in Notifiers : Assign(n) \/ Trigger(n)

\* Event loops handle what has arrived, connections are answered or refused, a
\* closed one is noticed by the other end, and the controller does its commands.
Fairness ==
    /\ \A p \in NetPeers :
        /\ WF_vars(Serve(p))
        /\ WF_vars(ReceiveAnswer(p))
        /\ WF_vars(Establish(p) \/ Refuse(p))
        /\ WF_vars(DeleteNetPeer(p))
        /\ WF_vars(p \in serverSees /\ m_peerState[p] # "open"
                    /\ NotifyPeerConnectionClosed(p))
        /\ WF_vars(p \notin serverSees /\ LoseConnection(p))
    /\ WF_vars(CmdDone)

Spec == Init /\ [][Next]_vars /\ Fairness

-----------------------------------------------------------------------------
\* An answer finds the command it answers: whatever is reordered by delayed
\* commands, by clients that come and go and by numbers that start again, the
\* interface still has the enumerator of that very call, and no two answers on
\* their way have the same number.
Unanswered ==
    (UNION {{toServer[p][i] : i \in DOMAIN toServer[p]} : p \in NetPeers})
      \cup (UNION {{toClient[p][i] : i \in DOMAIN toClient[p]} : p \in NetPeers})
      \cup {delayed[i] : i \in DOMAIN delayed}

AnswersFindTheirCommand ==
    \A m \in Unanswered :
        m.nr # 0 /\ m.client \in Living =>
            m_MsgNrCmdList[m.client][m.nr] = Calls[KindOf[m.client]][m.call]

\* A subscription lives no longer than its client: it is gone, or the message or
\* the end of the connection that will remove it is on its way.
NoOrphans ==
    \A n \in Notifiers : \A i \in DOMAIN m_subscriberVector[n] :
        LET s == m_subscriberVector[n][i]
        IN  /\ s.netPeer \in serverSees
            /\ \/ m_ConnectionHash[s.client] = s.netPeer
               \/ m_peerState[s.netPeer] # "open"
               \/ s.netPeer \in deletedLater
               \/ \E k \in DOMAIN toServer[s.netPeer] :
                    /\ toServer[s.netPeer][k].call = "RELEASE"
                    /\ toServer[s.netPeer][k].client = s.client

IsSubscribed(c, n) ==
    \E i \in DOMAIN m_subscriberVector[n] : m_subscriberVector[n][i].client = c

\* What the module will know when it has read everything on its way to it.
Latest(c, n) ==
    LET p == m_ConnectionHash[c]
        about == {i \in DOMAIN toClient[p] :
                     LET m == toClient[p][i]
                     IN  /\ m.client = c /\ m.notifier = n
                         /\ m.nr = 0 \/ m.call = "getRange"}
    IN  IF about = {} THEN heard[c][n] ELSE toClient[p][Max(about)].text

\* A module that has registered and then read knows the text the notifier has, or
\* will when it has read what is on its way: no change slips between the
\* registration, the read and the notifications.
UpToDate ==
    \A c \in Living : \A n \in wants[c] :
        /\ m_peerState[m_ConnectionHash[c]] = "open"
        /\ m_ConnectionHash[c] \in serverSees
        /\ Latest(c, n) # NoText
        => /\ IsSubscribed(c, n)
           /\ Latest(c, n) = m_sValue[n]

\* Whatever interface a connected client is used by: each of its methods reaches a
\* node of every service it is meant for, in a form that node takes; when it was
\* done, the module gets the value the service sent, and when it failed, the
\* module is told so.  Exceptions names the cases in this code where that is not so.
CallsAreServed ==
    \A c \in Living : told[c] = "connected" =>
        \A kind \in DOMAIN Public : \A method \in DOMAIN Public[kind] :
            \A tree \in Services[kind] : IsServed(kind, method, tree)

\* A command is answered unless the connection goes or the client is released.
IsOutstanding(c, nr) ==
    /\ c \in Living
    /\ m_peerState[m_ConnectionHash[c]] = "open"
    /\ m_MsgNrCmdList[c][nr] # NoCommand

CommandsAreAnswered ==
    \A nr \in MsgNrs : []<>(\A c \in ProxyClients : ~ IsOutstanding(c, nr))

=============================================================================
