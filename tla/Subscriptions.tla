--------------------------- MODULE Subscriptions ---------------------------
(***************************************************************************)
(* PCBServer's notifications with an id, as mt310s2d and com5003d use them:*)
(* SERVER:REGISTER <query>;<id>[;<with value>] puts a subscriber into the  *)
(* list of the SCPI delegate that answers the query.  The delegate's       *)
(* NotificationString tells the list when its text changes.                *)
(***************************************************************************)
EXTENDS Naturals, SequencesExt, Lists

CONSTANTS Notifiers,        \* delegates with a NotificationString
          Texts,            \* values a NotificationString can have
          Subscribers,      \* client ids
          ServerPeers       \* peers of the server

VARIABLES
    m_subscriberVector,     \* per delegate
    m_sValue                \* NotificationString::m_sValue

subscriptionVars == <<m_subscriberVector, m_sValue>>

\* Stands for the value in a notification that was registered without one.
NoText == "no text"

ScpiNotificationSubscriber ==
    [netPeer : ServerPeers, client : Subscribers, withValue : BOOLEAN]

SubscriptionTypeOK ==
    /\ m_subscriberVector \in [Notifiers -> Seq(ScpiNotificationSubscriber)]
    /\ m_sValue \in [Notifiers -> Texts]

SubscriptionInit(text) ==
    /\ m_subscriberVector = [n \in Notifiers |-> <<>>]
    /\ m_sValue = [n \in Notifiers |-> text]

\* operator== leaves the value flag out: the first registration of an id stays.
SameSubscriber(s, t) == s.netPeer = t.netPeer /\ s.client = t.client

\* addSubscriber
AddSubscriber(n, s) ==
    m_subscriberVector' =
        IF \E i \in DOMAIN m_subscriberVector[n] :
                SameSubscriber(m_subscriberVector[n][i], s)
        THEN m_subscriberVector
        ELSE [m_subscriberVector EXCEPT ![n] = Append(@, s)]

\* Mutant: the peer alone decides who is removed.
RemoveAllSubscribers_OfPeer(p, cs) ==
    LET left(n) ==
            Kept(m_subscriberVector[n],
                 {i \in DOMAIN m_subscriberVector[n] : m_subscriberVector[n][i].netPeer # p})
    IN  m_subscriberVector' \in OneOfEach(Notifiers, left)

\* Mutant: only a closed peer removes subscribers.
RemoveAllSubscribers_OnClose(p, cs) ==
    LET left(n) ==
            Kept(m_subscriberVector[n],
                 {i \in DOMAIN m_subscriberVector[n] :
                     m_subscriberVector[n][i].netPeer # p \/ cs # Subscribers})
    IN  m_subscriberVector' \in OneOfEach(Notifiers, left)

\* onRemoveSubscribers for the clients cs behind p: the one that unregistered or
\* was released, or all of them when the peer has closed.
RemoveAllSubscribers(p, cs) ==
    LET left(n) ==
            Kept(m_subscriberVector[n],
                 {i \in DOMAIN m_subscriberVector[n] :
                     \/ m_subscriberVector[n][i].netPeer # p
                     \/ m_subscriberVector[n][i].client \notin cs})
    IN  m_subscriberVector' \in OneOfEach(Notifiers, left)

\* onNotifySubscriber: Notify:<id>[:<value>] with message number 0.
Notification(n, s, text) ==
    [client |-> s.client, nr |-> 0, notifier |-> n,
     text |-> IF s.withValue THEN text ELSE NoText]

\* The subscribers behind p, in the order in which they registered.
Behind(n, p) ==
    Kept(m_subscriberVector[n],
         {i \in DOMAIN m_subscriberVector[n] : m_subscriberVector[n][i].netPeer = p})

\* What every subscriber behind p is sent.
NotifiedOf(n, text, p) ==
    {[i \in DOMAIN behind |-> Notification(n, behind[i], text)] : behind \in Behind(n, p)}

\* NotificationString's assignment.
NotifyAllSubscribers(n, text, p) ==
    IF text = m_sValue[n] THEN {<<>>} ELSE NotifiedOf(n, text, p)

\* forceTrigger tells the subscribers a value that has not changed.
ForceTrigger(n, p) == NotifiedOf(n, m_sValue[n], p)

SetText(n, text) == m_sValue' = [m_sValue EXCEPT ![n] = text]

=============================================================================
