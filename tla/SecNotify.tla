----------------------------- MODULE SecNotify -----------------------------
(***************************************************************************)
(* PCBServer's one-parameter notifier registration, as sec1000d uses it    *)
(* for the interrupt registers of its channels.                            *)
(*                                                                         *)
(* SERVER:REGISTER <query> puts the client into m_notifierRegisterNext and *)
(* executes the query.  A query that is backed by a NotificationValue      *)
(* emits valNotifier on its way, and onEstablishNewNotifier takes the      *)
(* first waiting client as the one that asked.  When bits of the           *)
(* NotificationValue rise, every client listed for it is sent an IRQ.      *)
(*                                                                         *)
(* A NotificationValue is the set of its bits that are 1.                  *)
(***************************************************************************)
EXTENDS Naturals, Sequences

CONSTANTS Notifiers,       \* the NotificationValues of the service
          Listeners,       \* client ids
          Connections,     \* TCP peers
          ConnectionOf,    \* the peer a client sends through
          IntBits          \* bits of an interrupt register

VARIABLES
    m_notifierRegisterNext, \* clients waiting for a notifier signal
    m_notifierRegisterList, \* who is told about which notifier
    m_nValue                \* the NotificationValues

notifyVars == <<m_notifierRegisterNext, m_notifierRegisterList, m_nValue>>

Registration == [client : Listeners, notifier : Notifiers]

NotifyTypeOK ==
    /\ m_notifierRegisterNext \in Seq(Listeners)
    /\ m_notifierRegisterList \in Seq(Registration)
    /\ m_nValue \in [Notifiers -> SUBSET IntBits]

NotifyInit ==
    /\ m_notifierRegisterNext = <<>>
    /\ m_notifierRegisterList = <<>>
    /\ m_nValue = [n \in Notifiers |-> {}]

-----------------------------------------------------------------------------
\* onEstablishNewNotifier, with the clients of next waiting.
OnEstablishNewNotifier(next, n) ==
    IF next = <<>>
    THEN UNCHANGED <<m_notifierRegisterNext, m_notifierRegisterList>>
    ELSE /\ m_notifierRegisterNext' = Tail(next)
         /\ m_notifierRegisterList' =
                Append(m_notifierRegisterList,
                       [client |-> Head(next), notifier |-> n])

\* SERVER:REGISTER with a query that reads the notifier n.
RegisterNotifier(c, n) ==
    /\ OnEstablishNewNotifier(Append(m_notifierRegisterNext, c), n)
    /\ UNCHANGED m_nValue

\* A plain query of the notifier's register.
QueryNotifier(n) ==
    /\ OnEstablishNewNotifier(m_notifierRegisterNext, n)
    /\ UNCHANGED m_nValue

\* The list with the entries at the positions in S, in their order.
Keep(S) ==
    \E n \in 0 .. Len(m_notifierRegisterList) : \E index \in [1 .. n -> S] :
        /\ \A j, k \in 1 .. n : j < k => index[j] < index[k]
        /\ \A i \in S : \E k \in 1 .. n : index[k] = i
        /\ m_notifierRegisterList' = [k \in 1 .. n |-> m_notifierRegisterList[index[k]]]

\* Mutant: the list is walked forwards, and a removal skips the next entry.
DoUnregisterNotifier_Forwards(cs) ==
    LET hit(i) == m_notifierRegisterList[i].client \in cs
    IN  /\ Keep({i \in DOMAIN m_notifierRegisterList : hit(i) => i > 1 /\ hit(i - 1)})
        /\ UNCHANGED <<m_notifierRegisterNext, m_nValue>>

\* doUnregisterNotifier for the clients cs of one peer: the one that sent
\* SERVER:UNREGISTER or was released, or all of them when the peer has closed.
DoUnregisterNotifier(cs) ==
    /\ Keep({i \in DOMAIN m_notifierRegisterList :
                m_notifierRegisterList[i].client \notin cs})
    /\ UNCHANGED <<m_notifierRegisterNext, m_nValue>>

BehindPeer(p) == {c \in Listeners : ConnectionOf[c] = p}

\* Mutant: the new bits are stored before the rising edge is looked for.
RisingEdge_StoredFirst(reg) == [n \in Notifiers |-> {}]

\* NotificationValue::setValue on every notifier: bits that were 0.
RisingEdge(reg) == [n \in Notifiers |-> reg[n] \ m_nValue[n]]

SetValues(reg) == m_nValue' = [n \in Notifiers |-> m_nValue[n] \cup reg[n]]

\* onNotifierChanged: the messages a rising edge causes.
IrqsSent(reg) ==
    UNION {{<<e.client, e.notifier, b>> : b \in RisingEdge(reg)[e.notifier]} :
              e \in {m_notifierRegisterList[i] : i \in DOMAIN m_notifierRegisterList}}

ClrValue(n, bits) ==
    m_nValue' = [m_nValue EXCEPT ![n] = @ \ bits]

=============================================================================
