----------------------------- MODULE SecServer -----------------------------
(***************************************************************************)
(* sec1000d as a whole: the channels of SecResource, the notifications of  *)
(* SecNotify, and between them the interrupts of the FPGA.                 *)
(*                                                                         *)
(* A channel that is running sets bits of its interrupt register.  The     *)
(* driver raises SIGIO, the signal handler puts a byte into a pipe, and    *)
(* the event loop reads the byte and then the registers of all channels.   *)
(* The client that owns the channel answers with INTACK, which clears the  *)
(* notifier's bits and then reads and writes back the register: here the   *)
(* hardware can step in between.                                           *)
(***************************************************************************)
EXTENDS SecResource

CONSTANTS IntBits,      \* bits of an interrupt register (0 .. 3)
          PipeLimit     \* bytes the pipe holds

ASSUME SecServerAssumption == PipeLimit \in Nat \ {0}

VARIABLES
    m_notifierRegisterNext, m_notifierRegisterList, m_nValue,
    intReg,     \* hardware: interrupt register of each channel
    pipe,       \* bytes in pipeFileDescriptorSec1000
    ack,        \* resetInterrupt between its read and its write, or <<>>
    gone,       \* clients that were released: their id never comes back
    prepared,   \* history: channels their owner has listened to and then
                \*   acknowledged completely, so that it can be started
    told        \* history: <<c, ch, b>> sent to c and not acknowledged since

Notify == INSTANCE SecNotify WITH
            Notifiers <- Channels, Listeners <- Clients,
            Connections <- Peers, ConnectionOf <- PeerOf

notifyVars == <<m_notifierRegisterNext, m_notifierRegisterList, m_nValue>>
deviceVars == <<intReg, pipe, ack>>
clientVars == <<gone, prepared, told>>
serverVars == <<secVars, notifyVars, deviceVars, clientVars>>

NoAck == <<>>

ServerTypeOK ==
    /\ SecTypeOK
    /\ Notify!NotifyTypeOK
    /\ intReg \in [Channels -> SUBSET IntBits]
    /\ pipe \in 0 .. PipeLimit
    /\ ack \in {NoAck} \cup
           [channel : Channels, bits : SUBSET IntBits, reg : SUBSET IntBits]
    /\ gone \in SUBSET Clients
    /\ prepared \in SUBSET Channels
    /\ told \in SUBSET (Clients \X Channels \X IntBits)

ServerInit ==
    /\ SecInit
    /\ Notify!NotifyInit
    /\ intReg = [ch \in Channels |-> {}]
    /\ pipe = 0
    /\ ack = NoAck
    /\ gone = {}
    /\ prepared = {}
    /\ told = {}

-----------------------------------------------------------------------------
(* The FPGA and the signal handler.                                         *)

HwInterrupt(ch, b) ==
    /\ running[ch]
    /\ b \notin intReg[ch]
    /\ intReg' = [intReg EXCEPT ![ch] = @ \cup {b}]
    /\ pipe' = IF pipe < PipeLimit THEN pipe + 1 ELSE pipe
    /\ UNCHANGED <<secVars, notifyVars, ack, clientVars>>

(* The event loop is one thread: a handler runs when no other one does.     *)
Idle == ack = NoAck

\* Mutant: the handler stops at the first channel that has an interrupt.
SECIntHandler_LowestOnly ==
    LET first(ch) == intReg[ch] # {} /\ \A d \in Channels : intReg[d] # {} => ch <= d
        reg == [ch \in Channels |-> IF first(ch) THEN intReg[ch] ELSE {}]
    IN  /\ Idle
        /\ pipe > 0
        /\ pipe' = pipe - 1
        /\ Notify!SetValues(reg)
        /\ told' = told \cup Notify!IrqsSent(reg)
        /\ UNCHANGED <<secVars, m_notifierRegisterNext, m_notifierRegisterList,
                       intReg, ack, gone, prepared>>

\* SECIntHandler: one byte from the pipe, then the registers of all channels.
SECIntHandler ==
    /\ Idle
    /\ pipe > 0
    /\ pipe' = pipe - 1
    /\ Notify!SetValues(intReg)
    /\ told' = told \cup Notify!IrqsSent(intReg)
    /\ UNCHANGED <<secVars, m_notifierRegisterNext, m_notifierRegisterList,
                   intReg, ack, gone, prepared>>

-----------------------------------------------------------------------------
(* Commands.                                                                *)

Forget(c, chs) ==
    told' = {t \in told : ~(t[1] = c /\ t[2] \in chs)}

Alive(c) == c \notin gone

ListenedTo(c) == {m_notifierRegisterList[i].notifier :
    i \in {i \in DOMAIN m_notifierRegisterList :
                m_notifierRegisterList[i].client = c}}

Connecting(p) ==
    /\ Idle
    /\ Connect(p)
    /\ UNCHANGED <<notifyVars, deviceVars, clientVars>>

\* The channels come back first, then onNotifyPeerConnectionClosed follows.
\* What the clients behind the peer knew is gone with them.
PeerClosed(p) ==
    LET cs == Notify!BehindPeer(p)
    IN  /\ Idle
        /\ Disconnect(p)
        /\ Notify!DoUnregisterNotifier(cs)
        /\ told' = {t \in told : t[1] \notin cs}
        /\ prepared' = prepared \ UNION {granted[c] : c \in cs}
        /\ UNCHANGED <<deviceVars, gone>>

\* A client is deleted in its process while the peer lives on: the netcommand
\* RELEASE ends its notifications.  Its channels stay occupied.
Release(c) ==
    /\ Idle
    /\ CanSend(c) /\ Alive(c)
    /\ gone' = gone \cup {c}
    /\ Notify!DoUnregisterNotifier({c})
    /\ Forget(c, Channels)
    /\ UNCHANGED <<secVars, deviceVars, prepared>>

Setting(c, n) ==
    /\ Idle
    /\ Alive(c)
    /\ SetChannels(c, n)
    /\ UNCHANGED <<notifyVars, deviceVars, clientVars>>

Freeing(c) ==
    /\ Idle
    /\ Alive(c)
    /\ FreeChannelsFromAClient(c)
    /\ prepared' = prepared \ granted[c]
    /\ Forget(c, Channels)
    /\ UNCHANGED <<notifyVars, deviceVars, gone>>

Starting(c, ch) ==
    /\ Idle
    /\ Alive(c)
    /\ Start(c, ch)
    /\ UNCHANGED <<notifyVars, deviceVars, clientVars>>

Stopping(c, ch) ==
    /\ Idle
    /\ Alive(c)
    /\ Stop(c, ch)
    /\ UNCHANGED <<notifyVars, deviceVars, clientVars>>

\* SERVER:REGISTER ECALCULATOR:ECx:R4?
Registering(c, ch) ==
    /\ Idle
    /\ CanSend(c) /\ Alive(c)
    /\ Notify!RegisterNotifier(c, ch)
    /\ UNCHANGED <<secVars, deviceVars, clientVars>>

\* SERVER:UNREGISTER
Unregistering(c) ==
    /\ Idle
    /\ CanSend(c) /\ Alive(c)
    /\ Notify!DoUnregisterNotifier({c})
    /\ prepared' = prepared \ granted[c]
    /\ Forget(c, Channels)
    /\ UNCHANGED <<secVars, deviceVars, gone>>

\* ECALCULATOR:ECx:R4?
QueryIntReg(c, ch) ==
    /\ Idle
    /\ CanSend(c) /\ Alive(c)
    /\ Notify!QueryNotifier(ch)
    /\ UNCHANGED <<secVars, deviceVars, clientVars>>

\* Mutant: the notifier keeps its bits, only the hardware is reset.
ResetInterruptRead_NoClear(c, ch, bits) ==
    /\ Idle
    /\ CanSend(c) /\ Alive(c) /\ Authorized(c, ch)
    /\ ack' = [channel |-> ch, bits |-> bits, reg |-> intReg[ch]]
    /\ told' = {t \in told : ~(t[1] = c /\ t[2] = ch /\ t[3] \in bits)}
    /\ prepared' = IF ch \in ListenedTo(c) /\ bits = IntBits
                   THEN prepared \cup {ch} ELSE prepared
    /\ UNCHANGED <<secVars, notifyVars, intReg, pipe, gone>>

\* ECALCULATOR:ECx:INTACK bits, up to the read of the register.
ResetInterruptRead(c, ch, bits) ==
    /\ Idle
    /\ CanSend(c) /\ Alive(c) /\ Authorized(c, ch)
    /\ Notify!ClrValue(ch, bits)
    /\ ack' = [channel |-> ch, bits |-> bits, reg |-> intReg[ch]]
    /\ told' = {t \in told : ~(t[1] = c /\ t[2] = ch /\ t[3] \in bits)}
    /\ prepared' = IF ch \in ListenedTo(c) /\ bits = IntBits
                   THEN prepared \cup {ch} ELSE prepared
    /\ UNCHANGED <<secVars, m_notifierRegisterNext, m_notifierRegisterList,
                   intReg, pipe, gone>>

\* The rest of the same handler.
ResetInterruptWrite ==
    /\ ~Idle
    /\ intReg' = [intReg EXCEPT ![ack.channel] = ack.reg \ ack.bits]
    /\ ack' = NoAck
    /\ UNCHANGED <<secVars, notifyVars, pipe, clientVars>>

-----------------------------------------------------------------------------
(* The measuring modules: SET, REGISTER each channel, INTACK, START, and on *)
(* the way back STOP, UNREGISTER, FREE.  A module can die at any point.     *)

Listening(c, ch) == ch \in ListenedTo(c)

DeviceNext ==
    \/ \E ch \in Channels, b \in IntBits : HwInterrupt(ch, b)
    \/ SECIntHandler
    \/ ResetInterruptWrite

ModuleNext ==
    \/ \E p \in Peers : Connecting(p) \/ PeerClosed(p)
    \/ \E c \in Clients, n \in 1 .. EcUnitCount :
            granted[c] = {} /\ Setting(c, n)
    \/ \E c \in Clients, ch \in Channels :
            ch \in granted[c] /\ ~Listening(c, ch) /\ Registering(c, ch)
    \/ \E c \in Clients, ch \in Channels, bits \in (SUBSET IntBits) \ {{}} :
            ch \in granted[c] /\ ResetInterruptRead(c, ch, bits)
    \/ \E c \in Clients, ch \in Channels : ch \in granted[c] /\ Stopping(c, ch)
    \/ \E c \in Clients, ch \in Channels : ch \in granted[c] /\ QueryIntReg(c, ch)
    \/ \E c \in Clients :
            /\ ListenedTo(c) # {}
            /\ \A ch \in granted[c] : ~running[ch]
            /\ Unregistering(c)
    \/ \E c \in Clients :
            /\ granted[c] # {}
            /\ ListenedTo(c) = {}
            /\ Freeing(c)
    \/ \E c \in Clients : Release(c)

StartPrepared ==
    \E c \in Clients, ch \in Channels :
        ch \in granted[c] /\ ch \in prepared /\ Starting(c, ch)

ServerNext == DeviceNext \/ ModuleNext \/ StartPrepared

\* The event loop polls all its sources in each round, so a pipe that is readable
\* round after round is served between the commands however many come in, and a
\* handler runs to its end.
EventLoopFairness ==
    /\ SF_serverVars(SECIntHandler)
    /\ WF_serverVars(ResetInterruptWrite)

ServerSpec == ServerInit /\ [][ServerNext]_serverVars /\ EventLoopFairness

-----------------------------------------------------------------------------
(* Properties.                                                              *)

\* Every registration is listed for the client that sent it, once, and for a
\* channel this client owns; nobody is left waiting.
RegistrationsMatch ==
    /\ m_notifierRegisterNext = <<>>
    /\ \A i, j \in DOMAIN m_notifierRegisterList :
            m_notifierRegisterList[i] = m_notifierRegisterList[j] => i = j
    /\ \A i \in DOMAIN m_notifierRegisterList :
            /\ m_notifierRegisterList[i].notifier
                    \in granted[m_notifierRegisterList[i].client]
            /\ Alive(m_notifierRegisterList[i].client)

\* A latched bit, which no rising edge will ever report again, has been
\* reported to the owner of the channel before it got stuck.
LatchedIsTold ==
    \A c \in Clients : \A ch \in granted[c] :
        Alive(c) /\ running[ch] =>
            \A b \in m_nValue[ch] : <<c, ch, b>> \in told

\* When the event loop has read the pipe empty, no interrupt of a running
\* channel waits unseen in the hardware: one wake-up serves all channels.
NothingUnseen ==
    pipe = 0 /\ Idle =>
        \A ch \in Channels : running[ch] => intReg[ch] \subseteq m_nValue[ch]

\* An interrupt of a running channel is sent to its owner, unless the owner
\* acknowledges, stops or gives up before.
InterruptReachesOwner ==
    \A c \in Clients, ch \in Channels, b \in IntBits :
        (Listening(c, ch) /\ running[ch] /\ b \in intReg[ch])
            ~> (\/ <<c, ch, b>> \in told
                \/ b \notin intReg[ch]
                \/ ~Listening(c, ch)
                \/ ~running[ch])

=============================================================================
