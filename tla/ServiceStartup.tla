--------------------------- MODULE ServiceStartup ---------------------------
(***************************************************************************)
(* The start-up state machines of com5003d, mt310s2d, sec1000d and zdsp1d. *)
(*                                                                         *)
(* A QStateMachine takes one posted signal at a time; entering a state     *)
(* runs the service's handler, which emits further signals.  com5003d also *)
(* flashes its relay controller when there is a flash file, and waits for  *)
(* the controller's heartbeat.  com5003d and mt310s2d register their       *)
(* frequency outputs at the resource manager before they serve anybody.    *)
(***************************************************************************)
EXTENDS Naturals, Sequences, FiniteSets

CONSTANTS Kinds,         \* services whose start-up is modelled
          Channels,      \* frequency outputs, each one resource to register
          Retries,       \* attempts to reach the resource manager, 100 in the code
          MaxRestarts    \* bound: how often the service is started again

ASSUME StartupAssumption ==
    /\ Kinds \subseteq {"com5003d", "mt310s2d", "sec1000d", "zdsp1d"}
    /\ Channels # {} /\ IsFiniteSet(Channels)
    /\ Retries \in Nat \ {0}
    /\ MaxRestarts \in Nat

VARIABLES
    kind,                 \* which service this is
    state,                \* active state of m_pInitializationMachine
    posted,               \* signals its transitions have still to see
    atmelFile,            \* the flash file is there
    firmware,             \* of the relay controller
    atmelRuns,            \* its heartbeat, a bit in the FPGA
    isBoot,               \* setting of zdsp1d: not set, a debugger boots the DSP
    dsp,                  \* the DSP: reset, booted, or with its sampling system
    heartbeatWait,        \* the timers of CtrlHeartbeatWait run
    rmPeer,               \* m_pResourceManagerClient
    m_retryRMConnect,
    m_retryTimer,         \* TRUE: it runs
    atResourceManager,    \* RESOURCE:ADDs the resource manager has still to answer
    m_msgNrListRegister,  \* resources not acknowledged
    m_pendingResources,
    acknowledged,         \* what the resource manager has acknowledged
    listening,            \* protobuf server
    restarts

dspVars == <<isBoot, dsp>>
hardwareVars == <<atmelFile, firmware, atmelRuns>>
rmVars == <<rmPeer, atResourceManager, m_msgNrListRegister, m_pendingResources,
            acknowledged>>
retryVars == <<m_retryRMConnect, m_retryTimer>>
vars == <<kind, dspVars, state, posted, hardwareVars, heartbeatWait, rmVars, retryVars,
          listening, restarts>>

States == {"progAtmel", "wait4Atmel", "setupServer", "connect2RM",
           "connect2RMError", "sendRMIdentAndRegister", "finish"}

Signals == {"abortInit", "atmelProgrammed", "atmelRunning", "sigServerIsSetUp",
            "connected", "connectionRMError"}

HasAtmelFlash == kind = "com5003d"
UsesResourceManager == kind \in {"com5003d", "mt310s2d"}

StartupTypeOK ==
    /\ kind \in Kinds
    /\ state \in States
    /\ posted \in Seq(Signals)
    /\ atmelFile \in BOOLEAN
    /\ firmware \in {"old", "broken", "new"}
    /\ atmelRuns \in BOOLEAN
    /\ isBoot \in BOOLEAN
    /\ dsp \in {"reset", "booted", "sampling"}
    /\ heartbeatWait \in BOOLEAN
    /\ rmPeer \in {"none", "connecting", "open", "broken"}
    /\ m_retryRMConnect \in 0 .. Retries
    /\ m_retryTimer \in BOOLEAN
    /\ atResourceManager \subseteq Channels
    /\ m_msgNrListRegister \subseteq Channels
    /\ m_pendingResources \in 0 .. 1
    /\ acknowledged \subseteq Channels
    /\ listening \in BOOLEAN
    /\ restarts \in 0 .. MaxRestarts

-----------------------------------------------------------------------------
(* The state machine.                                                      *)

\* The transitions init and doSetupServerWithAtmelRunning add.
Target(s, signal) ==
    CASE s # "finish" /\ signal = "abortInit" -> "finish"
      [] s = "progAtmel" /\ signal = "atmelProgrammed" -> "wait4Atmel"
      [] s = "wait4Atmel" /\ signal = "atmelRunning" -> "setupServer"
      [] s = "setupServer" /\ signal = "sigServerIsSetUp"
            /\ UsesResourceManager -> "connect2RM"
      [] s = "connect2RM" /\ signal = "connected" -> "sendRMIdentAndRegister"
      [] s = "connect2RM" /\ signal = "connectionRMError" -> "connect2RMError"
      [] s = "connect2RMError" /\ signal = "sigServerIsSetUp" -> "connect2RM"
      [] OTHER -> s

FirstState == IF HasAtmelFlash THEN "progAtmel" ELSE "setupServer"

\* A signal no transition of the active state waits for is not even posted.
Posting(signals, s) == IF Target(state, s) # state THEN Append(signals, s) ELSE signals

Emit(s) == posted' = Posting(posted, s)
EmitBoth(s, t) == posted' = Posting(Posting(posted, s), t)

-----------------------------------------------------------------------------
(* com5003d and its relay controller.                                      *)

\* Mutant: the flash file goes as soon as it has been read.
FileGoes_Early == {"loaded", "load failed", "started"}

\* The flash file is removed when the controller has been started with it.
FileGoes == {"started"}

Programmed(result) ==
    /\ atmelRuns' = FALSE
    /\ firmware' = CASE result \in {"loaded", "started"} -> "new"
                     [] result = "load failed" -> "broken"
                     [] OTHER -> firmware
    /\ atmelFile' \in {TRUE, result \notin FileGoes}

\* programAtmelFlash, entered.  Errors of the register that resets the controller
\* emit abortInit and the handler goes on; what comes later comes after it.
ProgramAtmelFlash ==
    /\ state = "progAtmel"
    /\ posted = <<>>
    /\ \/ /\ ~ atmelFile
          /\ Emit("atmelProgrammed")
          /\ UNCHANGED hardwareVars
       \/ /\ atmelFile             \* the FPGA cannot be opened
          /\ Emit("abortInit")
          /\ UNCHANGED hardwareVars
       \/ /\ atmelFile
          /\ \E result \in {"unreadable", "load failed", "loaded", "started"} :
                LET done == IF result = "started" THEN "atmelProgrammed" ELSE "abortInit"
                IN  /\ Programmed(result)
                    /\ Emit(done) \/ EmitBoth("abortInit", done)
    /\ UNCHANGED <<kind, dspVars, state, heartbeatWait, rmVars, retryVars, listening, restarts>>

\* A controller with a program boots; one that is broken does not.
AtmelBoots ==
    /\ ~ atmelRuns /\ firmware # "broken"
    /\ state # "progAtmel"
    /\ atmelRuns' = TRUE
    /\ UNCHANGED <<kind, dspVars, state, posted, atmelFile, firmware, heartbeatWait, rmVars,
                   retryVars, listening, restarts>>

\* doAtmelTest finds the heartbeat, or doTimeout comes first: both stop the timers.
DoAtmelTest ==
    /\ heartbeatWait /\ atmelRuns
    /\ heartbeatWait' = FALSE
    /\ Emit("atmelRunning")
    /\ UNCHANGED <<kind, dspVars, state, hardwareVars, rmVars, retryVars, listening, restarts>>

DoTimeout ==
    /\ heartbeatWait
    /\ heartbeatWait' = FALSE
    /\ Emit("abortInit")
    /\ UNCHANGED <<kind, dspVars, state, hardwareVars, rmVars, retryVars, listening, restarts>>

-----------------------------------------------------------------------------
(* Entering a state.                                                       *)

DoWait4Atmel(rest) ==
    /\ heartbeatWait' = TRUE
    /\ posted' = rest
    /\ UNCHANGED <<rmVars, retryVars, listening>>

\* connect2RM deletes the peer of the attempt before, with whatever it would emit.
DoConnect2RM(rest) ==
    /\ rmPeer' = "connecting"
    /\ posted' = rest
    /\ UNCHANGED <<heartbeatWait, atResourceManager, m_msgNrListRegister,
                   m_pendingResources, acknowledged, retryVars, listening>>

\* Mutant: the service tries without end.
Connect2RMError_Forever(rest) ==
    /\ m_retryRMConnect' = m_retryRMConnect - 1
    /\ m_retryTimer' = TRUE
    /\ posted' = rest
    /\ UNCHANGED <<heartbeatWait, rmVars, listening>>

\* Mutant: the last attempt neither waits for a retry nor aborts.
Connect2RMError_Off(rest) ==
    /\ m_retryRMConnect' = m_retryRMConnect - 1
    /\ m_retryTimer' = (m_retryRMConnect' > 1)
    /\ posted' = rest
    /\ UNCHANGED <<heartbeatWait, rmVars, listening>>

Connect2RMError(rest) ==
    /\ m_retryRMConnect' = m_retryRMConnect - 1
    /\ m_retryTimer' = (m_retryRMConnect' # 0)
    /\ posted' = IF m_retryRMConnect' = 0 THEN Append(rest, "abortInit") ELSE rest
    /\ UNCHANGED <<heartbeatWait, rmVars, listening>>

\* The one resource of the services sends a command for each of its channels.
DoIdentAndRegister(rest) ==
    /\ m_msgNrListRegister' = Channels
    /\ m_pendingResources' = 1
    /\ atResourceManager' = IF rmPeer = "open" THEN Channels ELSE {}
    /\ posted' = rest
    /\ UNCHANGED <<rmPeer, acknowledged, heartbeatWait, retryVars, listening>>

\* Mutant: who has booted the DSP serves, sampling or not.
ResetAndBoot_Serves ==
    \/ dsp' \in {dsp, "reset"} /\ UNCHANGED listening /\ Emit("abortInit")
    \/ dsp' \in {"booted", "sampling"} /\ listening' = TRUE /\ Emit("sigServerIsSetUp")

\* A reset, boot or sampling system that fails aborts, and leaves what was done.
\* The sampling system is tried ten times.
ResetAndBoot ==
    \/ dsp' \in {dsp, "reset", "booted"} /\ UNCHANGED listening /\ Emit("abortInit")
    \/ dsp' = "sampling" /\ listening' = TRUE /\ Emit("sigServerIsSetUp")

\* doSetupServer of zdsp1d: the device cannot be opened, or it is not the DSP the
\* boot file is for; or it is booted here, or by somebody else.
SetupDsp ==
    /\ kind = "zdsp1d"
    /\ \/ Emit("abortInit") /\ UNCHANGED <<dsp, listening>>
       \/ isBoot /\ ResetAndBoot
       \/ ~ isBoot /\ listening' = TRUE /\ Emit("sigServerIsSetUp") /\ UNCHANGED dsp
    /\ UNCHANGED m_retryRMConnect

\* doSetupServer(WithAtmelRunning), entered: a device that fails aborts.  The
\* services that use the resource manager start listening when they are registered,
\* the others do now.
DoSetupServer ==
    /\ state = "setupServer"
    /\ posted = <<>>
    /\ ~ listening
    /\ \/ /\ kind \in {"mt310s2d", "sec1000d"}
          /\ Emit("abortInit")
          /\ UNCHANGED <<dsp, listening, m_retryRMConnect>>
       \/ /\ UsesResourceManager
          /\ m_retryRMConnect' = Retries
          /\ Emit("sigServerIsSetUp")
          /\ UNCHANGED <<dsp, listening>>
       \/ /\ kind = "sec1000d"
          /\ listening' = TRUE
          /\ Emit("sigServerIsSetUp")
          /\ UNCHANGED <<dsp, m_retryRMConnect>>
       \/ SetupDsp
    /\ UNCHANGED <<kind, isBoot, state, hardwareVars, heartbeatWait, rmVars, m_retryTimer,
                   restarts>>

\* zdsp1d resets the DSP at its end, and does not look at the result.
DspAtEnd == IF kind = "zdsp1d" THEN {dsp, "reset"} ELSE {dsp}

\* doCloseServer ends the process.
DoCloseServer ==
    /\ posted' = <<>>
    /\ heartbeatWait' = FALSE
    /\ rmPeer' = "none"
    /\ atResourceManager' = {} /\ m_msgNrListRegister' = {}
    /\ m_pendingResources' = 0 /\ acknowledged' = {}
    /\ m_retryTimer' = FALSE
    /\ listening' = FALSE
    /\ UNCHANGED m_retryRMConnect

\* The machine takes the next signal.  The handlers of progAtmel and setupServer
\* are steps of their own: they take long, and the process may die in them.
Transition ==
    /\ posted # <<>>
    /\ LET target == Target(state, Head(posted))
           rest == Tail(posted)
       IN  /\ state' = target
           /\ \/ /\ target \in {state, "setupServer"}
                 /\ posted' = rest
                 /\ UNCHANGED <<heartbeatWait, rmVars, retryVars, listening>>
              \/ target # state /\ target = "wait4Atmel" /\ DoWait4Atmel(rest)
              \/ target # state /\ target = "connect2RM" /\ DoConnect2RM(rest)
              \/ target # state /\ target = "connect2RMError" /\ Connect2RMError(rest)
              \/ /\ target # state /\ target = "sendRMIdentAndRegister"
                 /\ DoIdentAndRegister(rest)
              \/ target # state /\ target = "finish" /\ DoCloseServer
           /\ dsp' \in IF target # state /\ target = "finish" THEN DspAtEnd ELSE {dsp}
    /\ UNCHANGED <<kind, isBoot, hardwareVars, restarts>>

-----------------------------------------------------------------------------
(* The resource manager, a process that is not in this repository.         *)

RMConnected ==
    /\ rmPeer = "connecting"
    /\ rmPeer' = "open"
    /\ Emit("connected")
    /\ UNCHANGED <<kind, dspVars, state, hardwareVars, heartbeatWait, atResourceManager,
                   m_msgNrListRegister, m_pendingResources, acknowledged, retryVars,
                   listening, restarts>>

\* A refused or broken connection: tcpErrorHandler, and when it was open the
\* closing of the peer, both emit connectionRMError.
ConnectionRMError ==
    /\ rmPeer \in {"connecting", "open"}
    /\ rmPeer' = "broken"
    /\ atResourceManager' = {}
    /\ IF rmPeer = "open" THEN EmitBoth("connectionRMError", "connectionRMError")
       ELSE Emit("connectionRMError")
    /\ UNCHANGED <<kind, dspVars, state, hardwareVars, heartbeatWait, m_msgNrListRegister,
                   m_pendingResources, acknowledged, retryVars, listening, restarts>>

\* Mutant: the first acknowledged channel makes the resource ready.
RegisterRdy_First(list) == TRUE

\* resourceManagerAck: registerRdy when the list has become empty.
RegisterRdy(list) == list = {}

\* responseHandler on an acknowledge: rmAck, resourceManagerAck, onResourceReady.
ResourceManagerAck(channel) ==
    LET list == m_msgNrListRegister \ {channel}
        ready == /\ channel \in m_msgNrListRegister
                 /\ RegisterRdy(list)
    IN  /\ channel \in atResourceManager
        /\ atResourceManager' = atResourceManager \ {channel}
        /\ m_msgNrListRegister' = list
        /\ acknowledged' = acknowledged \cup {channel}
        /\ IF ready /\ m_pendingResources > 0
           THEN /\ m_pendingResources' = m_pendingResources - 1
                /\ listening' = (listening \/ m_pendingResources' = 0)
           ELSE UNCHANGED <<m_pendingResources, listening>>
        /\ UNCHANGED <<kind, dspVars, state, posted, hardwareVars, heartbeatWait, rmPeer,
                       retryVars, restarts>>

\* responseHandler on any other reply.
ResourceManagerNak(channel) ==
    /\ channel \in atResourceManager
    /\ atResourceManager' = atResourceManager \ {channel}
    /\ Emit("connectionRMError")
    /\ UNCHANGED <<kind, dspVars, state, hardwareVars, heartbeatWait, rmPeer,
                   m_msgNrListRegister, m_pendingResources, acknowledged, retryVars,
                   listening, restarts>>

RetryTimeout ==
    /\ m_retryTimer
    /\ m_retryTimer' = FALSE
    /\ Emit("sigServerIsSetUp")
    /\ UNCHANGED <<kind, dspVars, state, hardwareVars, heartbeatWait, rmVars,
                   m_retryRMConnect, listening, restarts>>

-----------------------------------------------------------------------------
(* The process.                                                            *)

Init ==
    /\ kind \in Kinds
    /\ state = FirstState
    /\ posted = <<>>
    /\ heartbeatWait = FALSE
    /\ rmPeer = "none"
    /\ atResourceManager = {} /\ m_msgNrListRegister = {}
    /\ m_pendingResources = 0 /\ acknowledged = {}
    /\ m_retryRMConnect = Retries /\ m_retryTimer = FALSE
    /\ listening = FALSE
    /\ \/ atmelFile = TRUE /\ firmware = "old"
       \/ atmelFile = FALSE /\ firmware = "new"
    /\ atmelRuns \in BOOLEAN
    /\ isBoot \in IF kind = "zdsp1d" THEN BOOLEAN ELSE {TRUE}
    /\ dsp = "reset"
    /\ restarts = 0

\* Killed or crashed, in the middle of loading the controller's flash, too.
Crash ==
    /\ state # "finish"
    /\ state' = "finish"
    /\ DoCloseServer
    /\ \/ UNCHANGED hardwareVars
       \/ /\ state = "progAtmel" /\ posted = <<>> /\ atmelFile
          /\ firmware' = "broken" /\ atmelRuns' = FALSE
          /\ UNCHANGED atmelFile
    /\ UNCHANGED <<kind, dspVars, restarts>>

\* DoCloseServer has left everything that lives in the process as it is in Init.
Restart ==
    /\ state = "finish"
    /\ restarts < MaxRestarts
    /\ restarts' = restarts + 1
    /\ state' = FirstState
    /\ m_retryRMConnect' = Retries
    /\ UNCHANGED <<kind, dspVars, posted, hardwareVars, heartbeatWait, rmVars, m_retryTimer,
                   listening>>

Service == \/ Transition \/ ProgramAtmelFlash \/ DoSetupServer
           \/ DoAtmelTest \/ DoTimeout \/ RetryTimeout

Answers == RMConnected \/ ConnectionRMError

Next ==
    \/ Service
    \/ AtmelBoots
    \/ Answers
    \/ \E channel \in Channels : ResourceManagerAck(channel) \/ ResourceManagerNak(channel)
    \/ Crash
    \/ Restart

\* The event loop runs, a connection is answered or refused, and the resource
\* manager replies.
Fairness ==
    /\ WF_vars(Transition) /\ WF_vars(ProgramAtmelFlash) /\ WF_vars(DoSetupServer)
    /\ WF_vars(DoAtmelTest \/ DoTimeout)
    /\ WF_vars(RetryTimeout)
    /\ WF_vars(rmPeer = "connecting" /\ Answers)
    /\ \A channel \in Channels :
            WF_vars(ResourceManagerAck(channel) \/ ResourceManagerNak(channel))

Spec == Init /\ [][Next]_vars /\ Fairness

-----------------------------------------------------------------------------
\* A service that uses the resource manager takes clients only when the resource
\* manager has acknowledged every channel: whoever reaches the service can be
\* given its resources.  zdsp1d takes clients only with a DSP that samples, whatever
\* a former zdsp1d that crashed has left in it.
ServesWhatIsRegistered ==
    /\ listening /\ UsesResourceManager =>
        /\ acknowledged = Channels
        /\ state \in {"sendRMIdentAndRegister", "finish"}
    /\ listening /\ kind = "zdsp1d" /\ isBoot => dsp = "sampling"

\* The flash file, the only memory of an update that is due, goes when the
\* controller has its program, whatever fails or dies in between: a controller
\* that is broken is programmed again by the next start.
UpdateIsNotForgotten == ~ atmelFile => firmware = "new"

\* The retry timer runs only while the machine waits for it: no attempt is started
\* beside another one.  Attempts are left as long as the service is trying.
OneAttemptAtATime ==
    /\ m_retryTimer => state = "connect2RMError" /\ m_retryRMConnect > 0
    /\ state = "connect2RM" => m_retryRMConnect > 0

\* The resource manager was lost, or refused a resource, after it was connected:
\* sendRMIdentAndRegister has no transition for that.
IsStranded ==
    /\ state = "sendRMIdentAndRegister"
    /\ ~ listening
    /\ atResourceManager = {}

\* A start comes to an end: the service takes clients or has exited, or it is
\* stranded without its resource manager.
StartEnds == <>[](listening \/ state = "finish" \/ IsStranded)

=============================================================================
