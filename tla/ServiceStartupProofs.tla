------------------------ MODULE ServiceStartupProofs ------------------------
(***************************************************************************)
(* Proofs about ServiceStartup, for any services, any number of frequency  *)
(* outputs, attempts and restarts.                                         *)
(***************************************************************************)
EXTENDS ServiceStartup, TLAPS

\* Where the signal is posted that starts an attempt to reach the resource manager.
SetUpsIn(signals) == {i \in 1 .. Len(signals) : signals[i] = "sigServerIsSetUp"}

\* It is posted once, where a transition waits for it; after the retry timer, which
\* does not run any more.
SetUpComesOnce ==
    /\ \A i, j \in SetUpsIn(posted) : i = j
    /\ SetUpsIn(posted) # {} =>
        /\ state \in {"setupServer", "connect2RMError"}
        /\ state = "connect2RMError" => ~ m_retryTimer /\ m_retryRMConnect > 0

\* Attempts are left until the first one has failed.
AttemptsAreLeft ==
    state \in {"progAtmel", "wait4Atmel", "setupServer"} => m_retryRMConnect > 0

\* Registering is what one state is for, and what was not acknowledged in it is
\* still on the list.
RegisteringIsAState ==
    /\ state \in {"connect2RM", "connect2RMError", "sendRMIdentAndRegister"}
        => UsesResourceManager
    /\ IF state = "sendRMIdentAndRegister"
       THEN acknowledged \cup m_msgNrListRegister = Channels
       ELSE /\ atResourceManager = {} /\ m_msgNrListRegister = {}
            /\ m_pendingResources = 0 /\ acknowledged = {}

Inv == /\ StartupTypeOK
       /\ ServesWhatIsRegistered
       /\ UpdateIsNotForgotten
       /\ OneAttemptAtATime
       /\ SetUpComesOnce
       /\ AttemptsAreLeft
       /\ RegisteringIsAState

-----------------------------------------------------------------------------
(* What a step may do to the signals that are posted.                      *)

LEMMA AppendOther ==
    ASSUME NEW q \in Seq(Signals), NEW s \in Signals \ {"sigServerIsSetUp"}
    PROVE  /\ Append(q, s) \in Seq(Signals)
           /\ SetUpsIn(Append(q, s)) = SetUpsIn(q)
<1>1. /\ Append(q, s) \in Seq(Signals)
      /\ Len(Append(q, s)) = Len(q) + 1
      /\ \A i \in 1 .. Len(q) : Append(q, s)[i] = q[i]
      /\ Append(q, s)[Len(q) + 1] = s
      /\ Len(q) \in Nat
    OBVIOUS
<1> QED
    BY <1>1 DEF SetUpsIn

LEMMA PostingOther ==
    ASSUME NEW q \in Seq(Signals), NEW s \in Signals \ {"sigServerIsSetUp"}
    PROVE  /\ Posting(q, s) \in Seq(Signals)
           /\ SetUpsIn(Posting(q, s)) = SetUpsIn(q)
<1>1. Posting(q, s) \in {q, Append(q, s)}
    BY DEF Posting
<1> QED
    BY <1>1, AppendOther

LEMMA PostingSetUp ==
    ASSUME NEW q \in Seq(Signals), SetUpsIn(q) = {}
    PROVE  /\ Posting(q, "sigServerIsSetUp") \in Seq(Signals)
           /\ \A i, j \in SetUpsIn(Posting(q, "sigServerIsSetUp")) : i = j
           /\ SetUpsIn(Posting(q, "sigServerIsSetUp")) # {}
                => state \in {"setupServer", "connect2RMError"}
<1> DEFINE p == Posting(q, "sigServerIsSetUp")
<1>1. \/ p = q
      \/ p = Append(q, "sigServerIsSetUp") /\ state \in {"setupServer", "connect2RMError"}
    BY DEF Posting, Target
<1>2. /\ Append(q, "sigServerIsSetUp") \in Seq(Signals)
      /\ SetUpsIn(Append(q, "sigServerIsSetUp")) \subseteq {Len(q) + 1}
    <2>1. /\ Append(q, "sigServerIsSetUp") \in Seq(Signals)
          /\ Len(Append(q, "sigServerIsSetUp")) = Len(q) + 1
          /\ \A i \in 1 .. Len(q) : Append(q, "sigServerIsSetUp")[i] = q[i]
          /\ Len(q) \in Nat
        BY DEF Signals
    <2> QED
        BY <2>1 DEF SetUpsIn
<1> HIDE DEF p
<1>3. /\ p \in Seq(Signals)
      /\ \A i, j \in SetUpsIn(p) : i = j
      /\ SetUpsIn(p) # {} => state \in {"setupServer", "connect2RMError"}
    <2>1. CASE p = q
        <3>1. \A i \in SetUpsIn(p) : FALSE
            BY <2>1
        <3> QED
            BY <2>1, <3>1
    <2>2. CASE /\ p = Append(q, "sigServerIsSetUp")
               /\ state \in {"setupServer", "connect2RMError"}
        BY <1>2, <2>2
    <2> QED
        BY <1>1, <2>1, <2>2
<1> QED
    BY <1>3 DEF p

LEMMA TailSetUps ==
    ASSUME NEW q \in Seq(Signals), q # <<>>, \A i, j \in SetUpsIn(q) : i = j
    PROVE  /\ Head(q) \in Signals
           /\ Tail(q) \in Seq(Signals)
           /\ \A i, j \in SetUpsIn(Tail(q)) : i = j
           /\ SetUpsIn(Tail(q)) # {} =>
                SetUpsIn(q) # {} /\ Head(q) # "sigServerIsSetUp"
<1>1. /\ Head(q) \in Signals /\ Head(q) = q[1]
      /\ Tail(q) \in Seq(Signals)
      /\ Len(q) \in Nat \ {0} /\ Len(Tail(q)) = Len(q) - 1
      /\ \A i \in 1 .. Len(Tail(q)) : Tail(q)[i] = q[i + 1]
    OBVIOUS
<1>2. \A i \in SetUpsIn(Tail(q)) : i + 1 \in SetUpsIn(q) /\ i \in Nat \ {0}
    BY <1>1 DEF SetUpsIn
<1>3. Head(q) = "sigServerIsSetUp" => 1 \in SetUpsIn(q)
    BY <1>1 DEF SetUpsIn
<1> QED
    BY <1>1, <1>2, <1>3

LEMMA EmitOther ==
    ASSUME posted \in Seq(Signals), NEW s \in Signals \ {"sigServerIsSetUp"}, Emit(s)
    PROVE  posted' \in Seq(Signals) /\ SetUpsIn(posted') = SetUpsIn(posted)
BY PostingOther DEF Emit

LEMMA EmitBothOther ==
    ASSUME posted \in Seq(Signals),
           NEW s \in Signals \ {"sigServerIsSetUp"}, NEW t \in Signals \ {"sigServerIsSetUp"},
           EmitBoth(s, t)
    PROVE  posted' \in Seq(Signals) /\ SetUpsIn(posted') = SetUpsIn(posted)
<1>1. /\ Posting(posted, s) \in Seq(Signals)
      /\ SetUpsIn(Posting(posted, s)) = SetUpsIn(posted)
    BY PostingOther
<1> DEFINE q == Posting(posted, s)
<1>2. posted' = Posting(q, t)
    BY DEF EmitBoth
<1> HIDE DEF q
<1>3. q \in Seq(Signals) /\ SetUpsIn(q) = SetUpsIn(posted)
    BY <1>1 DEF q
<1> QED
    BY <1>2, <1>3, PostingOther

\* Nothing posted is nothing that starts an attempt.
LEMMA NothingPosted == SetUpsIn(<<>>) = {}
BY DEF SetUpsIn

-----------------------------------------------------------------------------
LEMMA InitInv == ASSUME StartupAssumption, Init PROVE Inv
<1>1. StartupTypeOK
    <2>1. posted \in Seq(Signals) /\ state \in States
        BY DEF Init, States, FirstState
    <2>2. isBoot \in BOOLEAN /\ atmelFile \in BOOLEAN
        BY DEF Init
    <2>3. m_retryRMConnect \in 0 .. Retries /\ m_pendingResources \in 0 .. 1
            /\ restarts \in 0 .. MaxRestarts
        BY DEF Init, StartupAssumption
    <2> QED
        BY <2>1, <2>2, <2>3 DEF Init, StartupTypeOK
<1>2. SetUpComesOnce
    BY NothingPosted DEF Init, SetUpComesOnce
<1> QED
    BY <1>1, <1>2 DEF StartupAssumption, Init, Inv, ServesWhatIsRegistered,
       UpdateIsNotForgotten, OneAttemptAtATime, AttemptsAreLeft, RegisteringIsAState,
       FirstState

LEMMA StutterInv == ASSUME Inv, UNCHANGED vars PROVE Inv'
BY DEF Inv, vars, dspVars, hardwareVars, rmVars, retryVars, StartupTypeOK,
       ServesWhatIsRegistered, UsesResourceManager, UpdateIsNotForgotten,
       OneAttemptAtATime, SetUpComesOnce, SetUpsIn, AttemptsAreLeft, RegisteringIsAState

LEMMA ProgramAtmelFlash_Inv ==
    ASSUME StartupAssumption, Inv, ProgramAtmelFlash
    PROVE  Inv'
<1> USE DEF Inv
<1>1. posted' \in Seq(Signals) /\ SetUpsIn(posted') = SetUpsIn(posted)
    <2>1. {"abortInit", "atmelProgrammed"} \subseteq Signals \ {"sigServerIsSetUp"}
        BY DEF Signals
    <2>2. posted \in Seq(Signals)
        BY DEF StartupTypeOK
    <2>3. \/ \E s \in {"abortInit", "atmelProgrammed"} : Emit(s)
          \/ \E s \in {"abortInit", "atmelProgrammed"} : EmitBoth("abortInit", s)
        BY DEF ProgramAtmelFlash
    <2> QED
        BY <2>1, <2>2, <2>3, EmitOther, EmitBothOther
<1>2. UNCHANGED <<kind, dspVars, state, heartbeatWait, rmVars, retryVars, listening, restarts>>
    BY DEF ProgramAtmelFlash
<1>3. /\ atmelFile' \in BOOLEAN /\ atmelRuns' \in BOOLEAN
      /\ firmware' \in {"old", "broken", "new"}
      /\ UpdateIsNotForgotten'
    BY DEF ProgramAtmelFlash, Programmed, FileGoes, StartupTypeOK, UpdateIsNotForgotten,
           hardwareVars
<1> QED
    BY <1>1, <1>2, <1>3 DEF dspVars, rmVars, retryVars, StartupTypeOK,
       ServesWhatIsRegistered, UsesResourceManager, OneAttemptAtATime, SetUpComesOnce,
       AttemptsAreLeft, RegisteringIsAState

\* The steps that emit something else than the start of an attempt and touch at
\* most the hardware, the timers of the heartbeat and the connection.
LEMMA OtherSignal_Inv ==
    ASSUME StartupAssumption, Inv,
           posted' \in Seq(Signals), SetUpsIn(posted') = SetUpsIn(posted),
           UNCHANGED <<kind, dspVars, state, firmware, atmelFile, m_msgNrListRegister,
                       m_pendingResources, acknowledged, retryVars, listening, restarts>>,
           atmelRuns' \in BOOLEAN, heartbeatWait' \in BOOLEAN,
           rmPeer' \in {"none", "connecting", "open", "broken"},
           atResourceManager' \subseteq atResourceManager
    PROVE  Inv'
BY DEF Inv, dspVars, retryVars, StartupTypeOK, ServesWhatIsRegistered, UsesResourceManager,
       UpdateIsNotForgotten, OneAttemptAtATime, SetUpComesOnce, AttemptsAreLeft,
       RegisteringIsAState

LEMMA Atmel_Inv ==
    ASSUME StartupAssumption, Inv, AtmelBoots \/ DoAtmelTest \/ DoTimeout
    PROVE  Inv'
<1> USE DEF Inv
<1>1. posted' \in Seq(Signals) /\ SetUpsIn(posted') = SetUpsIn(posted)
    <2>1. {"atmelRunning", "abortInit"} \subseteq Signals \ {"sigServerIsSetUp"}
        BY DEF Signals
    <2>2. posted \in Seq(Signals)
        BY DEF StartupTypeOK
    <2>3. posted' = posted \/ Emit("atmelRunning") \/ Emit("abortInit")
        BY DEF AtmelBoots, DoAtmelTest, DoTimeout
    <2> QED
        BY <2>1, <2>2, <2>3, EmitOther
<1> QED
    BY <1>1, OtherSignal_Inv DEF AtmelBoots, DoAtmelTest, DoTimeout, StartupTypeOK,
       hardwareVars, rmVars

LEMMA Connection_Inv ==
    ASSUME StartupAssumption, Inv, NEW channel \in Channels,
           RMConnected \/ ConnectionRMError \/ ResourceManagerNak(channel)
    PROVE  Inv'
<1> USE DEF Inv
<1>1. posted' \in Seq(Signals) /\ SetUpsIn(posted') = SetUpsIn(posted)
    <2>1. {"connected", "connectionRMError"} \subseteq Signals \ {"sigServerIsSetUp"}
        BY DEF Signals
    <2>2. posted \in Seq(Signals)
        BY DEF StartupTypeOK
    <2>3. \/ Emit("connected") \/ Emit("connectionRMError")
          \/ EmitBoth("connectionRMError", "connectionRMError")
        BY DEF RMConnected, ConnectionRMError, ResourceManagerNak
    <2> QED
        BY <2>1, <2>2, <2>3, EmitOther, EmitBothOther
<1>2. /\ rmPeer' \in {"none", "connecting", "open", "broken"}
      /\ atResourceManager' \subseteq atResourceManager
    BY DEF RMConnected, ConnectionRMError, ResourceManagerNak, StartupTypeOK
<1> QED
    BY <1>1, <1>2, OtherSignal_Inv DEF RMConnected, ConnectionRMError, ResourceManagerNak,
       StartupTypeOK, hardwareVars

LEMMA DoSetupServer_Inv ==
    ASSUME StartupAssumption, Inv, DoSetupServer
    PROVE  Inv'
<1> USE DEF Inv
<1>1. /\ state = "setupServer" /\ posted = <<>> /\ ~ listening
      /\ ~ m_retryTimer
    BY DEF DoSetupServer, OneAttemptAtATime
<1>2. /\ posted' \in Seq(Signals)
      /\ \A i, j \in SetUpsIn(posted') : i = j
    <2>1. Emit("abortInit") \/ Emit("sigServerIsSetUp")
        BY DEF DoSetupServer, SetupDsp, ResetAndBoot
    <2>2. posted \in Seq(Signals) /\ SetUpsIn(posted) = {}
        BY <1>1, NothingPosted DEF StartupTypeOK
    <2>3. "abortInit" \in Signals \ {"sigServerIsSetUp"}
        BY DEF Signals
    <2> QED
        BY <2>1, <2>2, <2>3, EmitOther, PostingSetUp DEF Emit
<1>3. UNCHANGED <<kind, isBoot, state, hardwareVars, heartbeatWait, rmVars, m_retryTimer,
                  restarts>>
    BY DEF DoSetupServer
<1>4. /\ dsp' \in {"reset", "booted", "sampling"}
      /\ listening' \in BOOLEAN
      /\ m_retryRMConnect' \in {m_retryRMConnect, Retries}
      /\ listening' => kind \in {"sec1000d", "zdsp1d"}
      /\ listening' /\ kind = "zdsp1d" /\ isBoot => dsp' = "sampling"
    <2>1. CASE kind = "zdsp1d"
        <3>1. UNCHANGED m_retryRMConnect
            BY <2>1 DEF DoSetupServer, SetupDsp, UsesResourceManager
        <3>2. \/ UNCHANGED <<dsp, listening>>
              \/ isBoot /\ dsp' \in {dsp, "reset", "booted"} /\ UNCHANGED listening
              \/ isBoot /\ dsp' = "sampling" /\ listening' = TRUE
              \/ ~ isBoot /\ listening' = TRUE /\ UNCHANGED dsp
            BY <2>1 DEF DoSetupServer, SetupDsp, ResetAndBoot, UsesResourceManager
        <3>3. dsp' \in {"reset", "booted", "sampling"} /\ listening' \in BOOLEAN
            BY <1>1, <3>2 DEF StartupTypeOK
        <3>4. listening' /\ isBoot => dsp' = "sampling"
            BY <1>1, <3>2
        <3> QED
            BY <2>1, <3>1, <3>3, <3>4
    <2>2. CASE kind # "zdsp1d"
        <3>1. /\ UNCHANGED dsp
              /\ \/ UNCHANGED <<listening, m_retryRMConnect>>
                 \/ m_retryRMConnect' = Retries /\ UNCHANGED listening
                 \/ /\ kind = "sec1000d" /\ listening' = TRUE
                    /\ UNCHANGED m_retryRMConnect
            BY <2>2 DEF DoSetupServer, SetupDsp
        <3>2. /\ dsp' \in {"reset", "booted", "sampling"} /\ listening' \in BOOLEAN
              /\ m_retryRMConnect' \in {m_retryRMConnect, Retries}
            BY <1>1, <3>1 DEF StartupTypeOK
        <3>3. listening' => kind = "sec1000d"
            BY <1>1, <3>1
        <3> QED
            BY <2>2, <3>2, <3>3
    <2> QED
        BY <2>1, <2>2
<1>5. SetUpComesOnce'
    BY <1>1, <1>2, <1>3 DEF SetUpComesOnce
<1> QED
    BY <1>1, <1>2, <1>3, <1>4, <1>5 DEF hardwareVars, rmVars, StartupAssumption,
       StartupTypeOK, ServesWhatIsRegistered, UsesResourceManager, UpdateIsNotForgotten,
       OneAttemptAtATime, AttemptsAreLeft, RegisteringIsAState

LEMMA RetryTimeout_Inv ==
    ASSUME StartupAssumption, Inv, RetryTimeout
    PROVE  Inv'
<1> USE DEF Inv
<1>1. /\ state = "connect2RMError" /\ m_retryRMConnect > 0 /\ SetUpsIn(posted) = {}
    BY DEF RetryTimeout, OneAttemptAtATime, SetUpComesOnce
<1>2. /\ posted' \in Seq(Signals)
      /\ \A i, j \in SetUpsIn(posted') : i = j
    BY <1>1, PostingSetUp DEF RetryTimeout, Emit, StartupTypeOK
<1> QED
    BY <1>1, <1>2 DEF RetryTimeout, dspVars, hardwareVars, rmVars, StartupTypeOK,
       ServesWhatIsRegistered, UsesResourceManager, UpdateIsNotForgotten,
       OneAttemptAtATime, SetUpComesOnce, AttemptsAreLeft, RegisteringIsAState

LEMMA ResourceManagerAck_Inv ==
    ASSUME StartupAssumption, Inv, NEW channel \in Channels, ResourceManagerAck(channel)
    PROVE  Inv'
<1> USE DEF Inv
<1>1. /\ state = "sendRMIdentAndRegister" /\ UsesResourceManager
      /\ acknowledged \cup m_msgNrListRegister = Channels
    BY DEF ResourceManagerAck, RegisteringIsAState
<1>2. /\ acknowledged' = acknowledged \cup {channel}
      /\ m_msgNrListRegister' = m_msgNrListRegister \ {channel}
      /\ atResourceManager' \subseteq atResourceManager
      /\ UNCHANGED <<kind, dspVars, state, posted, hardwareVars, heartbeatWait, rmPeer,
                     retryVars, restarts>>
    BY DEF ResourceManagerAck
<1>3. acknowledged' \cup m_msgNrListRegister' = Channels
    BY <1>1, <1>2
<1>4. /\ m_pendingResources' \in 0 .. 1
      /\ listening' \in BOOLEAN
      /\ listening' => listening \/ m_msgNrListRegister' = {}
    <2> DEFINE list == m_msgNrListRegister \ {channel}
    <2>1. CASE /\ list = {} /\ m_pendingResources > 0
               /\ m_pendingResources' = m_pendingResources - 1
               /\ listening' = (listening \/ m_pendingResources' = 0)
        BY <1>2, <2>1 DEF StartupTypeOK
    <2>2. CASE UNCHANGED <<m_pendingResources, listening>>
        BY <2>2 DEF StartupTypeOK
    <2> QED
        BY <2>1, <2>2 DEF ResourceManagerAck, RegisterRdy
<1>5. listening' => acknowledged' = Channels
    BY <1>1, <1>2, <1>3, <1>4 DEF ServesWhatIsRegistered
<1>6. StartupTypeOK'
    BY <1>2, <1>4 DEF StartupTypeOK, dspVars, hardwareVars, retryVars
<1>7. ServesWhatIsRegistered'
    BY <1>1, <1>2, <1>5 DEF ServesWhatIsRegistered, UsesResourceManager
<1>8. SetUpComesOnce'
    BY <1>2 DEF SetUpComesOnce, SetUpsIn, retryVars
<1>9. RegisteringIsAState'
    BY <1>1, <1>2, <1>3 DEF RegisteringIsAState, UsesResourceManager
<1> QED
    BY <1>2, <1>6, <1>7, <1>8, <1>9 DEF hardwareVars, retryVars, UpdateIsNotForgotten,
       OneAttemptAtATime, AttemptsAreLeft

LEMMA DoCloseServer_Inv ==
    ASSUME StartupAssumption, Inv, DoCloseServer, state' = "finish",
           dsp' \in {"reset", "booted", "sampling"},
           UNCHANGED <<kind, isBoot, restarts, atmelFile>>,
           firmware' \in {"old", "broken", "new"}, atmelRuns' \in BOOLEAN,
           atmelFile \/ firmware' = firmware
    PROVE  Inv'
<1> USE DEF Inv
<1>1. posted' \in Seq(Signals) /\ SetUpsIn(posted') = {}
    BY NothingPosted DEF DoCloseServer, Signals
<1>2. StartupTypeOK'
    <2>1. m_pendingResources' \in 0 .. 1 /\ m_retryRMConnect' \in 0 .. Retries
        BY DEF DoCloseServer, StartupTypeOK
    <2>2. state' \in States
        BY DEF States
    <2>3. isBoot' \in BOOLEAN /\ atmelFile' \in BOOLEAN
        BY DEF StartupTypeOK
    <2>4. restarts' \in 0 .. MaxRestarts /\ kind' \in Kinds
        BY DEF StartupTypeOK
    <2>5. /\ heartbeatWait' \in BOOLEAN /\ m_retryTimer' \in BOOLEAN /\ listening' \in BOOLEAN
          /\ rmPeer' \in {"none", "connecting", "open", "broken"}
          /\ atResourceManager' \subseteq Channels /\ m_msgNrListRegister' \subseteq Channels
          /\ acknowledged' \subseteq Channels
        BY DEF DoCloseServer
    <2> QED
        BY <1>1, <2>1, <2>2, <2>3, <2>4, <2>5 DEF StartupTypeOK
<1>3. ServesWhatIsRegistered' /\ OneAttemptAtATime'
    BY DEF DoCloseServer, ServesWhatIsRegistered, OneAttemptAtATime
<1>4. UpdateIsNotForgotten'
    BY DEF UpdateIsNotForgotten
<1>5. SetUpComesOnce'
    BY <1>1 DEF SetUpComesOnce
<1>6. AttemptsAreLeft' /\ RegisteringIsAState'
    BY DEF DoCloseServer, AttemptsAreLeft, RegisteringIsAState
<1> QED
    BY <1>2, <1>3, <1>4, <1>5, <1>6

LEMMA Crash_Inv ==
    ASSUME StartupAssumption, Inv, Crash
    PROVE  Inv'
BY DoCloseServer_Inv DEF Crash, Inv, StartupTypeOK, hardwareVars, dspVars

LEMMA Restart_Inv ==
    ASSUME StartupAssumption, Inv, Restart
    PROVE  Inv'
<1> USE DEF Inv
<1>1. state = "finish" /\ ~ m_retryTimer /\ acknowledged = {}
    BY DEF Restart, OneAttemptAtATime, RegisteringIsAState
<1>2. SetUpsIn(posted) = {}
    BY <1>1 DEF SetUpComesOnce
<1>3. SetUpsIn(posted') = {}
    BY <1>2 DEF Restart, SetUpsIn
<1>4. state' \in {"progAtmel", "setupServer"}
    BY DEF Restart, FirstState
<1>5. restarts' \in 0 .. MaxRestarts /\ m_retryRMConnect' = Retries
    BY DEF Restart, StartupTypeOK, StartupAssumption
<1> QED
    BY <1>1, <1>3, <1>4, <1>5 DEF Restart, StartupAssumption, dspVars, hardwareVars, rmVars,
       StartupTypeOK, States, ServesWhatIsRegistered, UsesResourceManager,
       UpdateIsNotForgotten, OneAttemptAtATime, SetUpComesOnce, AttemptsAreLeft,
       RegisteringIsAState

-----------------------------------------------------------------------------
(* The transitions of the machine.                                         *)

LEMMA Transition_Inv ==
    ASSUME StartupAssumption, Inv, Transition
    PROVE  Inv'
<1> USE DEF Inv
<1> DEFINE signal == Head(posted)
           target == Target(state, signal)
           rest == Tail(posted)
<1>1. UNCHANGED <<kind, isBoot, hardwareVars, restarts>> /\ state' = target
    BY DEF Transition
<1>2. /\ signal \in Signals /\ rest \in Seq(Signals)
      /\ \A i, j \in SetUpsIn(rest) : i = j
      /\ SetUpsIn(rest) # {} => SetUpsIn(posted) # {} /\ signal # "sigServerIsSetUp"
    BY TailSetUps DEF Transition, StartupTypeOK, SetUpComesOnce
<1>3. \/ target = state
      \/ target = "finish"
      \/ target = "wait4Atmel" /\ state = "progAtmel"
      \/ target = "setupServer" /\ state = "wait4Atmel"
      \/ /\ target = "connect2RM" /\ state \in {"setupServer", "connect2RMError"}
         /\ signal = "sigServerIsSetUp" /\ UsesResourceManager
      \/ target = "sendRMIdentAndRegister" /\ state = "connect2RM"
      \/ target = "connect2RMError" /\ state = "connect2RM"
    BY DEF Target, RegisteringIsAState
<1>4. 1 \in SetUpsIn(posted) \/ signal # "sigServerIsSetUp"
    BY DEF Transition, StartupTypeOK, SetUpsIn
<1>5. /\ m_retryTimer => state = "connect2RMError"
      /\ listening /\ UsesResourceManager => state \in {"sendRMIdentAndRegister", "finish"}
    BY DEF OneAttemptAtATime, ServesWhatIsRegistered
<1>6. CASE target = state
    <2>1. UNCHANGED <<dsp, heartbeatWait, rmVars, retryVars, listening>> /\ posted' = rest
        BY <1>6 DEF Transition, DoSetupServer
    <2>2. SetUpComesOnce'
        BY <1>1, <1>2, <1>6, <2>1 DEF SetUpComesOnce, retryVars
    <2> QED
        BY <1>1, <1>2, <1>6, <2>1, <2>2 DEF hardwareVars, rmVars, retryVars, StartupTypeOK,
           ServesWhatIsRegistered, UsesResourceManager, UpdateIsNotForgotten,
           OneAttemptAtATime, AttemptsAreLeft, RegisteringIsAState
<1>7. CASE target # state /\ target = "finish"
    <2>1. DoCloseServer /\ dsp' \in DspAtEnd
        BY <1>7 DEF Transition
    <2>2. dsp' \in {"reset", "booted", "sampling"}
        BY <2>1 DEF DspAtEnd, StartupTypeOK
    <2> QED
        BY <1>1, <1>7, <2>1, <2>2, DoCloseServer_Inv DEF hardwareVars, StartupTypeOK
<1>8. CASE target \in {"wait4Atmel", "setupServer"} /\ target # state
    <2>1. /\ UNCHANGED <<dsp, rmVars, retryVars, listening>> /\ posted' = rest
          /\ heartbeatWait' \in BOOLEAN
        BY <1>8 DEF Transition, DoWait4Atmel, StartupTypeOK
    <2>2. SetUpComesOnce'
        BY <1>1, <1>2, <1>3, <1>8, <2>1 DEF SetUpComesOnce
    <2> QED
        BY <1>1, <1>2, <1>3, <1>5, <1>8, <2>1, <2>2 DEF hardwareVars, rmVars, retryVars,
           StartupTypeOK, States, ServesWhatIsRegistered, UsesResourceManager,
           UpdateIsNotForgotten, OneAttemptAtATime, AttemptsAreLeft, RegisteringIsAState
<1>9. CASE target # state /\ target = "connect2RM"
    <2>1. DoConnect2RM(rest) /\ UNCHANGED dsp
        BY <1>9 DEF Transition
    <2>2. /\ signal = "sigServerIsSetUp" /\ UsesResourceManager
          /\ state \in {"setupServer", "connect2RMError"}
        BY <1>3, <1>9
    <2>3. SetUpsIn(posted) # {} /\ SetUpsIn(rest) = {}
        BY <1>2, <1>4, <2>2
    <2>4. m_retryRMConnect > 0 /\ ~ m_retryTimer
        BY <1>5, <2>2, <2>3 DEF SetUpComesOnce, AttemptsAreLeft
    <2>5. SetUpComesOnce'
        BY <2>1, <2>3 DEF SetUpComesOnce, DoConnect2RM
    <2> QED
        BY <1>1, <1>2, <1>9, <2>1, <2>2, <2>4, <2>5 DEF DoConnect2RM, hardwareVars, retryVars,
           StartupTypeOK, States, ServesWhatIsRegistered, UsesResourceManager,
           UpdateIsNotForgotten, OneAttemptAtATime, AttemptsAreLeft, RegisteringIsAState
<1>10. CASE target # state /\ target = "sendRMIdentAndRegister"
    <2>1. DoIdentAndRegister(rest) /\ UNCHANGED dsp
        BY <1>10 DEF Transition
    <2>2. state = "connect2RM" /\ UsesResourceManager /\ ~ m_retryTimer
        BY <1>3, <1>5, <1>10 DEF RegisteringIsAState
    <2>3. SetUpsIn(rest) = {}
        BY <1>2, <2>2 DEF SetUpComesOnce
    <2>4. SetUpComesOnce'
        BY <2>1, <2>3 DEF SetUpComesOnce, DoIdentAndRegister
    <2>5. ~ listening
        BY <1>5, <2>2
    <2> QED
        BY <1>1, <1>2, <1>10, <2>1, <2>2, <2>4, <2>5 DEF DoIdentAndRegister, hardwareVars,
           retryVars, StartupTypeOK, States, ServesWhatIsRegistered, UsesResourceManager,
           UpdateIsNotForgotten, OneAttemptAtATime, AttemptsAreLeft, RegisteringIsAState
<1>11. CASE target # state /\ target = "connect2RMError"
    <2>1. Connect2RMError(rest) /\ UNCHANGED dsp
        BY <1>11 DEF Transition
    <2>2. state = "connect2RM" /\ UsesResourceManager /\ m_retryRMConnect > 0
        BY <1>3, <1>11 DEF RegisteringIsAState, OneAttemptAtATime
    <2>3. SetUpsIn(rest) = {}
        BY <1>2, <2>2 DEF SetUpComesOnce
    <2>4. posted' \in Seq(Signals) /\ SetUpsIn(posted') = {}
        BY <2>1, <2>3, <1>2, AppendOther DEF Connect2RMError, Signals
    <2>5. SetUpComesOnce'
        BY <2>4 DEF SetUpComesOnce
    <2>6. /\ m_retryRMConnect' \in 0 .. Retries /\ m_retryTimer' \in BOOLEAN
          /\ m_retryTimer' => m_retryRMConnect' > 0
        <3>1. m_retryRMConnect' \in 0 .. Retries
            BY <2>1, <2>2 DEF Connect2RMError, StartupTypeOK, StartupAssumption
        <3>2. m_retryTimer' = (m_retryRMConnect' # 0)
            BY <2>1 DEF Connect2RMError
        <3>3. m_retryTimer' \in BOOLEAN
            BY <3>2
        <3>4. m_retryTimer' => m_retryRMConnect' # 0
            BY <3>2
        <3> QED
            BY <3>1, <3>3, <3>4 DEF StartupAssumption
    <2>7. ~ listening
        BY <1>5, <2>2
    <2>8. UNCHANGED <<heartbeatWait, rmVars, listening>>
        BY <2>1 DEF Connect2RMError
    <2> QED
        BY <1>1, <1>11, <2>1, <2>2, <2>4, <2>5, <2>6, <2>7, <2>8 DEF hardwareVars,
           rmVars, StartupTypeOK, States, ServesWhatIsRegistered, UsesResourceManager,
           UpdateIsNotForgotten, OneAttemptAtATime, AttemptsAreLeft, RegisteringIsAState
<1> QED
    BY <1>3, <1>6, <1>7, <1>8, <1>9, <1>10, <1>11

-----------------------------------------------------------------------------
\* The invariant holds in every state of every start.
THEOREM InvCorrect == Spec => []Inv
<1>1. Init => Inv
    BY InitInv, StartupAssumption
<1>2. Inv /\ [Next]_vars => Inv'
    <2> SUFFICES ASSUME Inv, [Next]_vars PROVE Inv'
        OBVIOUS
    <2> USE StartupAssumption
    <2>1. CASE UNCHANGED vars
        BY <2>1, StutterInv
    <2>2. CASE Service
        BY <2>2, Transition_Inv, ProgramAtmelFlash_Inv, DoSetupServer_Inv, Atmel_Inv,
           RetryTimeout_Inv DEF Service
    <2>3. CASE AtmelBoots
        BY <2>3, Atmel_Inv
    <2>4. CASE Answers
        BY <2>4, Connection_Inv DEF Answers, StartupAssumption
    <2>5. ASSUME NEW channel \in Channels,
                 ResourceManagerAck(channel) \/ ResourceManagerNak(channel)
          PROVE  Inv'
        BY <2>5, ResourceManagerAck_Inv, Connection_Inv
    <2>6. CASE Crash \/ Restart
        BY <2>6, Crash_Inv, Restart_Inv
    <2> QED
        BY <2>1, <2>2, <2>3, <2>4, <2>5, <2>6 DEF Next
<1> QED
    BY <1>1, <1>2, PTL DEF Spec

\* Every variable keeps its type.
THEOREM StartupTypeCorrect == Spec => []StartupTypeOK
<1>1. Inv => StartupTypeOK
    BY DEF Inv
<1> QED
    BY <1>1, InvCorrect, PTL

\* Whoever reaches a service reaches one that is registered, and a zdsp1d whose DSP
\* samples.
THEOREM StartupServesWhatIsRegistered == Spec => []ServesWhatIsRegistered
<1>1. Inv => ServesWhatIsRegistered
    BY DEF Inv
<1> QED
    BY <1>1, InvCorrect, PTL

\* An update that is due is never forgotten, wherever the service dies.
THEOREM StartupUpdateIsNotForgotten == Spec => []UpdateIsNotForgotten
<1>1. Inv => UpdateIsNotForgotten
    BY DEF Inv
<1> QED
    BY <1>1, InvCorrect, PTL

\* No attempt to reach the resource manager is started beside another one.
THEOREM StartupOneAttemptAtATime == Spec => []OneAttemptAtATime
<1>1. Inv => OneAttemptAtATime
    BY DEF Inv
<1> QED
    BY <1>1, InvCorrect, PTL

=============================================================================
