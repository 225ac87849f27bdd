-------------------------- MODULE DspUploadProofs --------------------------
(***************************************************************************)
(* Proofs about DspUpload, for any number of uploads.                      *)
(***************************************************************************)
EXTENDS DspUpload, TLAPS

UploadRuns == step # "idle" /\ IsUpload(cmd)

SwitchPending == (request /\ IsUpload(dspCmdPar)) \/ IsUpload(working)

\* The handshake: how far the service and the DSP can be in it at a time.
HandshakeInv ==
    /\ working # None <=> dspAck = "InProgress"
    /\ request => dspAck = "NBusy"
    /\ step # "idle" => ~request /\ working = None
    /\ step \in {"par", "request"} => dspAck = "NBusy"
    /\ step = "idle" /\ answer # "ack" => ~request /\ working = None
    /\ step \in {"cyclic", "interrupt"} => IsUpload(cmd)
    /\ step = "request" => dspCmdPar = cmd

\* Lists that are none of upload v or of a later one.
Older(v) == 0 .. (v - 1) \cup {Torn}

\* The banks: each upload that fails takes the selector one step further from
\* the bank that runs, and what is not selected is of earlier uploads.
BankInv ==
    LET sel == m_currentCmdListSelector
    IN  /\ UploadRuns => active = (sel + 1 + failures) % 2 /\ failures < loads
        /\ ~UploadRuns /\ ~SwitchPending => active = (sel + failures) % 2
        /\ SwitchPending => failures = 0 /\ loads > 0
        /\ UploadRuns => cmd = SwitchTo(sel)
        /\ IsUpload(working) => working = SwitchTo(sel)
        /\ request /\ IsUpload(dspCmdPar) => dspCmdPar = SwitchTo(sel)
        /\ step = "interrupt" => bank[sel].cyclic = loads
        /\ (UploadRuns /\ step \notin {"cyclic", "interrupt"}) \/ SwitchPending =>
                bank[sel].cyclic = loads /\ bank[sel].interrupt = loads
        /\ UploadRuns \/ SwitchPending =>
                \A b \in Banks \ {sel} : bank[b].cyclic \in Older(loads)
                                         /\ bank[b].interrupt \in Older(loads)
        /\ \A b \in Banks : bank[b].cyclic \in 0 .. loads \cup {Torn}
                            /\ bank[b].interrupt \in 0 .. loads \cup {Torn}

UploadInv == UploadTypeOK /\ HandshakeInv /\ BankInv

-----------------------------------------------------------------------------
LEMMA UploadInit_Inv == UploadInit => UploadInv
<1> USE UploadAssumption DEF UploadInit
<1>1. UploadInit => UploadTypeOK
    <2>1. 0 \in Lists /\ 0 \in 0 .. MaxLoads /\ 0 \in Banks
        BY DEF Lists, Torn, Banks
    <2>2. Other \in Commands
        BY DEF Commands
    <2>3. UploadInit => bank \in [Banks -> [cyclic : Lists, interrupt : Lists]]
        BY <2>1
    <2> QED
        BY <2>1, <2>2, <2>3 DEF UploadTypeOK, Steps
<1>2. UploadInit => HandshakeInv
    BY DEF HandshakeInv, IsUpload, Other
<1>3. UploadInit => BankInv
    BY DEF BankInv, UploadRuns, SwitchPending, IsUpload, Other, None, Banks, Torn
<1> QED
    BY <1>1, <1>2, <1>3 DEF UploadInv

\* Who sends a command next finds the DSP at rest.
LEMMA SynchronisedIsQuiet ==
    ASSUME UploadInv, Synchronised, step = "idle"
    PROVE  ~request /\ working = None
BY DEF UploadInv, HandshakeInv, Synchronised

\* A step of sendCommand2Dsp before the DSP is told: it goes on or gives up, and
\* then the upload, if it was one, has failed.
LEMMA GivenUp ==
    ASSUME UploadInv, step \notin {"idle", "cyclic", "interrupt"}, ~request, working = None,
           UNCHANGED <<m_currentCmdListSelector, active, bank, cmd, loads, request, working>>,
           \/ step' \notin {"idle", "cyclic", "interrupt"} /\ failures' = failures
           \/ step' = "idle" /\ IsUpload(cmd) /\ failures' = failures + 1
           \/ step' = "idle" /\ ~IsUpload(cmd) /\ failures' = failures
    PROVE  BankInv'
<1> USE DEF UploadInv, IsUpload, UploadRuns, SwitchPending
<1>1. ~SwitchPending' /\ ~SwitchPending
    BY DEF None
<1>2. /\ m_currentCmdListSelector \in Banks /\ failures \in Nat /\ loads \in Nat
    BY UploadAssumption DEF UploadTypeOK
<1>3. CASE step' \notin {"idle", "cyclic", "interrupt"} /\ failures' = failures
    BY <1>1, <1>3 DEF BankInv
<1>4. CASE step' = "idle" /\ IsUpload(cmd) /\ failures' = failures + 1
    <2>1. active' = (m_currentCmdListSelector' + failures') % 2
        BY <1>2, <1>4 DEF BankInv, Banks
    <2> QED
        BY <1>1, <1>4, <2>1 DEF BankInv
<1>5. CASE step' = "idle" /\ ~IsUpload(cmd) /\ failures' = failures
    BY <1>1, <1>5 DEF BankInv
<1> QED
    BY <1>3, <1>4, <1>5

LEMMA UploadStep ==
    ASSUME UploadInv, [SyncedNext]_uploadVars
    PROVE  UploadInv'
<1> USE UploadAssumption
<1> USE DEF UploadInv, IsUpload, UploadRuns, SwitchPending
<1>1. CASE Synchronised /\ BeginUpload
    <2>1. ~request /\ working = None /\ step = "idle"
        BY <1>1, SynchronisedIsQuiet DEF BeginUpload
    <2> DEFINE sel == m_currentCmdListSelector
    <2>2. /\ sel \in Banks /\ failures \in Nat /\ loads \in Nat /\ loads < MaxLoads
          /\ failures <= loads
        BY <1>1 DEF BeginUpload, UploadTypeOK
    <2>3. /\ sel' = (sel + 1) % 2 /\ cmd' = SwitchTo(sel') /\ step' = "cyclic"
          /\ loads' = loads + 1 /\ failures' = failures
          /\ UNCHANGED <<accepted, answer, bank, dspAck, dspCmdPar, request, working, active>>
        BY <1>1 DEF BeginUpload, dspVars, FlippedSelector
    <2>4. sel' \in Banks
        BY <2>2, <2>3 DEF Banks
    <2>5. UploadTypeOK'
        BY <2>2, <2>3, <2>4 DEF UploadTypeOK, Commands, Steps
    <2>6. HandshakeInv'
        BY <2>1, <2>3 DEF HandshakeInv, SwitchTo
    <2>7. active = (sel + failures) % 2
        BY <2>1 DEF BankInv, None
    <2>8. active' = (sel' + 1 + failures') % 2
        BY <2>2, <2>3, <2>7 DEF Banks
    <2>9. \A b \in Banks : /\ bank'[b].cyclic \in Older(loads')
                           /\ bank'[b].interrupt \in Older(loads')
                           /\ bank'[b].cyclic \in 0 .. loads' \cup {Torn}
                           /\ bank'[b].interrupt \in 0 .. loads' \cup {Torn}
        BY <2>2, <2>3 DEF BankInv, Older
    <2>10. ~SwitchPending' /\ UploadRuns' /\ step' = "cyclic"
        BY <2>1, <2>3 DEF None, SwitchTo
    <2>11. cmd' = SwitchTo(sel') /\ ~request' /\ working' = None
        BY <2>1, <2>3
    <2> HIDE DEF sel
    <2>12. BankInv'
        BY <2>2, <2>3, <2>8, <2>9, <2>10, <2>11 DEF BankInv, sel, None
    <2> QED
        BY <2>5, <2>6, <2>12
<1>2. CASE Synchronised /\ BeginOther
    <2>1. ~request /\ working = None
        BY <1>2, SynchronisedIsQuiet DEF BeginOther
    <2> QED
        BY <1>2, <2>1
        DEF BeginOther, UploadTypeOK, HandshakeInv, BankInv, dspVars, Other,
            Commands, Steps, None
<1>3. ASSUME NEW ok \in BOOLEAN, WriteCyclic(ok)
      PROVE  UploadInv'
    <2> DEFINE sel == m_currentCmdListSelector
               new == IF ok THEN loads ELSE Torn
    <2>1. /\ step = "cyclic" /\ step' = IF ok THEN "interrupt" ELSE "idle"
          /\ bank' = [bank EXCEPT ![sel].cyclic = new]
          /\ failures' = IF ok THEN failures ELSE failures + 1
          /\ answer' = IF ok THEN answer ELSE "errexec"
          /\ UNCHANGED <<sel, active, cmd, loads, request, working, dspCmdPar, accepted,
                         dspAck>>
        BY <1>3 DEF WriteCyclic, WriteList
    <2>2. /\ sel \in Banks /\ active \in Banks /\ loads \in 0 .. MaxLoads
          /\ failures \in 0 .. loads /\ new \in Lists /\ new \in 0 .. loads \cup {Torn}
          /\ bank \in [Banks -> [cyclic : Lists, interrupt : Lists]]
        BY DEF UploadTypeOK, Lists, Torn
    <2>3. /\ ~request /\ working = None /\ IsUpload(cmd) /\ cmd = SwitchTo(sel)
          /\ failures < loads /\ active = (sel + 1 + failures) % 2
        BY <2>1 DEF HandshakeInv, BankInv
    <2>4. /\ bank'[sel].cyclic = new /\ \A b \in Banks \ {sel} : bank'[b] = bank[b]
          /\ bank'[sel].interrupt = bank[sel].interrupt
          /\ bank' \in [Banks -> [cyclic : Lists, interrupt : Lists]]
        BY <2>1, <2>2
    <2> HIDE DEF sel, new
    <2>5. UploadTypeOK'
        BY <2>1, <2>2, <2>3, <2>4 DEF UploadTypeOK, Steps, sel
    <2>6. HandshakeInv'
        BY <2>1, <2>3 DEF HandshakeInv
    <2>7. ~SwitchPending' /\ ~SwitchPending
        BY <2>1, <2>3 DEF None
    <2>8. \A b \in Banks : /\ bank'[b].cyclic \in 0 .. loads' \cup {Torn}
                           /\ bank'[b].interrupt \in 0 .. loads' \cup {Torn}
        BY <2>1, <2>2, <2>4 DEF BankInv
    <2>9. \A b \in Banks \ {sel'} : /\ bank'[b].cyclic \in Older(loads')
                                     /\ bank'[b].interrupt \in Older(loads')
        BY <2>1, <2>3, <2>4 DEF BankInv, sel
    <2>10. ok => new = loads
        BY DEF new
    <2>11. BankInv'
        <3>1. CASE ok
            BY <2>1, <2>2, <2>3, <2>4, <2>7, <2>8, <2>9, <2>10, <3>1 DEF BankInv, sel
        <3>2. CASE ~ok
            <4>1. ~UploadRuns' /\ step' = "idle" /\ failures' = failures + 1
                BY <2>1, <3>2
            <4>2. active' = (sel' + failures') % 2
                BY <2>1, <2>2, <2>3, <4>1 DEF Banks
            <4> QED
                BY <2>1, <2>3, <2>7, <2>8, <4>1, <4>2 DEF BankInv, sel, None
        <3> QED
            BY <3>1, <3>2
    <2> QED
        BY <2>5, <2>6, <2>11
<1>4. ASSUME NEW ok \in BOOLEAN, WriteInterrupt(ok)
      PROVE  UploadInv'
    <2> DEFINE sel == m_currentCmdListSelector
               new == IF ok THEN loads ELSE Torn
    <2>1. /\ step = "interrupt" /\ step' = IF ok THEN "ack" ELSE "idle"
          /\ bank' = [bank EXCEPT ![sel].interrupt = new]
          /\ failures' = IF ok THEN failures ELSE failures + 1
          /\ answer' = IF ok THEN answer ELSE "errexec"
          /\ UNCHANGED <<sel, active, cmd, loads, request, working, dspCmdPar, accepted,
                         dspAck>>
        BY <1>4 DEF WriteInterrupt, WriteList
    <2>2. /\ sel \in Banks /\ active \in Banks /\ loads \in 0 .. MaxLoads
          /\ failures \in 0 .. loads /\ new \in Lists /\ new \in 0 .. loads \cup {Torn}
          /\ bank \in [Banks -> [cyclic : Lists, interrupt : Lists]]
        BY DEF UploadTypeOK, Lists, Torn
    <2>3. /\ ~request /\ working = None /\ IsUpload(cmd) /\ cmd = SwitchTo(sel)
          /\ failures < loads /\ active = (sel + 1 + failures) % 2
        BY <2>1 DEF HandshakeInv, BankInv
    <2>4. /\ bank'[sel].interrupt = new /\ \A b \in Banks \ {sel} : bank'[b] = bank[b]
          /\ bank'[sel].cyclic = bank[sel].cyclic
          /\ bank' \in [Banks -> [cyclic : Lists, interrupt : Lists]]
        BY <2>1, <2>2
    <2> HIDE DEF sel, new
    <2>5. UploadTypeOK'
        BY <2>1, <2>2, <2>3, <2>4 DEF UploadTypeOK, Steps, sel
    <2>6. HandshakeInv'
        BY <2>1, <2>3 DEF HandshakeInv
    <2>7. ~SwitchPending' /\ ~SwitchPending
        BY <2>1, <2>3 DEF None
    <2>8. \A b \in Banks : /\ bank'[b].cyclic \in 0 .. loads' \cup {Torn}
                           /\ bank'[b].interrupt \in 0 .. loads' \cup {Torn}
        BY <2>1, <2>2, <2>4 DEF BankInv
    <2>9. \A b \in Banks \ {sel'} : /\ bank'[b].cyclic \in Older(loads')
                                     /\ bank'[b].interrupt \in Older(loads')
        BY <2>1, <2>3, <2>4 DEF BankInv, sel
    <2>10. ok => new = loads
        BY DEF new
    <2>11. BankInv'
        <3>1. CASE ok
            BY <2>1, <2>2, <2>3, <2>4, <2>7, <2>8, <2>9, <2>10, <3>1 DEF BankInv, sel
        <3>2. CASE ~ok
            <4>1. ~UploadRuns' /\ step' = "idle" /\ failures' = failures + 1
                BY <2>1, <3>2
            <4>2. active' = (sel' + failures') % 2
                BY <2>1, <2>2, <2>3, <4>1 DEF Banks
            <4> QED
                BY <2>1, <2>3, <2>7, <2>8, <4>1, <4>2 DEF BankInv, sel, None
        <3> QED
            BY <3>1, <3>2
    <2> QED
        BY <2>5, <2>6, <2>11
<1>5. ASSUME NEW ok \in BOOLEAN, ReadAck(ok)
      PROVE  UploadInv'
    <2>1. UploadTypeOK' /\ HandshakeInv'
        <3>1. UploadTypeOK'
            BY <1>5 DEF ReadAck, Answer, dspVars, UploadTypeOK, BankInv, Steps, Banks, Lists, Torn
        <3>2. HandshakeInv'
            BY <1>5 DEF ReadAck, Answer, dspVars, HandshakeInv
        <3> QED
            BY <3>1, <3>2
    <2>2. /\ step \notin {"idle", "cyclic", "interrupt"} /\ ~request /\ working = None
          /\ UNCHANGED <<m_currentCmdListSelector, active, bank, cmd, loads, request, working>>
        BY <1>5 DEF ReadAck, dspVars, HandshakeInv
    <2>3. \/ step' \notin {"idle", "cyclic", "interrupt"} /\ failures' = failures
          \/ step' = "idle" /\ IsUpload(cmd) /\ failures' = failures + 1
          \/ step' = "idle" /\ ~IsUpload(cmd) /\ failures' = failures
        BY <1>5 DEF ReadAck, Answer, dspVars, UploadTypeOK
    <2>4. BankInv'
        BY <2>2, <2>3, GivenUp
    <2> QED
        BY <2>1, <2>4
<1>6. ASSUME NEW ok \in BOOLEAN, ResetAck(ok)
      PROVE  UploadInv'
    <2>1. UploadTypeOK' /\ HandshakeInv'
        <3>1. UploadTypeOK'
            BY <1>6 DEF ResetAck, Answer, UploadTypeOK, BankInv, Steps, Banks, Lists, Torn
        <3>2. HandshakeInv'
            BY <1>6 DEF ResetAck, Answer, HandshakeInv
        <3> QED
            BY <3>1, <3>2
    <2>2. /\ step \notin {"idle", "cyclic", "interrupt"} /\ ~request /\ working = None
          /\ UNCHANGED <<m_currentCmdListSelector, active, bank, cmd, loads, request, working>>
        BY <1>6 DEF ResetAck, HandshakeInv
    <2>3. \/ step' \notin {"idle", "cyclic", "interrupt"} /\ failures' = failures
          \/ step' = "idle" /\ IsUpload(cmd) /\ failures' = failures + 1
          \/ step' = "idle" /\ ~IsUpload(cmd) /\ failures' = failures
        BY <1>6 DEF ResetAck, Answer, UploadTypeOK
    <2>4. BankInv'
        BY <2>2, <2>3, GivenUp
    <2> QED
        BY <2>1, <2>4
<1>7. ASSUME NEW ok \in BOOLEAN, WritePar(ok)
      PROVE  UploadInv'
    <2>1. UploadTypeOK' /\ HandshakeInv'
        <3>1. UploadTypeOK'
            BY <1>7 DEF WritePar, Answer, UploadTypeOK, BankInv, Steps, Banks, Lists, Torn
        <3>2. HandshakeInv'
            BY <1>7 DEF WritePar, Answer, HandshakeInv
        <3> QED
            BY <3>1, <3>2
    <2>2. /\ step \notin {"idle", "cyclic", "interrupt"} /\ ~request /\ working = None
          /\ UNCHANGED <<m_currentCmdListSelector, active, bank, cmd, loads, request, working>>
        BY <1>7 DEF WritePar, HandshakeInv
    <2>3. \/ step' \notin {"idle", "cyclic", "interrupt"} /\ failures' = failures
          \/ step' = "idle" /\ IsUpload(cmd) /\ failures' = failures + 1
          \/ step' = "idle" /\ ~IsUpload(cmd) /\ failures' = failures
        BY <1>7 DEF WritePar, Answer, UploadTypeOK
    <2>4. BankInv'
        BY <2>2, <2>3, GivenUp
    <2> QED
        BY <2>1, <2>4
<1>8. CASE Request
    <2>1. UploadTypeOK'
        BY <1>8 DEF Request, Answer, UploadTypeOK, Steps, Banks, Lists, Torn
    <2>2. HandshakeInv'
        BY <1>8 DEF Request, Answer, HandshakeInv
    <2>3. BankInv'
        BY <1>8 DEF Request, Answer, HandshakeInv, BankInv, UploadTypeOK, Banks, None
    <2> QED
        BY <2>1, <2>2, <2>3
<1>9. CASE DspTake
    <2>1. UploadTypeOK'
        BY <1>9 DEF DspTake, serverVars, UploadTypeOK
    <2>2. HandshakeInv'
        <3>1. dspCmdPar # None
            BY <1>9 DEF UploadTypeOK, Commands, SwitchTo, Other, None
        <3> QED
            BY <1>9, <3>1 DEF DspTake, serverVars, HandshakeInv
    <2>3. BankInv'
        BY <1>9 DEF DspTake, serverVars, HandshakeInv, BankInv, None
    <2> QED
        BY <2>1, <2>2, <2>3
<1>10. CASE DspFinish
    BY <1>10
    DEF DspFinish, serverVars, UploadTypeOK, HandshakeInv, BankInv, Commands,
        None, SwitchTo, Other, Banks
<1>11. CASE UNCHANGED uploadVars
    BY <1>11
    DEF uploadVars, serverVars, dspVars, UploadTypeOK, HandshakeInv, BankInv
<1> QED
    BY <1>1, <1>2, <1>3, <1>4, <1>5, <1>6, <1>7, <1>8, <1>9, <1>10, <1>11
    DEF SyncedNext, ServerStep, DspStep

LEMMA UploadInvariant == SyncedSpec => []UploadInv
BY UploadInit_Inv, UploadStep, PTL DEF SyncedSpec

-----------------------------------------------------------------------------
\* Types of all variables, for any number of uploads.
THEOREM UploadTypeCorrect == SyncedSpec => []UploadTypeOK
<1>1. UploadInv => UploadTypeOK
    BY DEF UploadInv
<1> QED
    BY <1>1, UploadInvariant, PTL

\* The service writes into the bank the DSP runs exactly while an upload follows
\* an odd number of uploads in a row that failed, whichever accesses to the device
\* these failed at.
THEOREM UploadWritesActiveBankAfterFailure ==
    SyncedSpec => []ActiveBankIsWrittenAfterFailure
<1>1. UploadInv => ActiveBankIsWrittenAfterFailure
    <2> SUFFICES ASSUME UploadInv, step \in {"cyclic", "interrupt"}
                 PROVE  m_currentCmdListSelector = active <=> failures % 2 = 1
        BY DEF ActiveBankIsWrittenAfterFailure
    <2>1. active = (m_currentCmdListSelector + 1 + failures) % 2
        BY DEF UploadInv, HandshakeInv, BankInv, UploadRuns
    <2>2. m_currentCmdListSelector \in {0, 1} /\ failures \in Nat
        BY UploadAssumption DEF UploadInv, UploadTypeOK, Banks
    <2> QED
        BY <2>1, <2>2
<1> QED
    BY <1>1, UploadInvariant, PTL

\* A write into the bank that runs.
LEMMA OverwrittenStep ==
    ASSUME UploadInv, NEW ok \in BOOLEAN, NEW list \in {"cyclic", "interrupt"},
           NEW next, WriteList(list, list, next, ok)
    PROVE  [Switch!Next]_(bank[active])
<1> DEFINE new == IF ok THEN loads ELSE Torn
<1>1. /\ bank' = [bank EXCEPT ![m_currentCmdListSelector][list] = new] /\ active' = active
      /\ step = list
    BY DEF WriteList
<1>2. /\ m_currentCmdListSelector \in Banks /\ active \in Banks /\ failures \in Nat
      /\ bank \in [Banks -> [cyclic : Lists, interrupt : Lists]]
    BY UploadAssumption DEF UploadInv, UploadTypeOK
<1>3. UploadRuns
    BY <1>1 DEF UploadInv, HandshakeInv, UploadRuns
<1>4. /\ active = (m_currentCmdListSelector + 1 + failures) % 2 /\ failures < loads
      /\ loads \in 0 .. MaxLoads
    BY <1>3 DEF UploadInv, BankInv, UploadTypeOK
<1>5. new \in Versions \cup {Torn}
    BY <1>2, <1>4, UploadAssumption DEF Versions
<1> HIDE DEF new
<1>6. CASE m_currentCmdListSelector = active
    <2>1. failures % 2 = 1
        BY <1>2, <1>4, <1>6 DEF Banks
    <2>2. bank'[active'] = [bank[active] EXCEPT ![list] = new]
        BY <1>1, <1>2, <1>6
    <2> QED
        BY <1>5, <2>1, <2>2 DEF Switch!Next, Switch!Overwritten
<1>7. CASE m_currentCmdListSelector # active
    BY <1>1, <1>2, <1>7
<1> QED
    BY <1>6, <1>7

LEMMA SwitchStep ==
    ASSUME UploadInv, [SyncedNext]_uploadVars
    PROVE  [Switch!Next]_(bank[active])
<1> USE DEF UploadInv, IsUpload, UploadRuns, SwitchPending
<1>1. CASE DspFinish /\ working.code = 7
    <2> DEFINE sel == m_currentCmdListSelector
    <2>1. active' = sel /\ bank' = bank
        BY <1>1 DEF DspFinish, BankInv, SwitchTo
    <2>2. bank[sel].cyclic = loads /\ bank[sel].interrupt = loads
        BY <1>1 DEF DspFinish, BankInv
    <2>3. /\ sel \in Banks /\ active \in Banks /\ loads \in 0 .. MaxLoads
          /\ bank \in [Banks -> [cyclic : Lists, interrupt : Lists]]
        BY DEF UploadTypeOK
    <2>4. bank'[active'] = [cyclic |-> loads, interrupt |-> loads]
        BY <2>1, <2>2, <2>3
    <2>5. CASE active = sel
        BY <2>1, <2>5
    <2>6. CASE active # sel
        <3>1. bank[active].cyclic \in Older(loads) /\ bank[active].interrupt \in Older(loads)
            BY <1>1, <2>3, <2>6 DEF DspFinish, BankInv
        <3>2. \A list \in {"cyclic", "interrupt"} :
                  bank[active][list] < loads \/ bank[active][list] = Torn
            BY <2>3, <3>1 DEF Older
        <3>3. loads \in Versions
            BY <2>3, <3>1, UploadAssumption, <1>1 DEF Versions, DspFinish, BankInv
        <3> QED
            BY <2>4, <3>2, <3>3 DEF Switch!Next, Switch!SwitchTo
    <2> QED
        BY <2>5, <2>6
<1>2. CASE DspFinish /\ working.code # 7
    BY <1>2 DEF DspFinish
<1>3. ASSUME NEW ok \in BOOLEAN, WriteCyclic(ok) \/ WriteInterrupt(ok)
      PROVE  [Switch!Next]_(bank[active])
    BY <1>3, OverwrittenStep DEF WriteCyclic, WriteInterrupt
<1>4. CASE UNCHANGED <<bank, active>>
    BY <1>4
<1> QED
    BY <1>1, <1>2, <1>3, <1>4
    DEF SyncedNext, ServerStep, DspStep, BeginUpload, BeginOther, ReadAck,
        ResetAck, WritePar, Request, DspTake, uploadVars, dspVars

\* The lists the DSP runs belong together and only get newer, except while an
\* upload that follows failed ones writes over them.
THEOREM UploadImplementsSwitch == SyncedSpec => ImplementsSwitch
<1>1. UploadInit => Switch!Init
    BY DEF UploadInit, Switch!Init, Banks
<1>2. UploadInv /\ [SyncedNext]_uploadVars => [Switch!Next]_(bank[active])
    BY SwitchStep
<1> QED
    BY <1>1, <1>2, UploadInvariant, PTL DEF SyncedSpec, ImplementsSwitch, Switch!Spec

=============================================================================
