----------------------------- MODULE DspUpload -----------------------------
(***************************************************************************)
(* zdsp1d: how command lists get into the DSP while it runs.               *)
(*                                                                         *)
(* The command memory of the DSP has two banks (CMDLIST / INTCMDLIST and   *)
(* ALTCMDLIST / ALTINTCMDLIST).  An upload flips the selector, writes both *)
(* lists into the selected bank and sends the DSP command 7 with the       *)
(* number of this bank.  A command is sent by DSPACK := 0, its parameters  *)
(* into DSPCMDPAR and an interrupt to the DSP; the DSP answers in DSPACK.  *)
(*                                                                         *)
(* The service does all this in one go, but the DSP is another processor:  *)
(* each access to its memory is a step.                                    *)
(***************************************************************************)
EXTENDS Naturals

CONSTANT MaxLoads   \* bound on the number of uploads

ASSUME UploadAssumption == MaxLoads \in Nat

VARIABLES
    m_currentCmdListSelector,  \* the bank of the last upload
    step,      \* the device access the running handler makes next
    cmd,       \* the command this handler sends
    loads,     \* uploads begun so far: each has its number
    accepted,  \* number of the last upload that was answered "ack"
    answer,    \* of the last command
    failures,  \* history: uploads in a row, the last ones, that failed
    bank,      \* DSP: which upload the lists of each bank come from
    dspAck,    \* DSP: DSPACK
    dspCmdPar, \* DSP: DSPCMDPAR
    request,   \* DSP: interrupt requested
    working,   \* DSP: the command it works on, or none
    active     \* DSP: the bank it runs

serverVars == <<m_currentCmdListSelector, step, cmd, loads, accepted, answer,
                failures>>
dspVars == <<bank, dspAck, dspCmdPar, request, working, active>>
uploadVars == <<serverVars, dspVars>>

Banks == {0, 1}
Versions == 1 .. MaxLoads
Torn == MaxLoads + 1       \* a list whose write has failed half way
Lists == 0 .. Torn

Steps == {"idle", "cyclic", "interrupt", "ack", "reset", "par", "request"}

SwitchTo(b) == [code |-> 7, bank |-> b]
Other == [code |-> 2, bank |-> 0]   \* 1, 2 or 4: none of them touches banks
None == [code |-> 0, bank |-> 0]
Commands == {SwitchTo(b) : b \in Banks} \cup {Other}

UploadTypeOK ==
    /\ m_currentCmdListSelector \in Banks
    /\ step \in Steps
    /\ cmd \in Commands
    /\ loads \in 0 .. MaxLoads
    /\ accepted \in 0 .. MaxLoads
    /\ answer \in {"ack", "busy", "errexec"}
    /\ failures \in 0 .. loads
    /\ bank \in [Banks -> [cyclic : Lists, interrupt : Lists]]
    /\ dspAck \in {"NBusy", "InProgress", "CmdDone"}
    /\ dspCmdPar \in Commands
    /\ request \in BOOLEAN
    /\ working \in Commands \cup {None}
    /\ active \in Banks

\* doSetupServer has booted the DSP and has just sent it the sampling system.
UploadInit ==
    /\ m_currentCmdListSelector = 0
    /\ step = "idle"
    /\ cmd = Other
    /\ loads = 0
    /\ accepted = 0
    /\ answer = "ack"
    /\ failures = 0
    /\ bank = [b \in Banks |-> [cyclic |-> 0, interrupt |-> 0]]
    /\ dspAck = "NBusy"
    /\ dspCmdPar = Other
    /\ request = TRUE
    /\ working = None
    /\ active = 0

-----------------------------------------------------------------------------
(* The service.                                                             *)

IsUpload(c) == c.code = 7

\* An upload is answered "ack" whatever became of its command.
Answer(a) ==
    /\ step' = "idle"
    /\ answer' = IF IsUpload(cmd) THEN "ack" ELSE a
    /\ accepted' = IF IsUpload(cmd) THEN loads ELSE accepted
    /\ failures' = IF ~IsUpload(cmd) THEN failures
                    ELSE IF a = "ack" THEN 0 ELSE failures + 1

\* Mutant: the selector is flipped after the lists have been written.
FlippedSelector_Late(b) == b

FlippedSelector(b) == (b + 1) % 2

\* MEMORY:SET or CLALL, once the lists are compiled: flipCommandListSelector.
BeginUpload ==
    /\ step = "idle"
    /\ loads < MaxLoads
    /\ loads' = loads + 1
    /\ m_currentCmdListSelector' = FlippedSelector(m_currentCmdListSelector)
    /\ cmd' = SwitchTo(m_currentCmdListSelector')
    /\ step' = "cyclic"
    /\ UNCHANGED <<accepted, answer, failures, dspVars>>

\* Sampling system, TRIGGER:INTLIST:ALL or :HKSK.
BeginOther ==
    /\ step = "idle"
    /\ cmd' = Other
    /\ step' = "ack"
    /\ UNCHANGED <<m_currentCmdListSelector, loads, accepted, answer, failures,
                   dspVars>>

\* writeDspCmdListsToDevNode writes the one list and then the other.
WriteList(list, here, next, ok) ==
    /\ step = here
    /\ bank' = [bank EXCEPT ![m_currentCmdListSelector][list] =
                                IF ok THEN loads ELSE Torn]
    /\ step' = IF ok THEN next ELSE "idle"
    /\ answer' = IF ok THEN answer ELSE "errexec"
    /\ failures' = IF ok THEN failures ELSE failures + 1
    /\ UNCHANGED <<m_currentCmdListSelector, cmd, loads, accepted,
                   dspAck, dspCmdPar, request, working, active>>

WriteCyclic(ok) == WriteList("cyclic", "cyclic", "interrupt", ok)

WriteInterrupt(ok) == WriteList("interrupt", "interrupt", "ack", ok)

\* sendCommand2Dsp: nothing is sent while the DSP works on another command.
ReadAck(ok) ==
    /\ step = "ack"
    /\ IF ok /\ dspAck # "InProgress"
       THEN /\ step' = "reset"
            /\ UNCHANGED <<accepted, answer, failures>>
       ELSE Answer(IF ok THEN "busy" ELSE "errexec")
    /\ UNCHANGED <<m_currentCmdListSelector, cmd, loads, dspVars>>

\* Mutant: DSPACK keeps the answer to the command before.
ResetAck_Kept(ok) ==
    /\ step = "reset"
    /\ UNCHANGED dspAck
    /\ IF ok
       THEN /\ step' = "par"
            /\ UNCHANGED <<accepted, answer, failures>>
       ELSE Answer("errexec")
    /\ UNCHANGED <<m_currentCmdListSelector, cmd, loads,
                   bank, dspCmdPar, request, working, active>>

ResetAck(ok) ==
    /\ step = "reset"
    /\ dspAck' = IF ok THEN "NBusy" ELSE dspAck
    /\ IF ok
       THEN /\ step' = "par"
            /\ UNCHANGED <<accepted, answer, failures>>
       ELSE Answer("errexec")
    /\ UNCHANGED <<m_currentCmdListSelector, cmd, loads,
                   bank, dspCmdPar, request, working, active>>

WritePar(ok) ==
    /\ step = "par"
    /\ dspCmdPar' = IF ok THEN cmd ELSE dspCmdPar
    /\ IF ok
       THEN /\ step' = "request"
            /\ UNCHANGED <<accepted, answer, failures>>
       ELSE Answer("errexec")
    /\ UNCHANGED <<m_currentCmdListSelector, cmd, loads,
                   bank, dspAck, request, working, active>>

\* Mutant: the interrupt to the DSP is forgotten.
Request_Forgotten ==
    /\ step = "request"
    /\ Answer("ack")
    /\ UNCHANGED <<m_currentCmdListSelector, cmd, loads, dspVars>>

Request ==
    /\ step = "request"
    /\ request' = TRUE
    /\ Answer("ack")
    /\ UNCHANGED <<m_currentCmdListSelector, cmd, loads,
                   bank, dspAck, dspCmdPar, working, active>>

ServerStep ==
    \/ \E ok \in BOOLEAN :
        \/ WriteCyclic(ok) \/ WriteInterrupt(ok)
        \/ ReadAck(ok) \/ ResetAck(ok) \/ WritePar(ok)
    \/ Request

-----------------------------------------------------------------------------
(* The DSP.                                                                 *)

DspTake ==
    /\ request
    /\ working = None
    /\ request' = FALSE
    /\ working' = dspCmdPar
    /\ dspAck' = "InProgress"
    /\ UNCHANGED <<serverVars, bank, dspCmdPar, active>>

DspFinish ==
    /\ working # None
    /\ active' = IF IsUpload(working) THEN working.bank ELSE active
    /\ working' = None
    /\ dspAck' = "CmdDone"
    /\ UNCHANGED <<serverVars, bank, dspCmdPar, request>>

DspStep == DspTake \/ DspFinish

-----------------------------------------------------------------------------
\* "sync. muss die applikation": the applications send no command before they
\* have read CmdDone for the one before, if that was answered "ack", or have
\* waited so long that the DSP, if it was told at all, is done with it.
Synchronised ==
    \/ dspAck = "CmdDone" \/ answer # "ack"
    \/ ~request /\ working = None

SyncedNext ==
    \/ Synchronised /\ (BeginUpload \/ BeginOther)
    \/ ServerStep
    \/ DspStep

\* A handler runs to its end, and the DSP works.
UploadFairness == WF_uploadVars(ServerStep) /\ WF_uploadVars(DspStep)

SyncedSpec == UploadInit /\ [][SyncedNext]_uploadVars /\ UploadFairness

-----------------------------------------------------------------------------
(* Properties.                                                              *)

\* The service writes into the bank the DSP runs exactly while an upload
\* follows an odd number of uploads in a row that failed: the selector was
\* flipped for each of them and not flipped back, and the DSP did not change
\* over.  An upload that succeeds brings the two together again.
ActiveBankIsWrittenAfterFailure ==
    step \in {"cyclic", "interrupt"} =>
        (m_currentCmdListSelector = active <=> failures % 2 = 1)

\* The two lists the DSP runs come from one upload, and from later and later
\* ones, except while an upload that follows failed ones writes over them.
Switch == INSTANCE CmdListSwitch WITH executed <- bank[active]

ImplementsSwitch == Switch!Spec

\* An upload that was answered "ack" gets to run, if it was sent to the DSP:
\* the answer is "ack", too, for one whose command failed.
AcceptedIsExecuted ==
    \A v \in Versions :
        accepted = v ~> bank[active].cyclic \in v .. MaxLoads \/ failures > 0

=============================================================================
