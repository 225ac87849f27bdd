---------------------------- MODULE ServiceTree ----------------------------
(***************************************************************************)
(* The SCPI trees of the services: which nodes there are, in which form    *)
(* each wants its command, and what kind of answer it gives.               *)
(*                                                                         *)
(* An interface adds nodes with a command code (X_Nodes, its               *)
(* initSCPIConnection) and serves the codes (X_Answers, executeProtoScpi   *)
(* and the handlers).  Names in angle brackets stand for any channel,      *)
(* range and so on; long and short forms of node names are one.            *)
(***************************************************************************)
EXTENDS Sequences, TLC

\* How a command comes: bare; with one parameter, which is empty (;) or not (p);
\* with two or three; as a query, or a query with a parameter.
Forms == {"bare", ";", "p", "pp", "ppp", "?", "?p"}

Outcomes == {"ack", "nak", "busy", "erraut", "errval", "errxml", "errexec"}

\* "big" is an unsigned number that does not fit into an int,
\* "errtext" an outcome that failed with a text behind it.
Values == {"int", "big", "real", "bool", "text", "list", "values", "empty", "errtext"}

\* CommonScpiMethods::sendProtoAnswer: whatever is no known outcome is ACK.
ReplyType(answer) ==
    CASE answer = "nak" -> "NACK"
      [] answer \in {"busy", "erraut", "errval", "errxml", "errexec"} -> "ERROR"
      [] OTHER -> "ACK"

\* A handler maps the forms it takes to the answers it may give.
On(forms, answers) == [f \in forms |-> answers]
Query(answers) == On({"?"}, answers)
QueryOf(answers) == On({"?p"}, answers)
Write(answers) == On({"p", ";"}, answers)
Do(answers) == On({";"}, answers)
Always(answers) == On(Forms, answers)

AnswersTo(handler, form) ==
    IF form \in DOMAIN handler THEN handler[form] ELSE {"nak"}

\* Nodes with the handlers of their codes.
Tree(nodes, handlers) == [n \in DOMAIN nodes |-> handlers[nodes[n]]]

-----------------------------------------------------------------------------
(* Sense: the interface, its channels, their ranges, their adjustment.     *)

Sense_Nodes ==
    "SENSE:VERSION" :> "cmdVersion" @@ "SENSE:MMODE" :> "cmdMMode"
    @@ "SENSE:MMODE:CATALOG" :> "cmdModeCat"
    @@ "SENSE:CHANNEL:CATALOG" :> "cmdChannelCat"
    @@ "SENSE:GROUP:CATALOG" :> "cmdGroupCat"
    @@ "SENSE:CORRECTION:INIT" :> "initAdjData"
    @@ "SENSE:CORRECTION:COMPUTE" :> "computeAdjData"
    @@ "STATUS:PCB:ADJUSTMENT" :> "cmdStatAdjustment"
    @@ "SENSE:RESET:ADJUSTMENT" :> "cmdResetAdj"

Sense_Reads ==
    [cmdVersion |-> Query({"text"}), cmdModeCat |-> Query({"list"}),
     cmdChannelCat |-> Query({"list"}), cmdGroupCat |-> Query({"list"}),
     cmdStatAdjustment |-> Query({"int"})]

Sense_Writes ==
    [cmdMMode |-> Query({"text"}) @@ Write({"ack", "nak"}),
     initAdjData |-> On({"bare", ";"}, {"ack", "erraut", "errexec"}),
     computeAdjData |-> Do({"ack", "erraut"}),
     cmdResetAdj |-> Do({"ack", "nak"})]

SenseTree == Tree(Sense_Nodes, Sense_Reads @@ Sense_Writes)

SenseChannel_Nodes ==
    "SENSE:<ch>:ALIAS" :> "cmdAlias" @@ "SENSE:<ch>:TYPE" :> "cmdType"
    @@ "SENSE:<ch>:UNIT" :> "cmdUnit" @@ "SENSE:<ch>:DSPCHANNEL" :> "cmdDspChannel"
    @@ "SENSE:<ch>:STATUS" :> "cmdStatus"
    @@ "SENSE:<ch>:STATUS:RESET" :> "cmdStatusReset"
    @@ "SENSE:<ch>:RANGE" :> "cmdRange" @@ "SENSE:<ch>:URVALUE" :> "cmdUrvalue"
    @@ "SENSE:<ch>:RANGE:CATALOG" :> "cmdRangeCat"

\* The status of a channel that is not available is 2^31, without a sign.
SenseChannel_Answers ==
    [cmdAlias |-> Query({"text"}), cmdType |-> Query({"int"}),
     cmdUnit |-> Query({"text"}), cmdDspChannel |-> Query({"int"}),
     cmdStatus |-> Query({"int", "big", "errexec"}),
     cmdStatusReset |-> Do({"ack", "errexec"}),
     cmdUrvalue |-> Query({"real", "nak"}), cmdRangeCat |-> Query({"list"})]

MtRange == [cmdRange |-> Query({"text"}) @@ Write({"ack", "nak", "errexec"})]
Com5003Range == [cmdRange |-> Query({"text"}) @@ Write({"ack", "nak", "errexec"})]

SenseRange_Nodes ==
    "SENSE:<ch>:<rng>:ALIAS" :> "cmdAlias" @@ "SENSE:<ch>:<rng>:AVAIL" :> "cmdAvail"
    @@ "SENSE:<ch>:<rng>:URVALUE" :> "cmdUpperRangeValue"
    @@ "SENSE:<ch>:<rng>:REJECTION" :> "cmdRejection"
    @@ "SENSE:<ch>:<rng>:OVREJECTION" :> "cmdOVRejection"
    @@ "SENSE:<ch>:<rng>:ADCREJECTION" :> "cmdADCRejection"
    @@ "SENSE:<ch>:<rng>:TYPE" :> "cmdType"
    @@ "SENSE:<ch>:<rng>:CTRLSELECTION" :> "cmdCtrlSelection"

SenseRange_Answers ==
    [cmdAlias |-> Query({"text"}), cmdAvail |-> Query({"bool"}),
     cmdUpperRangeValue |-> Query({"real"}), cmdRejection |-> Query({"real"}),
     cmdOVRejection |-> Query({"real"}), cmdADCRejection |-> Query({"real"}),
     cmdType |-> Query({"int"}), cmdCtrlSelection |-> Query({"int"})]

RangeCorrection_Nodes ==
    "SENSE:<ch>:<rng>:CORRECTION:GAIN" :> "GainTotal"
    @@ "SENSE:<ch>:<rng>:CORRECTION:ADJGAIN" :> "GainSingle"
    @@ "SENSE:<ch>:<rng>:CORRECTION:PHASE" :> "PhaseTotal"
    @@ "SENSE:<ch>:<rng>:CORRECTION:ADJPHASE" :> "PhaseSingle"
    @@ "SENSE:<ch>:<rng>:CORRECTION:OFFSET" :> "OffsetTotal"
    @@ "SENSE:<ch>:<rng>:CORRECTION:ADJOFFSET" :> "OffsetSingle"
    @@ "SENSE:<ch>:<rng>:CORRECTION:STATUS" :> "DirectJustStatus"
    @@ "SENSE:<ch>:<rng>:CORRECTION:COMPUTE" :> "DirectJustCompute"
    @@ "SENSE:<ch>:<rng>:CORRECTION:INIT" :> "DirectJustInit"

RangeCorrection_Answers ==
    [c \in {"GainTotal", "GainSingle", "PhaseTotal", "PhaseSingle", "OffsetTotal",
            "OffsetSingle"} |-> QueryOf({"real", "errval"})]
    @@ "DirectJustStatus" :> Query({"int"})
    @@ [c \in {"DirectJustCompute", "DirectJustInit"} |-> Do({"ack", "erraut"})]

\* The items GAIN, PHASE and OFFSET of the correction of a range.
RangeItem_Nodes(item) ==
    LET lead == "SENSE:<ch>:<rng>:CORRECTION:" \o item
    IN  lead \o ":STATUS" :> "JustStatus" @@ lead \o ":COEFFICIENT:<n>" :> "JustCoefficient"
        @@ lead \o ":NODE:<n>" :> "JustNode"

\* A node of an item is a value and its argument: two parameters.
RangeItem_Answers ==
    LET written == {"ack", "errval", "erraut", "errexec"}
    IN  [JustStatus |-> Query({"int"}) @@ Write(written),
         JustCoefficient |-> Query({"real"}) @@ Write(written),
         JustNode |-> Query({"text"}) @@ On({"pp"}, written)]

ChannelTree(range) ==
    Tree(SenseChannel_Nodes, SenseChannel_Answers @@ range)
    @@ Tree(SenseRange_Nodes, SenseRange_Answers)
    @@ Tree(RangeCorrection_Nodes, RangeCorrection_Answers)
    @@ Tree(RangeItem_Nodes("GAIN"), RangeItem_Answers)
    @@ Tree(RangeItem_Nodes("PHASE"), RangeItem_Answers)
    @@ Tree(RangeItem_Nodes("OFFSET"), RangeItem_Answers)

-----------------------------------------------------------------------------
(* Outputs, sampling, accumulator, sources, status.                        *)

FOutGroup_Nodes ==
    "SOURCE:VERSION" :> "cmdVersion" @@ "SOURCE:CHANNEL:CATALOG" :> "cmdChannelCat"

FOutGroup_Answers ==
    [cmdVersion |-> Query({"text"}), cmdChannelCat |-> Query({"list"})]

FOut_Nodes ==
    "SOURCE:<fo>:ALIAS" :> "cmdAlias" @@ "SOURCE:<fo>:TYPE" :> "cmdType"
    @@ "SOURCE:<fo>:DSPSERVER" :> "cmdDspServer"
    @@ "SOURCE:<fo>:DSPCHANNEL" :> "cmdDspChannel"
    @@ "SOURCE:<fo>:STATUS" :> "cmdStatus" @@ "SOURCE:<fo>:FFACTOR" :> "cmdFormFactor"

FOut_Answers ==
    [cmdAlias |-> Query({"text"}), cmdType |-> Query({"int"}),
     cmdDspServer |-> Query({"int"}), cmdDspChannel |-> Query({"int"}),
     cmdStatus |-> Query({"int", "big"}), cmdFormFactor |-> Query({"real"})]

Sampling_Nodes ==
    "SAMPLE:SRATE" :> "cmdSampleRate" @@ "SAMPLE:S0:PLL" :> "cmdPLL"
    @@ "SAMPLE:S0:PLL:CATALOG" :> "cmdPLLCat"

Sampling_Answers ==
    [cmdSampleRate |-> Always({"int"}),
     cmdPLL |-> Query({"text", "errexec"}) @@ Write({"ack", "errexec"}),
     cmdPLLCat |-> Query({"list"})]

Accumulator_Nodes ==
    "SYSTEM:ACCUMULATOR:STATUS" :> "cmdStatus" @@ "SYSTEM:ACCUMULATOR:SOC" :> "cmdAccuStateOfCharge"

\* Before the controller was asked the first time the text is empty.
Accumulator_Answers == [c \in {"cmdStatus", "cmdAccuStateOfCharge"} |-> Always({"int", "empty"})]

Generator_Nodes ==
    "GENERATOR:CAPABILITIES" :> "sourceCapabilities" @@ "GENERATOR:MODEON" :> "sourceModeOn"
    @@ "GENERATOR:SWITCHON" :> "sourceOn"

Generator_Answers ==
    [sourceCapabilities |-> Query({"text"})]
    @@ [c \in {"sourceModeOn", "sourceOn"} |->
            Query({"text", "errexec"}) @@ Write({"ack", "errexec"})]

GeneratorChannel_Nodes ==
    "GENERATOR:<gen>:AMPRANGE" :> "controllerSetRangeByAmplitude"
    @@ "GENERATOR:<gen>:RANGE" :> "controllerGetSetRange"
    @@ "GENERATOR:<gen>:DSAMPLITUDE" :> "dspGetSetAmplitude"
    @@ "GENERATOR:<gen>:DSFREQUENCY" :> "dspGetSetFrequency"
    @@ "GENERATOR:<gen>:DSANGLE" :> "dspGetSetAngle"

GeneratorChannel_Answers ==
    LET written == Write({"ack", "errexec", "nak"})
    IN  [controllerSetRangeByAmplitude |-> written,
         controllerGetSetRange |-> Query({"int", "nak"}) @@ written]
        @@ [c \in {"dspGetSetAmplitude", "dspGetSetFrequency", "dspGetSetAngle"} |->
                Query({"real", "nak"}) @@ written]

Status_Nodes ==
    "STATUS:DEVICE" :> "cmdDevice" @@ "STATUS:ADJUSTMENT" :> "cmdAdjustment"
    @@ "STATUS:AUTHORIZATION" :> "cmdAuthorization"

Status_Answers ==
    [c \in {"cmdDevice", "cmdAdjustment", "cmdAuthorization"} |-> Query({"int"})]

Sec1000Status == "STATUS:DEVICE" :> Query({"int"})

-----------------------------------------------------------------------------
(* What is plugged: EMOB controllers and clamps.                           *)

HotPlug_Nodes ==
    "SYSTEM:EMOB:PBPRESS" :> "cmdEmobPushButtonPress" @@ "SYSTEM:EMOB:LOCKST" :> "cmdEmobReadLockState"
    @@ "SYSTEM:EMOB:ERROR" :> "cmdEmobReadErrorStatus" @@ "SYSTEM:EMOB:CLEARERROR" :> "cmdEmobClearErrorStatus"
    @@ "SYSTEM:EMOB:ONDISCHARGE" :> "cmdEmobSwitchDischargeOn"
    @@ "SYSTEM:EMOB:OFFDISCHARGE" :> "cmdEmobSwitchDischargeOff"
    @@ "SYSTEM:EMOB:PRUEFGROESSENSTATUS" :> "cmdEmobReadPruefgroessenStatus"
    @@ "SYSTEM:EMOB:READDATA" :> "cmdEmobReadData"
    @@ "SYSTEM:EMOB:WRITEDATA" :> "cmdEmobWriteData"

\* The parameter is the EMOB's channel; data are exchanged by EMOB and slot.
HotPlug_Commands ==
    [c \in {"cmdEmobPushButtonPress", "cmdEmobClearErrorStatus",
            "cmdEmobSwitchDischargeOn", "cmdEmobSwitchDischargeOff"} |->
            Write({"ack", "errexec", "nak"})]
    @@ [c \in {"cmdEmobReadLockState", "cmdEmobReadErrorStatus",
               "cmdEmobReadPruefgroessenStatus"} |->
            On({"?", "?p"}, {"int", "errexec", "nak"})]

HotPlug_Data ==
    [cmdEmobReadData |-> QueryOf({"text", "nak"}),
     cmdEmobWriteData |-> On({"pp", "ppp"}, {"ack", "errexec", "nak"})]

Clamps_Nodes ==
    "SYSTEM:CLAMP:CHANNEL:CATALOG" :> "cmdClampChannelCat"
    @@ "SYSTEM:CLAMP:WRITE" :> "cmdClampWrite"
    @@ "SYSTEM:ADJUSTMENT:CLAMP:XML" :> "cmdClampImportExport"

Clamps_Answers ==
    [cmdClampChannelCat |-> Query({"list"}),
     cmdClampWrite |-> Do({"ack", "errexec", "erraut"}),
     cmdClampImportExport |->
            Query({"text"}) @@ Always({"ack", "errxml", "errexec", "erraut"})]

Clamp_Nodes ==
    "SYSTEM:CLAMP:<ch>:SERIALNUMBER" :> "cmdSerial" @@ "SYSTEM:CLAMP:<ch>:VERSION" :> "cmdVersion"
    @@ "SYSTEM:CLAMP:<ch>:TYPE" :> "cmdType" @@ "SYSTEM:CLAMP:<ch>:NAME" :> "cmdName"
    @@ "SYSTEM:ADJUSTMENT:CLAMP:<ch>:FLASH:WRITE" :> "cmdFlashWrite"
    @@ "SYSTEM:ADJUSTMENT:CLAMP:<ch>:FLASH:READ" :> "cmdFlashRead"
    @@ "SYSTEM:ADJUSTMENT:CLAMP:<ch>:FLASH:RESET" :> "cmdFlashReset"
    @@ "SYSTEM:ADJUSTMENT:CLAMP:<ch>:FLASH:CHKSUM" :> "cmdChksum"
    @@ "SYSTEM:ADJUSTMENT:CLAMP:<ch>:XML:WRITE" :> "cmdXMLWrite"
    @@ "SYSTEM:ADJUSTMENT:CLAMP:<ch>:XML:READ" :> "cmdXMLRead"
    @@ "STATUS:CLAMP:<ch>:ADJUSTMENT" :> "cmdStatAdjustment"

Clamp_Identity ==
    [cmdSerial |-> Query({"text"}) @@ Write({"ack", "errval"}),
     cmdVersion |-> Query({"text"}) @@ Write({"ack", "errval"}),
     cmdType |-> Query({"int"}) @@ Write({"ack", "errexec", "errval"}),
     cmdName |-> Query({"text"})]

Clamp_Storage ==
    [c \in {"cmdFlashWrite", "cmdFlashRead", "cmdFlashReset"} |-> Do({"ack", "errexec"})]
    @@ [c \in {"cmdXMLWrite", "cmdXMLRead"} |-> Write({"ack", "errexec"})]
    @@ [cmdChksum |-> Query({"text"}), cmdStatAdjustment |-> Query({"int"})]

-----------------------------------------------------------------------------
(* System nodes and notifications.                                         *)

Mt310s2System_Nodes ==
    "SYSTEM:VERSION:SERVER" :> "cmdVersionServer" @@ "SYSTEM:VERSION:DEVICE" :> "cmdVersionDevice"
    @@ "SYSTEM:VERSION:PCB" :> "cmdVersionPCB" @@ "SYSTEM:VERSION:CTRL" :> "cmdVersionCTRL"
    @@ "SYSTEM:VERSION:FPGA" :> "cmdVersionFPGA" @@ "SYSTEM:EMOB:CHANNEL" :> "cmdGetChannels"
    @@ "SYSTEM:SERIAL" :> "cmdSerialNumber"
    @@ "SYSTEM:ADJUSTMENT:FLASH:WRITE" :> "cmdAdjFlashWrite"
    @@ "SYSTEM:ADJUSTMENT:FLASH:READ" :> "cmdAdjFlashRead"
    @@ "SYSTEM:ADJUSTMENT:XML" :> "cmdAdjXMLImportExport"
    @@ "SYSTEM:ADJUSTMENT:XML:WRITE" :> "cmdAdjXMLWrite"
    @@ "SYSTEM:ADJUSTMENT:XML:READ" :> "cmdAdjXMLRead"
    @@ "SYSTEM:ADJUSTMENT:FLASH:CHKSUM" :> "cmdAdjFlashChksum"
    @@ "SYSTEM:INTERFACE:READ" :> "cmdInterfaceRead"

\* com5003d has the same codes under the same nodes.
Com5003System_Nodes == Mt310s2System_Nodes

Versions ==
    [c \in {"cmdVersionDevice", "cmdVersionPCB", "cmdVersionCTRL", "cmdVersionFPGA"} |->
            Query({"text", "errexec"})]
    @@ "cmdVersionServer" :> Query({"text"})

SerialNumber ==
    "cmdSerialNumber" :>
        (Query({"text", "errexec"}) @@ Write({"ack", "nak", "errexec"}))

Mt310s2Adjustment ==
    [cmdAdjFlashWrite |-> Do({"ack", "errexec", "erraut"}),
     cmdAdjFlashRead |-> Do({"ack", "errexec"}),
     cmdAdjXMLImportExport |->
            Query({"text"}) @@ Always({"ack", "errxml", "errexec", "erraut"}),
     cmdAdjXMLWrite |-> Write({"ack", "errexec"}),
     cmdAdjXMLRead |-> Write({"ack", "errexec", "erraut"}),
     cmdAdjFlashChksum |-> Query({"text"})]

Mt310s2System_Answers ==
    Versions @@ SerialNumber @@ Mt310s2Adjustment
    @@ [cmdGetChannels |-> Always({"text"}), cmdInterfaceRead |-> Query({"text"})]

\* Without permission nothing is written either, the outcome is another one.
Com5003Adjustment ==
    "cmdSerialNumber" :> (Query({"text", "errexec"}) @@ Write({"ack", "nak", "errexec"}))
    @@ "cmdAdjXMLImportExport" :>
        (Query({"text"}) @@ Always({"ack", "errxml", "errexec", "erraut"}))
    @@ [cmdAdjFlashWrite |-> Do({"ack", "errexec"}), cmdAdjFlashRead |-> Do({"ack", "errexec"}),
        cmdAdjXMLWrite |-> Write({"ack", "errexec"}),
        cmdAdjXMLRead |-> Write({"ack", "errexec", "erraut"}),
        cmdAdjFlashChksum |-> Query({"text"})]

\* There are no controllers to plug: the text is empty.
Com5003System_Answers ==
    Versions @@ Com5003Adjustment
    @@ [cmdGetChannels |-> Always({"empty"}), cmdInterfaceRead |-> Query({"text"})]

\* Other numbers of parameters are left without an answer's text.
Notifications ==
    "SERVER:REGISTER" :>
        (On({"p", ";", "pp", "ppp"}, {"ack", "nak"}) @@ On({"bare", "?", "?p"}, {"empty"}))
    @@ "SERVER:UNREGISTER" :> Do({"ack"})

Sec1000System_Nodes ==
    "SYSTEM:VERSION:SERVER" :> "cmdVersionServer" @@ "SYSTEM:VERSION:DEVICE" :> "cmdVersionDevice"
    @@ "SYSTEM:VERSION:PCB" :> "cmdVersionPCB" @@ "SYSTEM:VERSION:FPGA" :> "cmdVersionFPGA"
    @@ "SYSTEM:SERIAL" :> "cmdSerialNumber" @@ "SYSTEM:INTERFACE:READ" :> "cmdInterfaceRead"

Sec1000System_Answers ==
    [cmdSerialNumber |-> Query({"text", "errexec"}) @@ Write({"ack"}),
     cmdInterfaceRead |-> Query({"text"})]
    @@ Versions

-----------------------------------------------------------------------------
(* The error calculators.                                                  *)

Sec_Nodes ==
    "ECALCULATOR:VERSION" :> "cmdVersion" @@ "ECALCULATOR:CHANNEL:CATALOG" :> "cmdChannelCat"
    @@ "ECALCULATOR:SET" :> "cmdSetChannels" @@ "ECALCULATOR:FREE" :> "cmdFreeChannels"

Sec_Answers ==
    [cmdVersion |-> Query({"text"}), cmdChannelCat |-> Query({"list"}),
     cmdSetChannels |-> Write({"list", "busy", "nak"}),
     cmdFreeChannels |-> On({"bare"}, {"ack", "nak"})]

SecChannel_Nodes ==
    "ECALCULATOR:<ch>:R<n>" :> "cmdRegister" @@ "ECALCULATOR:<ch>:SYNC" :> "cmdSetSync"
    @@ "ECALCULATOR:<ch>:MUX" :> "cmdSetMux" @@ "ECALCULATOR:<ch>:CMDID" :> "cmdSetCmdid"
    @@ "ECALCULATOR:<ch>:START" :> "cmdStart" @@ "ECALCULATOR:<ch>:STOP" :> "cmdStop"
    @@ "ECALCULATOR:<ch>:INTACK" :> "intAcknowledge"

\* A register that is read only answers nak to be written.
SecChannel_Answers ==
    "cmdRegister" :> (Query({"int", "big"}) @@ Write({"ack", "nak", "erraut"}))
    @@ [c \in {"cmdSetSync", "cmdSetMux", "cmdSetCmdid"} |->
            Write({"ack", "errval", "erraut"})]

\* Mutant: start and stop want the delimiter that other commands want.
SecChannel_Run_Delimiter ==
    [c \in {"cmdStart", "cmdStop"} |-> Do({"ack", "erraut"})]
    @@ "intAcknowledge" :> Write({"empty", "nak", "erraut"})

\* An interrupt that is acknowledged leaves the answer empty.
SecChannel_Run ==
    [c \in {"cmdStart", "cmdStop"} |-> On({"bare"}, {"ack", "erraut"})]
    @@ "intAcknowledge" :> Write({"empty", "nak", "erraut"})

-----------------------------------------------------------------------------
(* The DSP service: it has codes of its own and mostly takes any form.     *)

Dsp_Nodes ==
    "SYSTEM:INTERFACE:READ" :> "scpiInterfaceRead"
    @@ "SYSTEM:VERSION:DEVICE" :> "scpiGetDeviceVersion"
    @@ "SYSTEM:VERSION:SERVER" :> "scpiGetServerVersion"
    @@ "SYSTEM:DSP:SAMPLING" :> "scpiSamplingSystemGetSet"
    @@ "SYSTEM:DSP:TEST" :> "scpiRunTest"
    @@ "SYSTEM:DSP:DSPSUPERCLIENT" :> "scpiSetDspSuperClient"
    @@ "SYSTEM:DSP:COMMAND:STAT" :> "scpiDspCommandStatGetSet"
    @@ "SYSTEM:DSP:TRIGGER:INTLIST:ALL" :> "scpiTriggerIntListALL"
    @@ "SYSTEM:DSP:TRIGGER:INTLIST:HKSK" :> "scpiTriggerIntListHKSK"
    @@ "STATUS:DEVICE" :> "scpiGetDeviceStatus" @@ "STATUS:DSP" :> "scpiGetDspStatus"
    @@ "STATUS:DSP:LOAD:ACTUAL" :> "scpiGetDeviceLoadAct"
    @@ "STATUS:DSP:LOAD:MAXIMUM" :> "scpiGetDeviceLoadMax"
    @@ "STATUS:DSP:LOAD:MAXIMUM:RESET" :> "scpiResetDeviceLoadMax"
    @@ "MEMORY:READ" :> "scpiDspMemoryRead" @@ "MEMORY:WRITE" :> "scpiDspMemoryWrite"
    @@ "MEMORY:CYCLIST" :> "scpiCmdCycListSet" @@ "MEMORY:INTLIST" :> "scpiCmdIntListSet"
    @@ "MEMORY:VARLIST" :> "scpiVarListSet" @@ "MEMORY:SET" :> "scpiLoadCmdList"
    @@ "MEMORY:CLALL" :> "scpiUnloadCmdListAllClients"
    @@ "TEST:ENTITYID" :> "scpiSetEntityId"

Dsp_Commands ==
    [scpiSamplingSystemGetSet |->
            Query({"text", "errexec"}) @@ Always({"ack", "busy", "errexec"}),
     scpiSetDspSuperClient |-> Always({"ack", "nak"}),
     scpiDspCommandStatGetSet |-> Query({"int", "errexec"}) @@ Always({"ack", "errexec"})]

\* A test of the DSP answers with what it counted.
Dsp_Test == "scpiRunTest" :> Always({"text", "errval"})

Dsp_Triggers ==
    [c \in {"scpiTriggerIntListALL", "scpiTriggerIntListHKSK"} |->
            Always({"ack", "busy", "errexec"})]
    @@ [c \in {"scpiDspMemoryWrite", "scpiVarListSet", "scpiResetDeviceLoadMax"} |->
            Always({"ack", "errexec"})]
    @@ [c \in {"scpiDspMemoryRead", "scpiGetDeviceLoadAct", "scpiGetDeviceLoadMax"} |->
            Always({"values", "errexec"})]
    @@ [c \in {"scpiCmdCycListSet", "scpiCmdIntListSet"} |-> Always({"ack"})]
    @@ "scpiSetEntityId" :> Always({"empty"})

Dsp_Status ==
    [scpiInterfaceRead |-> Query({"text"}),
     scpiGetDeviceVersion |-> Always({"text", "errexec"}),
     scpiGetServerVersion |-> Always({"text"}), scpiGetDeviceStatus |-> Always({"text"}),
     scpiGetDspStatus |-> Always({"text"})]

\* loadCmdListAllClients appends the commands it could not compile to the outcome.
Dsp_Load ==
    [c \in {"scpiLoadCmdList", "scpiUnloadCmdListAllClients"} |->
            Always({"ack", "errtext", "errexec"})]

-----------------------------------------------------------------------------
(* What the services add.                                                  *)

SenseAndStatus(range) ==
    SenseTree @@ ChannelTree(range) @@ Tree(Status_Nodes, Status_Answers)
    @@ Tree(FOutGroup_Nodes, FOutGroup_Answers) @@ Tree(FOut_Nodes, FOut_Answers)
    @@ Tree(Sampling_Nodes, Sampling_Answers) @@ Notifications

Mt310s2 ==
    SenseAndStatus(MtRange)
    @@ Tree(Mt310s2System_Nodes, Mt310s2System_Answers)
    @@ Tree(Clamps_Nodes, Clamps_Answers)
    @@ Tree(Clamp_Nodes, Clamp_Identity @@ Clamp_Storage)
    @@ Tree(HotPlug_Nodes, HotPlug_Commands @@ HotPlug_Data)
    @@ Tree(Accumulator_Nodes, Accumulator_Answers)
    @@ Tree(Generator_Nodes, Generator_Answers)
    @@ Tree(GeneratorChannel_Nodes, GeneratorChannel_Answers)

Com5003 ==
    SenseAndStatus(Com5003Range) @@ Tree(Com5003System_Nodes, Com5003System_Answers)

Sec1000 ==
    Sec1000Status @@ Tree(Sec1000System_Nodes, Sec1000System_Answers)
    @@ Tree(Sec_Nodes, Sec_Answers)
    @@ Tree(SecChannel_Nodes, SecChannel_Answers @@ SecChannel_Run) @@ Notifications

Zdsp1 ==
    Tree(Dsp_Nodes, Dsp_Commands @@ Dsp_Test @@ Dsp_Triggers @@ Dsp_Status @@ Dsp_Load)

=============================================================================
