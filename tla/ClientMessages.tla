-------------------------- MODULE ClientMessages --------------------------
(***************************************************************************)
(* What the methods of the client interfaces send: the node of the command *)
(* and the form it comes in, next to the trees of the services that get    *)
(* it.  Texts that come from the module itself (transparentCommand,        *)
(* scpiCommand) are left out, the resource manager is not in this          *)
(* repository.                                                             *)
(***************************************************************************)
EXTENDS ServiceCommands, ServiceTree

Sent(node, form) == [node |-> node, form |-> form]

\* Queries of a channel, and of one of its ranges.
OfChannel(name) == Sent("SENSE:<ch>:" \o name, "?")
OfRange(name) == Sent("SENSE:<ch>:<rng>:" \o name, "?")
OfItem(name, form) == Sent("SENSE:<ch>:<rng>:CORRECTION:" \o name, form)
CorrectionAt(name) == Sent("SENSE:<ch>:<rng>:CORRECTION:" \o name, "?p")

PcbChannelSends ==
    [getChannelList |-> Sent("SENSE:CHANNEL:CATALOG", "?"),
     getDSPChannel |-> OfChannel("DSPCHANNEL"), getStatus |-> OfChannel("STATUS"),
     resetStatus |-> Sent("SENSE:<ch>:STATUS:RESET", ";"),
     getAlias |-> OfChannel("ALIAS"), getType |-> OfChannel("TYPE"),
     getUnit |-> OfChannel("UNIT"), getRange |-> OfChannel("RANGE"),
     getRangeList |-> OfChannel("RANGE:CATALOG"), getUrvalue |-> OfChannel("URVALUE"),
     setRange |-> Sent("SENSE:<ch>:RANGE", "p")]

PcbRangeSends ==
    [getRangeAlias |-> OfRange("ALIAS"), getRangeType |-> OfRange("TYPE"),
     getRangeUrvalue |-> OfRange("URVALUE"), getRejection |-> OfRange("REJECTION"),
     getOVRejection |-> OfRange("OVREJECTION"),
     getADCRejection |-> OfRange("ADCREJECTION"), isAvail |-> OfRange("AVAIL"),
     getGainCorrection |-> CorrectionAt("GAIN"),
     getAdjGainCorrection |-> CorrectionAt("ADJGAIN"),
     getOffsetCorrection |-> CorrectionAt("OFFSET"),
     getAdjOffsetCorrection |-> CorrectionAt("ADJOFFSET"),
     getPhaseCorrection |-> CorrectionAt("PHASE"),
     getAdjPhaseCorrection |-> CorrectionAt("ADJPHASE")]

PcbAdjustSends ==
    [setMMode |-> Sent("SENSE:MMODE", "p"),
     adjustComputation |-> Sent("SENSE:CORRECTION:COMPUTE", ";"),
     adjustStorage |-> Sent("SYSTEM:ADJUSTMENT:FLASH:WRITE", ";"),
     adjustStorageClamp |-> Sent("SYSTEM:CLAMP:WRITE", ";"),
     setAdjustGainStatus |-> OfItem("GAIN:STATUS", "p"),
     setAdjustPhaseStatus |-> OfItem("PHASE:STATUS", "p"),
     setAdjustOffsetStatus |-> OfItem("OFFSET:STATUS", "p"),
     setGainNode |-> OfItem("GAIN:NODE:<n>", "pp"),
     setPhaseNode |-> OfItem("PHASE:NODE:<n>", "pp"),
     setOffsetNode |-> OfItem("OFFSET:NODE:<n>", "pp")]

PcbStatusSends ==
    [getAliasSource |-> Sent("SOURCE:<fo>:ALIAS", "?"),
     getDSPChannelSource |-> Sent("SOURCE:<fo>:DSPCHANNEL", "?"),
     getFormFactorSource |-> Sent("SOURCE:<fo>:FFACTOR", "?"),
     getSampleRate |-> Sent("SAMPLE:SRATE", "?"),
     setPLLChannel |-> Sent("SAMPLE:S0:PLL", "p"),
     getAdjustmentStatus |-> Sent("STATUS:PCB:ADJUSTMENT", "?"),
     getAuthorizationStatus |-> Sent("STATUS:AUTHORIZATION", "?"),
     getAdjustmentChksum |-> Sent("SYSTEM:ADJUSTMENT:FLASH:CHKSUM", "?"),
     getPCBAdjustmentData |-> Sent("SYSTEM:ADJUSTMENT:XML", "?"),
     setPCBAdjustmentData |-> Sent("SYSTEM:ADJUSTMENT:XML", "p"),
     getClampAdjustmentData |-> Sent("SYSTEM:ADJUSTMENT:CLAMP:XML", "?"),
     setClampAdjustmentData |-> Sent("SYSTEM:ADJUSTMENT:CLAMP:XML", "p")]

PcbSystemSends ==
    [readChannelsConnected |-> Sent("SYSTEM:EMOB:CHANNEL", "?"),
     getAccumulatorStatus |-> Sent("SYSTEM:ACCUMULATOR:STATUS", "?"),
     getAccuStateOfCharge |-> Sent("SYSTEM:ACCUMULATOR:SOC", "?"),
     readData |-> Sent("SYSTEM:EMOB:READDATA", "?"),
     writeData |-> Sent("SYSTEM:EMOB:WRITEDATA", "ppp"),
     registerNotifier |-> Sent("SERVER:REGISTER", "ppp"),
     unregisterNotifiers |-> Sent("SERVER:UNREGISTER", ";"),
     readServerVersion |-> Sent("SYSTEM:VERSION:SERVER", "?"),
     readPCBInfo |-> Sent("SYSTEM:VERSION:PCB", "?"),
     readFPGAVersion |-> Sent("SYSTEM:VERSION:FPGA", "?"),
     readCTRLVersion |-> Sent("SYSTEM:VERSION:CTRL", "?"),
     readSerialNr |-> Sent("SYSTEM:SERIAL", "?"),
     writeSerialNr |-> Sent("SYSTEM:SERIAL", "p")]

SecSends ==
    [setECalcUnit |-> Sent("ECALCULATOR:SET", "p"),
     freeECalcUnits |-> Sent("ECALCULATOR:FREE", "bare"),
     writeRegister |-> Sent("ECALCULATOR:<ch>:R<n>", "p"),
     readRegister |-> Sent("ECALCULATOR:<ch>:R<n>", "?"),
     setSync |-> Sent("ECALCULATOR:<ch>:SYNC", "p"),
     setMux |-> Sent("ECALCULATOR:<ch>:MUX", "p"),
     setCmdid |-> Sent("ECALCULATOR:<ch>:CMDID", "p"),
     start |-> Sent("ECALCULATOR:<ch>:START", "bare"),
     stop |-> Sent("ECALCULATOR:<ch>:STOP", "bare"),
     intAck |-> Sent("ECALCULATOR:<ch>:INTACK", "p"),
     registerNotifier |-> Sent("SERVER:REGISTER", "p"),
     unregisterNotifiers |-> Sent("SERVER:UNREGISTER", ";")]

\* Lists end with a delimiter, the id of an entity does not.
DspSends ==
    [setSamplingSystem |-> Sent("SYSTEM:DSP:SAMPLING", "p"),
     setEntityId |-> Sent("TEST:ENTITYID", "p"), varList2Dsp |-> Sent("MEMORY:VARLIST", "p"),
     cmdList2Dsp |-> Sent("MEMORY:CYCLIST", "p"), intList2Dsp |-> Sent("MEMORY:INTLIST", "p"),
     triggerIntHKSK |-> Sent("SYSTEM:DSP:TRIGGER:INTLIST:HKSK", "p"),
     activateInterface |-> Sent("MEMORY:SET", "bare"),
     deactivateAll |-> Sent("MEMORY:CLALL", "bare"),
     dspMemoryRead |-> Sent("MEMORY:READ", "p"), dspMemoryWrite |-> Sent("MEMORY:WRITE", "p"),
     readDeviceVersion |-> Sent("SYSTEM:VERSION:DEVICE", "?"),
     readServerVersion |-> Sent("SYSTEM:VERSION:SERVER", "?")]

Sends ==
    [pcb |-> PcbChannelSends @@ PcbRangeSends @@ PcbAdjustSends @@ PcbStatusSends
                @@ PcbSystemSends,
     sec |-> SecSends, dsp |-> DspSends]

HandedThrough == {"transparentCommand", "scpiCommand"}

\* The public methods: they forward to a private one, most to that of their own
\* name; some hand a text through, and a private one may have no public method.
PcbPublic ==
    Sends.pcb @@ "getSourceCat" :> Sent("SOURCE:CHANNEL:CATALOG", "?")

SecPublic ==
    Sends.sec @@ "getChannelCatalog" :> Sent("ECALCULATOR:CHANNEL:CATALOG", "?")

DspPublic ==
    [m \in DOMAIN Sends.dsp \ {"intList2Dsp", "triggerIntHKSK"} |-> Sends.dsp[m]]
    @@ "dataAcquisition" :> Sends.dsp.dspMemoryRead

Public == [pcb |-> PcbPublic, sec |-> SecPublic, dsp |-> DspPublic]

PrivateOf(kind, method) ==
    CASE method \in DOMAIN Calls[kind] -> method
      [] method = "dataAcquisition" -> "dspMemoryRead"
      [] OTHER -> "transparentCommand"

-----------------------------------------------------------------------------
(* The answer, and what the module gets of it.                             *)

\* The services an interface is used with.
Services == [pcb |-> {Mt310s2, Com5003}, sec |-> {Sec1000}, dsp |-> {Zdsp1}]

\* com5003d has no clamps, no EMOBs and no accumulator.
HasNode(tree, sent) == sent.node \in DOMAIN tree

OnlyMt310s2 == {"adjustStorageClamp", "getClampAdjustmentData", "setClampAdjustmentData",
                "readData", "writeData", "getAccumulatorStatus", "getAccuStateOfCharge"}

MayAnswer(tree, sent) == AnswersTo(tree[sent.node], sent.form)

\* What VariantConverter makes a value of that still is this value.
Keeps(conversion) ==
    CASE conversion = "int" -> {"int", "bool"}
      [] conversion = "double" -> {"int", "real"}
      [] conversion = "bool" -> {"bool"}
      [] conversion = "stringlist" -> {"list"}
      [] conversion = "values" -> {"values"}
      [] conversion = "string" -> Values \cup {"ack"}

\* A memory read is told as done (0) whatever the service said.
ToldReply(call, answer) ==
    IF call = "dspMemoryRead" THEN "ACK" ELSE ReplyType(answer)

Failures == (Outcomes \ {"ack"}) \cup {"errtext"}

\* The call and the answers to it of which its module learns something else.
Exceptions ==
    \* the service wants the parameters of the query, the client has none
    {<<"readData", "nak">>}
    \* no int: it reads 0, available and no overload
    \cup {<<"getStatus", "big">>}
    \* nothing polled yet: it reads 0
    \cup {<<c, "empty">> : c \in {"getAccumulatorStatus", "getAccuStateOfCharge"}}
    \* told as done
    \cup {<<"dspMemoryRead", "errexec">>}
    \cup {<<c, "errtext">> : c \in {"activateInterface", "deactivateAll"}}

\* A method of an interface reaches a node of every service it is meant for.
IsServed(kind, method, tree) ==
    LET sent == Public[kind][method]
        call == PrivateOf(kind, method)
        conversion == Conversion(kind, Calls[kind][call])
    IN  IF ~ HasNode(tree, sent) THEN tree = Com5003 /\ call \in OnlyMt310s2
        ELSE \A answer \in MayAnswer(tree, sent) :
                \/ <<call, answer>> \in Exceptions
                \/ /\ MayAnswer(tree, sent) # {"nak"}
                   /\ (answer \in Failures) = (ToldReply(call, answer) # "ACK")
                   /\ answer \in Failures \/ answer \in Keeps(conversion)

\* Every call of the interfaces is among the messages.
ASSUME SendsComplete ==
    \A kind \in DOMAIN Sends : DOMAIN Sends[kind] = DOMAIN Calls[kind] \ HandedThrough

=============================================================================
