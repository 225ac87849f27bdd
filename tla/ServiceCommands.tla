-------------------------- MODULE ServiceCommands --------------------------
(***************************************************************************)
(* The commands of the client interfaces of zenux-service-interfaces.      *)
(*                                                                         *)
(* Each method of an interface sends one message and stores an enumerator  *)
(* under its message number in m_MsgNrCmdList; receiveAnswer takes the     *)
(* enumerator back and converts the body of the answer accordingly.  The   *)
(* records below say which enumerator a method stores, Conversion says     *)
(* what receiveAnswer makes of it.                                         *)
(***************************************************************************)

\* A table in two parts.
Joined(t, u) ==
    [call \in DOMAIN t \cup DOMAIN u |-> IF call \in DOMAIN t THEN t[call] ELSE u[call]]

\* What is measured: cPCBInterface's queries of channels and ranges.
PcbSense ==
    [getChannelList |-> "getchannellist", getDSPChannel |-> "getdspchannel",
     getStatus |-> "getstatus", resetStatus |-> "resetstatus",
     getAlias |-> "getalias", getType |-> "gettype", getUnit |-> "getunit",
     getRange |-> "getrange", getRangeList |-> "getrangelist",
     getRangeAlias |-> "getalias2", getRangeType |-> "gettype2",
     getRangeUrvalue |-> "geturvalue", getUrvalue |-> "geturvalue2",
     getRejection |-> "getrejection", getOVRejection |-> "getovrejection",
     getADCRejection |-> "getadcrejection", isAvail |-> "isavail",
     getGainCorrection |-> "getgaincorrection",
     getAdjGainCorrection |-> "getgaincorrection",
     getOffsetCorrection |-> "getoffsetcorrection",
     getAdjOffsetCorrection |-> "getoffsetcorrection",
     getPhaseCorrection |-> "getphasecorrection",
     getAdjPhaseCorrection |-> "getphasecorrection"]

\* What is set and adjusted.
PcbAdjust ==
    [setRange |-> "setrange", setMMode |-> "setmeasuringmode",
     adjustComputation |-> "adjustcomputation", adjustStorage |-> "adjuststorage",
     adjustStorageClamp |-> "adjuststorageclamp",
     setAdjustGainStatus |-> "setadjustgainstatus",
     setAdjustPhaseStatus |-> "setadjustphasestatus",
     setAdjustOffsetStatus |-> "setadjustoffsetstatus",
     setGainNode |-> "setgainnode", setPhaseNode |-> "setphasenode",
     setOffsetNode |-> "setoffsetnode"]

\* Sources, sampling, status, adjustment data, system and notifications.
PcbSystem ==
    [getAliasSource |-> "getaliassource",
     getDSPChannelSource |-> "getdspchannelsource",
     getFormFactorSource |-> "getformfactorsource",
     getSampleRate |-> "getsamplerate", setPLLChannel |-> "setpllchannel",
     getAdjustmentStatus |-> "getadjustmentstatus",
     getAuthorizationStatus |-> "getauthorizationstatus",
     getAdjustmentChksum |-> "getadjustmentchksum",
     getPCBAdjustmentData |-> "getadjustpcbxml",
     setPCBAdjustmentData |-> "setadjustpcbxml",
     getClampAdjustmentData |-> "getadjustclampxml",
     setClampAdjustmentData |-> "setadjustclampxml",
     readChannelsConnected |-> "getchannelsconnected",
     getAccumulatorStatus |-> "getaccumulatorstatus",
     getAccuStateOfCharge |-> "getaccumulatorsoc",
     readData |-> "readdata", writeData |-> "writedata",
     transparentCommand |-> "transparentcommand",
     registerNotifier |-> "regnotifier", unregisterNotifiers |-> "unregnotifier",
     readServerVersion |-> "getserverversion", readPCBInfo |-> "getpcbversion",
     readFPGAVersion |-> "getfpgaversion", readCTRLVersion |-> "getctrlversion",
     readSerialNr |-> "getserialnumber", writeSerialNr |-> "setserialnumber"]

\* cSECInterface.
Sec ==
    [setECalcUnit |-> "setecalcunit", freeECalcUnits |-> "freeecalcunit",
     writeRegister |-> "writeregister", readRegister |-> "readregister",
     setSync |-> "setsync", setMux |-> "setmux", setCmdid |-> "setcmdid",
     start |-> "startecalc", stop |-> "stopecalc", intAck |-> "intacknowledge",
     registerNotifier |-> "regnotifier", unregisterNotifiers |-> "unregnotifier",
     transparentCommand |-> "transparentcommand"]

\* cDSPInterface; TEST:ENTITYID shares an enumerator with the variable list.
Dsp ==
    [scpiCommand |-> "dspscpi", setSamplingSystem |-> "setsamplingsystem",
     setEntityId |-> "varlist2dsp", varList2Dsp |-> "varlist2dsp",
     cmdList2Dsp |-> "cmdlist2dsp", intList2Dsp |-> "intlist2dsp",
     triggerIntHKSK |-> "triggerinthksk", activateInterface |-> "activateinterface",
     deactivateAll |-> "deactivateall", dspMemoryRead |-> "dspmemoryread",
     dspMemoryWrite |-> "dspmemorywrite", readDeviceVersion |-> "readdeviceversion",
     readServerVersion |-> "readserverversion"]

\* cRMInterface; a resource's info is stored as a list of resources.
Rm ==
    [scpiCommand |-> "rmscpi", rmIdent |-> "rmident", addResource |-> "addresource",
     removeResource |-> "removeresource", getResourceTypes |-> "getresourcetypes",
     getResources |-> "getresources", getResourceInfo |-> "getresources",
     setResource |-> "setresource", freeResource |-> "freeresource"]

Calls == [pcb |-> Joined(PcbSense, Joined(PcbAdjust, PcbSystem)),
          sec |-> Sec, dsp |-> Dsp, rm |-> Rm]

InterfaceKinds == DOMAIN Calls

\* The enumerator for message number 0, which commands never have: cSECInterface
\* and cRMInterface look it up like any other, find nothing, and QHash::take
\* gives 0, their first enumerator.
InterruptOf ==
    [pcb |-> "pcbinterrupt", dsp |-> "dspinterrupt",
     sec |-> "setecalcunit", rm |-> "rmident"]

\* What take gives for a number that is not in the list.
FirstOf ==
    [pcb |-> "getchannellist", dsp |-> "dspscpi",
     sec |-> "setecalcunit", rm |-> "rmident"]

PcbInt == {"getdspchannel", "getstatus", "gettype2", "getsamplerate",
           "getdspchannelsource", "getadjustmentstatus",
           "getauthorizationstatus", "getaccumulatorstatus", "getaccumulatorsoc"}

PcbDouble == {"geturvalue", "geturvalue2", "getrejection", "getovrejection",
              "getadcrejection", "getgaincorrection", "getoffsetcorrection",
              "getphasecorrection", "getformfactorsource"}

PcbText == {"getalias", "gettype", "getunit", "getrange", "getalias2",
            "getaliassource", "getserverversion", "getpcbversion",
            "getfpgaversion", "getctrlversion", "getserialnumber",
            "getadjustmentchksum", "getadjustpcbxml", "getadjustclampxml",
            "transparentcommand"}

PcbOutcome == {"setoffsetnode", "setphasenode", "setgainnode", "adjuststorage",
               "adjuststorageclamp", "setadjustgainstatus",
               "setadjustphasestatus", "setadjustoffsetstatus",
               "adjustcomputation", "setmeasuringmode", "setrange",
               "resetstatus", "regnotifier", "unregnotifier", "pcbinterrupt",
               "setpllchannel", "setadjustpcbxml", "setadjustclampxml",
               "setserialnumber", "getchannelsconnected", "readdata", "writedata"}

PcbConversion(e) ==
    CASE e \in PcbInt -> "int"
      [] e \in PcbDouble -> "double"
      [] e \in PcbText \cup PcbOutcome -> "string"
      [] e \in {"getchannellist", "getrangelist"} -> "stringlist"
      [] e = "isavail" -> "bool"

\* The other interfaces hand every answer on as a string, cDSPInterface after it
\* has put the values of a memory read into their variables.
Conversion(kind, e) ==
    CASE kind = "pcb" -> PcbConversion(e)
      [] kind = "dsp" /\ e = "dspmemoryread" -> "values"
      [] OTHER -> "string"

=============================================================================
