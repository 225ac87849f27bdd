------------------------------ MODULE HotPlug ------------------------------
(***************************************************************************)
(* mt310s2d: clamps and EMOB controllers that are plugged while the        *)
(* service runs.                                                           *)
(*                                                                         *)
(* The micro controller latches "something was plugged or unplugged" in a  *)
(* bit of its critical status and interrupts the service: a byte in a      *)
(* pipe.  The handler reads the status, resets the bit, reads the mask of  *)
(* plugged devices and brings two bookkeepings up to date with it, that of *)
(* the clamps (devices with a readable EEPROM) and that of the controllers *)
(* (devices whose boot loader must be stopped and be given time first).    *)
(* Each of these is an I2C access during which people go on plugging; each *)
(* of them may fail.                                                       *)
(***************************************************************************)
EXTENDS Naturals, FiniteSets

CONSTANTS
    Channels,     \* the channels with a plug: m_nPluggedBit >= 0
    Devices,      \* what can be plugged
    WithEeprom,   \* the devices that have the EEPROM of a clamp
    WithCtrl,     \* the devices that have a controller (EMOB)
    Types,        \* clamp types
    TwoChannel,   \* the types that add ranges to a secondary channel, too
    NoDevice, Undefined,
    MaxPlugs,     \* bound on the number of times something is plugged
    MaxPipe,      \* bytes in the pipe; SIGIOs beyond are merged with them
    MaxFaults     \* bound on the number of failing I2C accesses

ASSUME HotPlugAssumption ==
    /\ WithEeprom \subseteq Devices /\ WithCtrl \subseteq Devices
    /\ NoDevice \notin Devices
    /\ TwoChannel \subseteq Types /\ Undefined \notin Types
    /\ MaxPlugs \in Nat /\ MaxPipe \in Nat \ {0} /\ MaxFaults \in Nat

VARIABLES
    plugged,     \* the device at each channel
    flash,       \* the clamp type its EEPROM holds
    inBoot,      \* its controller is still in the boot loader
    plugs,       \* times something has been plugged
    critStatus,  \* micro controller: the clamp bit of the critical status
    irqOn,       \* micro controller: this bit interrupts
    pipe,        \* bytes between signal handler and MTIntHandler
    pc,          \* the I2C access the service makes next
    starting,    \* that is within doSetupServerWithAtmelRunning
    mask,        \* the devices in the mask that was read last
    m_nClampStatus, m_clampHash, m_clampSecondarySet,
    catalog,     \* m_notifierClampChannelList
    ranges,      \* clamp ranges in the range lists of both channels
    m_pendingBootloaderStoppers, m_controllers, m_ChannelsWithoutController,
    versions,    \* the channels in m_allCtrlVersion
    reread,      \* a subscriber was told to read it (again)
    faults,      \* I2C accesses that have failed
    lost,        \* history: an access failed and was not made up for
    unnoticed    \* history: plugs emptied and filled between two masks

deviceVars == <<plugged, flash, inBoot, plugs>>
irqVars == <<critStatus, irqOn, pipe>>
clampVars == <<m_nClampStatus, m_clampHash, m_clampSecondarySet, catalog,
               ranges>>
ctrlVars == <<m_pendingBootloaderStoppers, m_controllers,
              m_ChannelsWithoutController>>
versionVars == <<versions, reread>>
faultVars == <<faults, lost>>
hotPlugVars == <<deviceVars, irqVars, pc, starting, mask, clampVars, ctrlVars,
                 versionVars, faultVars, unnoticed>>

Steps == {"idle", "reset", "mask", "clamps", "controllers", "enable"}
Clamps == DOMAIN m_clampHash

\* A clamp: its type, and that it once had a secondary channel
Clamp == [m_nType : Types \cup {Undefined}, secondary : BOOLEAN]

HotPlugTypeOK ==
    /\ plugged \in [Channels -> Devices \cup {NoDevice}]
    /\ flash \in [Channels -> Types \cup {Undefined}]
    /\ inBoot \in [Channels -> BOOLEAN]
    /\ plugs \in 0 .. MaxPlugs
    /\ critStatus \in BOOLEAN /\ irqOn \in BOOLEAN
    /\ pipe \in 0 .. MaxPipe
    /\ pc \in Steps /\ starting \in BOOLEAN
    /\ mask \in SUBSET Channels
    /\ m_nClampStatus \in SUBSET Channels
    /\ Clamps \in SUBSET Channels /\ m_clampHash \in [Clamps -> Clamp]
    /\ m_clampSecondarySet \in SUBSET Channels
    /\ catalog \in [first : SUBSET Channels, secondary : SUBSET Channels]
    /\ ranges \in [Channels -> [first : SUBSET Types, secondary : SUBSET Types]]
    /\ m_pendingBootloaderStoppers \in SUBSET Channels
    /\ m_controllers \in SUBSET Channels
    /\ m_ChannelsWithoutController \in SUBSET Channels
    /\ versions \in SUBSET Channels /\ reread \in BOOLEAN
    /\ faults \in 0 .. MaxFaults /\ lost \in BOOLEAN
    /\ unnoticed \in SUBSET Channels

HotPlugInit ==
    /\ plugged = [c \in Channels |-> NoDevice]
    /\ flash = [c \in Channels |-> Undefined]
    /\ inBoot = [c \in Channels |-> FALSE]
    /\ plugs = 0
    /\ critStatus = FALSE /\ irqOn = FALSE /\ pipe = 0
    /\ pc = "mask" /\ starting = TRUE    \* "we once poll the devices"
    /\ mask = {}
    /\ m_nClampStatus = {} /\ m_clampHash = [c \in {} |-> {}] /\ m_clampSecondarySet = {}
    /\ catalog = [first |-> {}, secondary |-> {}]
    /\ ranges = [c \in Channels |-> [first |-> {}, secondary |-> {}]]
    /\ m_pendingBootloaderStoppers = {} /\ m_controllers = {}
    /\ m_ChannelsWithoutController = {}
    /\ versions = {} /\ reread = FALSE
    /\ faults = 0 /\ lost = FALSE /\ unnoticed = {}

-----------------------------------------------------------------------------
(***************************************************************************)
(* The environment                                                         *)
(***************************************************************************)
\* The bit is latched.  Whether a bit that is latched already interrupts
\* once more is not in the code: both may happen.
Raise ==
    /\ critStatus' = TRUE
    /\ \/ pipe' = IF irqOn /\ pipe < MaxPipe THEN pipe + 1 ELSE pipe
       \/ critStatus /\ UNCHANGED pipe
    /\ UNCHANGED irqOn

Plug(c) ==
    /\ plugged[c] = NoDevice /\ plugs < MaxPlugs
    /\ \E d \in Devices, t \in Types \cup {Undefined} :
         /\ d \notin WithEeprom => t = Undefined
         /\ plugged' = [plugged EXCEPT ![c] = d]
         /\ flash' = [flash EXCEPT ![c] = t]
         /\ inBoot' = [inBoot EXCEPT ![c] = d \in WithCtrl]
    /\ plugs' = plugs + 1
    /\ unnoticed' = IF c \in mask THEN unnoticed \cup {c} ELSE unnoticed
    /\ Raise
    /\ UNCHANGED <<pc, starting, mask, clampVars, ctrlVars, versionVars,
                   faultVars>>

Unplug(c) ==
    /\ plugged[c] # NoDevice
    /\ plugged' = [plugged EXCEPT ![c] = NoDevice]
    /\ flash' = [flash EXCEPT ![c] = Undefined]
    /\ inBoot' = [inBoot EXCEPT ![c] = FALSE]
    /\ Raise
    /\ UNCHANGED <<plugs, pc, starting, mask, clampVars, ctrlVars, versionVars,
                   faultVars, unnoticed>>

\* An I2C access fails, and nobody tries again.
Fault ==
    /\ faults < MaxFaults
    /\ faults' = faults + 1
    /\ lost' = TRUE

\* A round of accesses, of which at most one fails: F has it, as a pair of
\* what is accessed and the channel.
FaultAt(F) ==
    IF F = {} THEN UNCHANGED faultVars ELSE Cardinality(F) = 1 /\ Fault
Failing(access, F) == {c \in Channels : <<access, c>> \in F}

-----------------------------------------------------------------------------
(***************************************************************************)
(* The interrupt handler                                                   *)
(***************************************************************************)
\* After the update: back to the event loop, or on with the setup
Updated == pc' = IF starting THEN "enable" ELSE "idle"

MTIntHandler ==
    /\ pc = "idle" /\ pipe > 0
    /\ pipe' = pipe - 1
    /\ \/ pc' = (IF critStatus THEN "reset" ELSE "idle") /\ UNCHANGED faultVars
       \/ Fault /\ UNCHANGED pc
    /\ UNCHANGED <<deviceVars, critStatus, irqOn, starting, mask, clampVars,
                   ctrlVars, versionVars, unnoticed>>

\* The result of resetCriticalStatus is not looked at.
ResetCriticalStatus ==
    /\ pc = "reset"
    /\ \/ critStatus' = FALSE /\ UNCHANGED faultVars
       \/ Fault /\ UNCHANGED critStatus
    /\ pc' = "mask"
    /\ UNCHANGED <<deviceVars, irqOn, pipe, starting, mask, clampVars,
                   ctrlVars, versionVars, unnoticed>>

UpdateI2cDevicesConnected ==
    /\ pc = "mask"
    /\ \/ /\ mask' = {c \in Channels : plugged[c] # NoDevice}
          /\ unnoticed' = unnoticed \cap mask'
          /\ pc' = "clamps"
          /\ UNCHANGED faultVars
       \/ /\ Fault
          /\ Updated
          /\ UNCHANGED <<mask, unnoticed>>
    /\ UNCHANGED <<deviceVars, irqVars, starting, clampVars, ctrlVars,
                   versionVars>>

EnableClampInterrupt ==
    /\ pc = "enable"
    /\ \/ /\ irqOn' = TRUE
          /\ \/ UNCHANGED faultVars
                /\ pipe' = IF critStatus THEN 1 ELSE 0
             \* the bit was latched before it was allowed to interrupt
             \/ critStatus /\ lost' = TRUE /\ UNCHANGED <<faults, pipe>>
       \/ Fault /\ UNCHANGED <<irqOn, pipe>>
    /\ pc' = "idle" /\ starting' = FALSE
    /\ UNCHANGED <<deviceVars, critStatus, mask, clampVars, ctrlVars,
                   versionVars, unnoticed>>

-----------------------------------------------------------------------------
(***************************************************************************)
(* cClampInterface and cClamp                                              *)
(***************************************************************************)
\* Mutant: a clamp of unknown type gets a range.
ClampRanges_Undefined(t) == [first |-> {t}, secondary |-> {t} \cap TwoChannel]

\* What a clamp of type t adds to the range lists of its two channels
ClampRanges(t) ==
    [first |-> {t} \cap Types, secondary |-> {t} \cap TwoChannel]

WithRanges(r, t) ==
    [first |-> r.first \cup ClampRanges(t).first,
     secondary |-> r.secondary \cup ClampRanges(t).secondary]

\* Mutant: the ranges of the secondary channel are forgotten.
WithoutRanges_FirstOnly(r, t) == [r EXCEPT !.first = @ \ ClampRanges(t).first]

WithoutRanges(r, t) ==
    [first |-> r.first \ ClampRanges(t).first,
     secondary |-> r.secondary \ ClampRanges(t).secondary]

Catalog(clamps, secondary) == [first |-> clamps, secondary |-> secondary]

RemovedClamps == (m_nClampStatus \ mask) \cap Clamps

\* The devices a new mask brings that turn out to be clamps, with the type that
\* is read: two accesses to the EEPROM
ClampFaults == {"plugged", "type"} \X (mask \ m_nClampStatus)
AddedClamps(F) ==
    [c \in {d \in mask \ m_nClampStatus : plugged[d] \in WithEeprom}
             \ Failing("plugged", F) |->
       IF c \in Failing("type", F) THEN Undefined ELSE flash[c]]
WithSecondary(added) == {c \in DOMAIN added : added[c] \in TwoChannel}

\* Mutant: the bit of a removed clamp stays.
StatusWith_BitStays(added) == m_nClampStatus \cup DOMAIN added

StatusWith(added) == (m_nClampStatus \ RemovedClamps) \cup DOMAIN added

\* Mutant: the secondary channel of a removed clamp stays in the catalog.
SecondarySet_Kept(added) ==
    m_clampSecondarySet \cup WithSecondary(added)

SecondarySet(added) ==
    (m_clampSecondarySet \ {c \in RemovedClamps : m_clampHash[c].secondary})
        \cup WithSecondary(added)

\* Mutant: the status bit is reset now, not before the mask is read.
ClampsDone_LateReset == pc' = "controllers" /\ critStatus' = FALSE

\* On to the controllers; the status bit has been reset before.
ClampsDone == pc' = "controllers" /\ UNCHANGED critStatus

\* What becomes of the clamp objects and of the range lists of their channels
ClampHashWith(added) ==
    [c \in (Clamps \ RemovedClamps) \cup DOMAIN added |->
       IF c \in DOMAIN added
       THEN [m_nType |-> added[c], secondary |-> added[c] \in TwoChannel]
       ELSE m_clampHash[c]]
RangesWith(added) ==
    [c \in Channels |->
       IF c \in DOMAIN added THEN WithRanges(ranges[c], added[c])
       ELSE IF c \in RemovedClamps
       THEN WithoutRanges(ranges[c], m_clampHash[c].m_nType)
       ELSE ranges[c]]

ActualizeClampStatus ==
    /\ pc = "clamps"
    /\ \E F \in SUBSET ClampFaults :
         LET added == AddedClamps(F)
         IN  /\ FaultAt(F)
             /\ m_nClampStatus' = StatusWith(added)
             /\ m_clampHash' = ClampHashWith(added)
             /\ m_clampSecondarySet' = SecondarySet(added)
             /\ catalog' = IF RemovedClamps \cup DOMAIN added = {} THEN catalog
                           ELSE Catalog(DOMAIN m_clampHash', SecondarySet(added))
             /\ ranges' = RangesWith(added)
    /\ ClampsDone
    /\ UNCHANGED <<deviceVars, irqOn, pipe, starting, mask, ctrlVars,
                   versionVars, unnoticed>>

\* SYSTEM:CLAMP:<channel>:TYPE: the ranges of the old type go, those of the
\* new one come once the EEPROM has been written.  The catalog of clamp
\* channels does not learn of a secondary channel that a type brings.
WriteType(c, t) ==
    LET clamp == m_clampHash[c]
        removed == WithoutRanges(ranges[c], clamp.m_nType)
    IN  /\ pc = "idle"
        /\ m_clampHash' =
             [m_clampHash EXCEPT ![c] =
                [m_nType |-> t,
                 secondary |-> clamp.secondary \/ t \in TwoChannel]]
        /\ \/ /\ plugged[c] \in WithEeprom
              /\ flash' = [flash EXCEPT ![c] = t]
              /\ ranges' = [ranges EXCEPT ![c] = WithRanges(removed, t)]
              /\ UNCHANGED faultVars
           \/ /\ IF plugged[c] \in WithEeprom THEN Fault
                 ELSE UNCHANGED faultVars
              /\ ranges' = [ranges EXCEPT ![c] = removed]
              /\ UNCHANGED flash
    /\ UNCHANGED <<plugged, inBoot, plugs, irqVars, pc, starting, mask,
                   m_nClampStatus, m_clampSecondarySet, catalog, ctrlVars,
                   versionVars, unnoticed>>

-----------------------------------------------------------------------------
(***************************************************************************)
(* HotPluggableControllerContainer and I2cCtlBootloaderStopper             *)
(***************************************************************************)
Known == m_pendingBootloaderStoppers \cup m_controllers
             \cup m_ChannelsWithoutController

InBootLoader(c) == plugged[c] \in WithCtrl /\ inBoot[c]
Answers(c) == plugged[c] \in WithCtrl /\ ~inBoot[c]

Pending(booted) == (m_pendingBootloaderStoppers \cap mask) \cup booted

\* The accesses of a channel that may fail while its controller is looked for
FaultsOf(P) == {"start", "version", "type"} \X P

\* The boot loaders of the channels P are assumed to be stopped: read version
\* and instrument type.  Where there is no version, there is no controller;
\* where there is one but no type, the channel is in no set.
OnBootloaderStopAssumed(P, F) ==
    LET answering == {c \in P : Answers(c)} \ Failing("version", F)
    IN  /\ m_controllers' =
             (m_controllers \cap mask) \cup (answering \ Failing("type", F))
        /\ m_ChannelsWithoutController' =
             (m_ChannelsWithoutController \cap mask) \cup (P \ answering)

\* Mutant: only a new controller is told of.
ControllersChanged_AddedOnly ==
    reread' = (reread \/ ~(m_controllers' \subseteq m_controllers))

\* sigControllersChanged forces the triggers of the version strings.
ControllersChanged == reread' = (reread \/ m_controllers' # m_controllers)

\* A boot loader that accepts the start of its program gets a timer; when it
\* does not, its program is running or there is no controller: no wait.
StartActualizeEmobControllers ==
    /\ pc = "controllers"
    /\ \E F \in SUBSET FaultsOf(mask \ Known) :
         LET booted == {c \in mask \ Known : InBootLoader(c)}
                         \ Failing("start", F)
         IN  /\ FaultAt(F)
             /\ inBoot' = [c \in Channels |-> inBoot[c] /\ c \notin booted]
             /\ m_pendingBootloaderStoppers' = Pending(booted)
             /\ OnBootloaderStopAssumed((mask \ Known) \ booted, F)
    /\ ControllersChanged
    /\ Updated
    /\ UNCHANGED <<plugged, flash, plugs, irqVars, starting, mask, clampVars,
                   versions, unnoticed>>

OnAppStartWaitFinished(c) ==
    /\ pc = "idle" /\ c \in m_pendingBootloaderStoppers
    /\ m_pendingBootloaderStoppers' = m_pendingBootloaderStoppers \ {c}
    /\ \E F \in SUBSET FaultsOf({c}) :
         FaultAt(F) /\ OnBootloaderStopAssumed({c}, F)
    /\ ControllersChanged
    /\ UNCHANGED <<deviceVars, irqVars, pc, starting, mask, clampVars, versions,
                   unnoticed>>

\* A subscriber reads SYSTEM:VERSION:CTRL, which reads the controllers anew;
\* it is notified again if the string has changed by that.
ReadVersions ==
    /\ pc = "idle" /\ reread
    /\ versions' = m_controllers
    /\ reread' = (versions # m_controllers)
    /\ UNCHANGED <<deviceVars, irqVars, pc, starting, mask, clampVars, ctrlVars,
                   faultVars, unnoticed>>

-----------------------------------------------------------------------------
HandlerStep ==
    \/ MTIntHandler
    \/ ResetCriticalStatus
    \/ UpdateI2cDevicesConnected
    \/ ActualizeClampStatus
    \/ StartActualizeEmobControllers
    \/ EnableClampInterrupt

HotPlugNext ==
    \/ HandlerStep
    \/ \E c \in Channels : Plug(c) \/ Unplug(c) \/ OnAppStartWaitFinished(c)
    \/ \E c \in Clamps, t \in Types : WriteType(c, t)
    \/ ReadVersions

HotPlugFairness ==
    /\ WF_hotPlugVars(HandlerStep)
    /\ \A c \in Channels : WF_hotPlugVars(OnAppStartWaitFinished(c))
    /\ WF_hotPlugVars(ReadVersions)

HotPlugSpec ==
    HotPlugInit /\ [][HotPlugNext]_hotPlugVars /\ HotPlugFairness

-----------------------------------------------------------------------------
(***************************************************************************)
(* Properties                                                              *)
(***************************************************************************)
\* The status mask, by which the next mask is compared, has exactly the bits
\* of the clamp objects: no plug is taken for used without a clamp, and none
\* is used twice.  The clamp channels that clients know are these clamps and
\* the secondary channels they were built with.
ClampsAreTracked ==
    /\ m_nClampStatus = Clamps
    /\ catalog = Catalog(Clamps, m_clampSecondarySet)
    /\ m_clampSecondarySet \subseteq Clamps

\* A channel offers no ranges but those of the clamp that is there, in the
\* type it has now: the range objects of a clamp that is gone, or of the type
\* it had, are deleted, and a list that keeps one points to freed memory.
NoRangeOutlivesItsClamp ==
    \A c \in Channels :
      /\ ranges[c].first # {} =>
           c \in Clamps /\ ranges[c].first = {m_clampHash[c].m_nType}
      /\ ranges[c].secondary # {} =>
           /\ c \in Clamps /\ m_clampHash[c].secondary
           /\ ranges[c].secondary = {m_clampHash[c].m_nType}

\* Between two updates each channel is at one stage only - boot loader being
\* stopped, controller, no controller -, and only if the last mask shows it.
OneStagePerChannel ==
    /\ m_pendingBootloaderStoppers \cap m_controllers = {}
    /\ m_pendingBootloaderStoppers \cap m_ChannelsWithoutController = {}
    /\ m_controllers \cap m_ChannelsWithoutController = {}
    /\ pc \notin {"clamps", "controllers"} => Known \subseteq mask

\* Who reads the controller versions when told to knows the controllers there
\* are: none comes or goes without a notification that is still to be served.
VersionsAreAnnounced == reread \/ versions = m_controllers

\* A clamp or a controller is dropped only when a mask without its device has
\* been read, whatever happens at the other plugs.
DropsOnlyUnplugged ==
    [][\A c \in mask : /\ c \in Clamps => c \in DOMAIN m_clampHash'
                       /\ c \in m_controllers => c \in m_controllers']_hotPlugVars

\* When people stop plugging, the service comes to know what is plugged,
\* unless an access has failed or one device took the place of another
\* between two masks.  This is why the status bit is reset before the mask
\* is read.
UpToDate ==
    /\ pc = "idle" /\ pipe = 0 /\ m_pendingBootloaderStoppers = {}
    /\ \A c \in Channels \ unnoticed :
         /\ c \in Clamps <=> plugged[c] \in WithEeprom
         /\ c \in m_controllers <=> plugged[c] \in WithCtrl
    /\ versions = m_controllers

ComesUpToDate == <>[](lost \/ UpToDate)
=============================================================================
