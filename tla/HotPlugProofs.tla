--------------------------- MODULE HotPlugProofs ---------------------------
(***************************************************************************)
(* Proofs about HotPlug, for any channels, devices, clamp types and any    *)
(* number of plugs and failing accesses.                                   *)
(***************************************************************************)
EXTENDS HotPlug, TLAPS

\* A clamp whose secondary channel is in the catalog knows it has one, and
\* takes it out of the catalog when it is removed.
SecondaryIsKnown == \A c \in m_clampSecondarySet : m_clampHash[c].secondary

\* The ranges of a secondary channel are of a type that brings them: removing
\* the ranges of that type removes them.
SecondaryRangesFit == \A c \in Channels : ranges[c].secondary \subseteq TwoChannel

Inv == /\ HotPlugTypeOK
       /\ ClampsAreTracked
       /\ SecondaryIsKnown
       /\ SecondaryRangesFit
       /\ NoRangeOutlivesItsClamp
       /\ OneStagePerChannel
       /\ VersionsAreAnnounced

-----------------------------------------------------------------------------
(***************************************************************************)
(* What the updates make of the bookkeepings                               *)
(***************************************************************************)
LEMMA AddedClamps_Type ==
    ASSUME HotPlugTypeOK, NEW F
    PROVE  /\ AddedClamps(F) \in [DOMAIN AddedClamps(F) -> Types \cup {Undefined}]
           /\ DOMAIN AddedClamps(F) \subseteq mask \ m_nClampStatus
           /\ DOMAIN AddedClamps(F) \subseteq Channels
           /\ WithSecondary(AddedClamps(F)) \subseteq DOMAIN AddedClamps(F)
<1> QED
    BY DEF AddedClamps, WithSecondary, HotPlugTypeOK

LEMMA ClampHashWith_Type ==
    ASSUME HotPlugTypeOK, NEW F
    PROVE  LET hash == ClampHashWith(AddedClamps(F))
           IN  /\ DOMAIN hash = (Clamps \ RemovedClamps) \cup DOMAIN AddedClamps(F)
               /\ DOMAIN hash \subseteq Channels
               /\ hash \in [DOMAIN hash -> Clamp]
<1> DEFINE added == AddedClamps(F)
           hash == ClampHashWith(added)
           D == (Clamps \ RemovedClamps) \cup DOMAIN added
<1>1. DOMAIN hash = D
    BY DEF ClampHashWith
<1>2. D \subseteq Channels
    BY AddedClamps_Type DEF HotPlugTypeOK
<1>3. ASSUME NEW c \in D PROVE hash[c] \in Clamp
    <2>1. CASE c \in DOMAIN added
        BY <2>1, AddedClamps_Type DEF ClampHashWith, Clamp
    <2>2. CASE c \notin DOMAIN added
        <3>1. c \in Clamps /\ hash[c] = m_clampHash[c]
            BY <2>2 DEF ClampHashWith
        <3> QED
            BY <3>1 DEF HotPlugTypeOK
    <2> QED
        BY <2>1, <2>2
<1>4. hash = [c \in D |-> hash[c]]
    BY DEF ClampHashWith
<1> QED
    BY <1>1, <1>2, <1>3, <1>4

LEMMA RangesWith_Type ==
    ASSUME HotPlugAssumption, HotPlugTypeOK, NEW F
    PROVE  RangesWith(AddedClamps(F)) \in
             [Channels -> [first : SUBSET Types, secondary : SUBSET Types]]
<1> DEFINE added == AddedClamps(F)
           R == [first : SUBSET Types, secondary : SUBSET Types]
<1>1. ASSUME NEW r \in R, NEW t PROVE WithRanges(r, t) \in R
    BY DEF WithRanges, ClampRanges, HotPlugAssumption
<1>2. ASSUME NEW r \in R, NEW t PROVE WithoutRanges(r, t) \in R
    BY DEF WithoutRanges, ClampRanges
<1>3. ASSUME NEW c \in Channels PROVE ranges[c] \in R
    BY DEF HotPlugTypeOK
<1> HIDE DEF R
<1>4. ASSUME NEW c \in Channels PROVE RangesWith(added)[c] \in R
    BY <1>1, <1>2, <1>3 DEF RangesWith
<1>5. RangesWith(added) \in [Channels -> R]
    BY <1>4 DEF RangesWith
<1> QED
    BY <1>5 DEF R

-----------------------------------------------------------------------------
(***************************************************************************)
(* Types                                                                   *)
(***************************************************************************)
LEMMA HotPlugInit_Inv == ASSUME HotPlugAssumption, HotPlugInit PROVE Inv
<1>1. HotPlugTypeOK
    <2>1. Clamps = {} /\ m_clampHash \in [Clamps -> Clamp]
        BY DEF HotPlugInit, Clamps
    <2>2. ranges \in [Channels -> [first : SUBSET Types, secondary : SUBSET Types]]
        BY DEF HotPlugInit
    <2>3. catalog \in [first : SUBSET Channels, secondary : SUBSET Channels]
        BY DEF HotPlugInit
    <2>4. /\ plugs \in 0 .. MaxPlugs /\ pipe \in 0 .. MaxPipe
          /\ faults \in 0 .. MaxFaults
        BY DEF HotPlugInit, HotPlugAssumption
    <2> QED
        BY <2>1, <2>2, <2>3, <2>4 DEF HotPlugInit, HotPlugTypeOK, Steps
<1>2. ClampsAreTracked
    BY DEF HotPlugInit, ClampsAreTracked, Catalog, Clamps
<1>3. NoRangeOutlivesItsClamp /\ SecondaryIsKnown /\ SecondaryRangesFit
    BY DEF HotPlugInit, NoRangeOutlivesItsClamp, SecondaryIsKnown,
           SecondaryRangesFit
<1>4. OneStagePerChannel
    BY DEF HotPlugInit, OneStagePerChannel, Known
<1>5. VersionsAreAnnounced
    BY DEF HotPlugInit, VersionsAreAnnounced
<1> QED
    BY <1>1, <1>2, <1>3, <1>4, <1>5 DEF Inv

LEMMA Fault_Type ==
    ASSUME HotPlugAssumption, HotPlugTypeOK,
           Fault \/ UNCHANGED faultVars \/ \E F : FaultAt(F)
    PROVE  faults' \in 0 .. MaxFaults /\ lost' \in BOOLEAN
<1>1. Fault \/ UNCHANGED faultVars
    BY DEF FaultAt
<1>2. CASE Fault
    <2>1. faults \in 0 .. MaxFaults /\ MaxFaults \in Nat
        BY DEF HotPlugTypeOK, HotPlugAssumption
    <2> QED
        BY <1>2, <2>1 DEF Fault
<1>3. CASE UNCHANGED faultVars
    BY <1>3 DEF faultVars, HotPlugTypeOK
<1> QED
    BY <1>1, <1>2, <1>3

LEMMA Raise_Type ==
    ASSUME HotPlugAssumption, HotPlugTypeOK, Raise
    PROVE  critStatus' \in BOOLEAN /\ irqOn' \in BOOLEAN /\ pipe' \in 0 .. MaxPipe
<1> QED
    BY DEF Raise, HotPlugTypeOK, HotPlugAssumption

LEMMA Stages_Type ==
    ASSUME HotPlugTypeOK, NEW P \in SUBSET Channels, NEW F,
           OnBootloaderStopAssumed(P, F)
    PROVE  m_controllers' \in SUBSET Channels
           /\ m_ChannelsWithoutController' \in SUBSET Channels
<1> QED
    BY DEF OnBootloaderStopAssumed, HotPlugTypeOK

LEMMA TypeStep ==
    ASSUME HotPlugAssumption, HotPlugTypeOK, [HotPlugNext]_hotPlugVars
    PROVE  HotPlugTypeOK'
<1> USE DEF deviceVars, irqVars, clampVars, ctrlVars, versionVars, Clamps, Steps
<1>1. ASSUME NEW c \in Channels, Plug(c) PROVE HotPlugTypeOK'
    BY <1>1, Raise_Type DEF Plug, HotPlugTypeOK, HotPlugAssumption, faultVars
<1>2. ASSUME NEW c \in Channels, Unplug(c) PROVE HotPlugTypeOK'
    BY <1>2, Raise_Type DEF Unplug, HotPlugTypeOK, HotPlugAssumption, faultVars
<1>3. ASSUME MTIntHandler PROVE HotPlugTypeOK'
    <2>1. faults' \in 0 .. MaxFaults /\ lost' \in BOOLEAN
        BY <1>3, Fault_Type DEF MTIntHandler
    <2> QED
        BY <1>3, <2>1 DEF MTIntHandler, HotPlugTypeOK, HotPlugAssumption
<1>4. ASSUME ResetCriticalStatus PROVE HotPlugTypeOK'
    <2>1. faults' \in 0 .. MaxFaults /\ lost' \in BOOLEAN
        BY <1>4, Fault_Type DEF ResetCriticalStatus
    <2> QED
        BY <1>4, <2>1 DEF ResetCriticalStatus, HotPlugTypeOK
<1>5. ASSUME UpdateI2cDevicesConnected PROVE HotPlugTypeOK'
    <2>1. faults' \in 0 .. MaxFaults /\ lost' \in BOOLEAN
        BY <1>5, Fault_Type DEF UpdateI2cDevicesConnected
    <2> QED
        BY <1>5, <2>1 DEF UpdateI2cDevicesConnected, Updated, HotPlugTypeOK
<1>6. ASSUME EnableClampInterrupt PROVE HotPlugTypeOK'
    <2>1. faults' \in 0 .. MaxFaults /\ lost' \in BOOLEAN
        BY <1>6, Fault_Type DEF EnableClampInterrupt, faultVars, HotPlugTypeOK
    <2>2. pipe' \in 0 .. MaxPipe
        <3>1. 0 \in 0 .. MaxPipe /\ 1 \in 0 .. MaxPipe /\ pipe \in 0 .. MaxPipe
            BY DEF HotPlugTypeOK, HotPlugAssumption
        <3>2. pipe' = pipe \/ pipe' = (IF critStatus THEN 1 ELSE 0)
            BY <1>6 DEF EnableClampInterrupt
        <3> QED
            BY <3>1, <3>2
    <2>3. irqOn' \in BOOLEAN
        BY <1>6 DEF EnableClampInterrupt, HotPlugTypeOK
    <2> QED
        BY <1>6, <2>1, <2>2, <2>3 DEF EnableClampInterrupt, HotPlugTypeOK
<1>7. ASSUME ActualizeClampStatus PROVE HotPlugTypeOK'
    <2>1. PICK F \in SUBSET ClampFaults :
            LET added == AddedClamps(F)
            IN  /\ FaultAt(F)
                /\ m_nClampStatus' = StatusWith(added)
                /\ m_clampHash' = ClampHashWith(added)
                /\ m_clampSecondarySet' = SecondarySet(added)
                /\ catalog' = IF RemovedClamps \cup DOMAIN added = {} THEN catalog
                              ELSE Catalog(DOMAIN m_clampHash', SecondarySet(added))
                /\ ranges' = RangesWith(added)
        BY <1>7 DEF ActualizeClampStatus
    <2> DEFINE added == AddedClamps(F)
    <2>2. faults' \in 0 .. MaxFaults /\ lost' \in BOOLEAN
        BY <2>1, Fault_Type
    <2>3. StatusWith(added) \in SUBSET Channels
          /\ SecondarySet(added) \in SUBSET Channels
        BY AddedClamps_Type DEF StatusWith, SecondarySet, HotPlugTypeOK
    <2>4. Clamps' \in SUBSET Channels /\ m_clampHash' \in [Clamps' -> Clamp]
        BY <2>1, ClampHashWith_Type
    <2>5. catalog' \in [first : SUBSET Channels, secondary : SUBSET Channels]
        BY <2>1, <2>3, <2>4 DEF Catalog, HotPlugTypeOK
    <2>6. ranges' \in [Channels -> [first : SUBSET Types, secondary : SUBSET Types]]
        BY <2>1, RangesWith_Type
    <2>7. UNCHANGED <<deviceVars, irqOn, critStatus, pipe, starting, mask, ctrlVars,
                      versionVars, unnoticed>> /\ pc' = "controllers"
        BY <1>7 DEF ActualizeClampStatus, ClampsDone
    <2> QED
        BY <2>1, <2>2, <2>3, <2>4, <2>5, <2>6, <2>7 DEF HotPlugTypeOK, Clamp
<1>8. ASSUME StartActualizeEmobControllers PROVE HotPlugTypeOK'
    <2>1. faults' \in 0 .. MaxFaults /\ lost' \in BOOLEAN
        BY <1>8, Fault_Type DEF StartActualizeEmobControllers
    <2>2. PICK F : LET booted == {c \in mask \ Known : InBootLoader(c)}
                                   \ Failing("start", F)
                   IN  /\ inBoot' = [c \in Channels |-> inBoot[c] /\ c \notin booted]
                       /\ m_pendingBootloaderStoppers' = Pending(booted)
                       /\ OnBootloaderStopAssumed((mask \ Known) \ booted, F)
        BY <1>8 DEF StartActualizeEmobControllers
    <2>3. inBoot' \in [Channels -> BOOLEAN]
        BY <2>2 DEF HotPlugTypeOK
    <2>4. m_pendingBootloaderStoppers' \in SUBSET Channels
        BY <2>2 DEF Pending, HotPlugTypeOK
    <2>5. m_controllers' \in SUBSET Channels
          /\ m_ChannelsWithoutController' \in SUBSET Channels
        BY <2>2, Stages_Type DEF HotPlugTypeOK
    <2> QED
        BY <1>8, <2>1, <2>3, <2>4, <2>5
        DEF StartActualizeEmobControllers, Updated, ControllersChanged,
            HotPlugTypeOK, Clamp
<1>9. ASSUME NEW c \in Channels, OnAppStartWaitFinished(c) PROVE HotPlugTypeOK'
    <2>1. faults' \in 0 .. MaxFaults /\ lost' \in BOOLEAN
        BY <1>9, Fault_Type DEF OnAppStartWaitFinished
    <2>2. m_controllers' \in SUBSET Channels
          /\ m_ChannelsWithoutController' \in SUBSET Channels
        BY <1>9, Stages_Type DEF OnAppStartWaitFinished
    <2> QED
        BY <1>9, <2>1, <2>2
        DEF OnAppStartWaitFinished, ControllersChanged, HotPlugTypeOK
<1>10. ASSUME NEW c \in Clamps, NEW t \in Types, WriteType(c, t)
       PROVE  HotPlugTypeOK'
    <2> DEFINE R == [first : SUBSET Types, secondary : SUBSET Types]
               removed == WithoutRanges(ranges[c], m_clampHash[c].m_nType)
    <2>1. faults' \in 0 .. MaxFaults /\ lost' \in BOOLEAN
        BY <1>10, Fault_Type DEF WriteType
    <2>2. c \in Channels /\ ranges[c] \in R /\ m_clampHash[c] \in Clamp
        BY <1>10 DEF HotPlugTypeOK
    <2>3. removed \in R /\ WithRanges(removed, t) \in R
        BY <2>2 DEF WithRanges, WithoutRanges, ClampRanges, HotPlugAssumption
    <2>4. ranges' \in [Channels -> R]
        <3> HIDE DEF R, removed
        <3>1. ranges \in [Channels -> R]
            BY DEF HotPlugTypeOK, R
        <3>2. ranges' = [ranges EXCEPT ![c] = WithRanges(removed, t)]
              \/ ranges' = [ranges EXCEPT ![c] = removed]
            BY <1>10 DEF WriteType, removed
        <3> QED
            BY <2>2, <2>3, <3>1, <3>2
    <2>5. flash' \in [Channels -> Types \cup {Undefined}]
        BY <1>10, <2>2 DEF WriteType, HotPlugTypeOK
    <2>6. Clamps' = Clamps /\ m_clampHash' \in [Clamps -> Clamp]
        <3>1. [m_nType |-> t, secondary |-> m_clampHash[c].secondary \/ t \in TwoChannel]
                  \in Clamp
            BY DEF Clamp
        <3> QED
            BY <1>10, <3>1 DEF WriteType, HotPlugTypeOK
    <2> QED
        BY <1>10, <2>1, <2>4, <2>5, <2>6 DEF WriteType, HotPlugTypeOK
<1>11. ASSUME ReadVersions PROVE HotPlugTypeOK'
    BY <1>11 DEF ReadVersions, HotPlugTypeOK, faultVars
<1>12. ASSUME UNCHANGED hotPlugVars PROVE HotPlugTypeOK'
    BY <1>12 DEF hotPlugVars, HotPlugTypeOK, faultVars
<1> QED
    BY <1>1, <1>2, <1>3, <1>4, <1>5, <1>6, <1>7, <1>8, <1>9, <1>10, <1>11, <1>12
    DEF HotPlugNext, HandlerStep

-----------------------------------------------------------------------------
(***************************************************************************)
(* Clamps: only ActualizeClampStatus and WriteType touch them              *)
(***************************************************************************)
LEMMA ClampsStep ==
    ASSUME Inv, [HotPlugNext]_hotPlugVars
    PROVE  \/ UNCHANGED clampVars
           \/ ActualizeClampStatus
           \/ \E c \in Clamps, t \in Types : WriteType(c, t)
<1> QED
    BY DEF HotPlugNext, HandlerStep, Plug, Unplug, MTIntHandler,
           ResetCriticalStatus, UpdateI2cDevicesConnected, EnableClampInterrupt,
           StartActualizeEmobControllers, OnAppStartWaitFinished, ReadVersions,
           hotPlugVars

LEMMA ClampsAreTrackedStep ==
    ASSUME HotPlugAssumption, Inv, [HotPlugNext]_hotPlugVars
    PROVE  ClampsAreTracked'
<1> USE DEF Inv
<1>1. CASE UNCHANGED clampVars
    BY <1>1 DEF clampVars, ClampsAreTracked, Clamps, Catalog
<1>2. CASE ActualizeClampStatus
    <2>1. PICK F \in SUBSET ClampFaults :
            LET added == AddedClamps(F)
            IN  /\ m_nClampStatus' = StatusWith(added)
                /\ m_clampHash' = ClampHashWith(added)
                /\ m_clampSecondarySet' = SecondarySet(added)
                /\ catalog' = IF RemovedClamps \cup DOMAIN added = {} THEN catalog
                              ELSE Catalog(DOMAIN m_clampHash', SecondarySet(added))
        BY <1>2 DEF ActualizeClampStatus
    <2> DEFINE added == AddedClamps(F)
    <2>2. Clamps' = (Clamps \ RemovedClamps) \cup DOMAIN added
        BY <2>1, ClampHashWith_Type DEF Clamps
    <2>3. WithSecondary(added) \subseteq DOMAIN added
        BY AddedClamps_Type
    <2>4. m_nClampStatus' = Clamps'
        BY <2>1, <2>2 DEF StatusWith, ClampsAreTracked
    <2>5. m_clampSecondarySet' \subseteq Clamps'
        BY <2>1, <2>2, <2>3 DEF SecondarySet, ClampsAreTracked, SecondaryIsKnown, Clamps
    <2>6. catalog' = Catalog(Clamps', m_clampSecondarySet')
        BY <2>1, <2>2, <2>3 DEF SecondarySet, ClampsAreTracked, Clamps
    <2> QED
        BY <2>4, <2>5, <2>6 DEF ClampsAreTracked, Catalog
<1>3. ASSUME NEW c \in Clamps, NEW t \in Types, WriteType(c, t)
      PROVE  ClampsAreTracked'
    <2>1. Clamps' = Clamps
        BY <1>3 DEF WriteType, Clamps
    <2> QED
        BY <1>3, <2>1 DEF WriteType, ClampsAreTracked, Catalog
<1> QED
    BY <1>1, <1>2, <1>3, ClampsStep

LEMMA SecondaryIsKnownStep ==
    ASSUME HotPlugAssumption, Inv, [HotPlugNext]_hotPlugVars
    PROVE  SecondaryIsKnown'
<1> USE DEF Inv
<1>1. CASE UNCHANGED clampVars
    BY <1>1 DEF clampVars, SecondaryIsKnown
<1>2. CASE ActualizeClampStatus
    <2>1. PICK F \in SUBSET ClampFaults :
            /\ m_clampHash' = ClampHashWith(AddedClamps(F))
            /\ m_clampSecondarySet' = SecondarySet(AddedClamps(F))
        BY <1>2 DEF ActualizeClampStatus
    <2> DEFINE added == AddedClamps(F)
    <2> SUFFICES ASSUME NEW c \in m_clampSecondarySet'
                 PROVE  m_clampHash'[c].secondary
        BY DEF SecondaryIsKnown
    <2>2. CASE c \in DOMAIN added
        <3>1. c \notin Clamps
            BY <2>2, AddedClamps_Type DEF ClampsAreTracked
        <3>2. added[c] \in TwoChannel
            BY <2>1, <3>1 DEF SecondarySet, WithSecondary, ClampsAreTracked
        <3>3. m_clampHash'[c].secondary = (added[c] \in TwoChannel)
            BY <2>1, <2>2 DEF ClampHashWith
        <3> QED
            BY <3>2, <3>3
    <2>3. CASE c \notin DOMAIN added
        <3>1. c \in m_clampSecondarySet /\ c \in Clamps \ RemovedClamps
            BY <2>1, <2>3, AddedClamps_Type
            DEF SecondarySet, SecondaryIsKnown, ClampsAreTracked
        <3>2. m_clampHash'[c] = m_clampHash[c]
            BY <2>1, <2>3, <3>1 DEF ClampHashWith
        <3> QED
            BY <3>1, <3>2 DEF SecondaryIsKnown
    <2> QED
        BY <2>2, <2>3
<1>3. ASSUME NEW c \in Clamps, NEW t \in Types, WriteType(c, t)
      PROVE  SecondaryIsKnown'
    BY <1>3 DEF WriteType, SecondaryIsKnown, ClampsAreTracked, HotPlugTypeOK, Clamps
<1> QED
    BY <1>1, <1>2, <1>3, ClampsStep

LEMMA RangesOf_Type ==
    ASSUME HotPlugTypeOK, NEW c \in Channels
    PROVE  ranges[c] \in [first : SUBSET Types, secondary : SUBSET Types]
<1> QED
    BY DEF HotPlugTypeOK

LEMMA SecondaryRangesFitStep ==
    ASSUME HotPlugAssumption, Inv, [HotPlugNext]_hotPlugVars
    PROVE  SecondaryRangesFit'
<1> USE DEF Inv
<1>1. CASE UNCHANGED clampVars
    BY <1>1 DEF clampVars, SecondaryRangesFit
<1>2. ASSUME NEW c \in Channels, NEW t
      PROVE  /\ WithRanges(ranges[c], t).secondary \subseteq TwoChannel
             /\ WithoutRanges(ranges[c], t).secondary \subseteq TwoChannel
             /\ \A u : WithRanges(WithoutRanges(ranges[c], u), t).secondary
                         \subseteq TwoChannel
    BY DEF SecondaryRangesFit, WithRanges, WithoutRanges, ClampRanges
<1>3. CASE ActualizeClampStatus
    <2>1. PICK F \in SUBSET ClampFaults : ranges' = RangesWith(AddedClamps(F))
        BY <1>3 DEF ActualizeClampStatus
    <2> QED
        BY <1>2, <2>1 DEF RangesWith, SecondaryRangesFit
<1>4. ASSUME NEW c \in Clamps, NEW t \in Types, WriteType(c, t)
      PROVE  SecondaryRangesFit'
    <2>1. PICK u : ranges' = [ranges EXCEPT ![c] = WithoutRanges(ranges[c], u)]
                   \/ ranges' = [ranges EXCEPT
                                   ![c] = WithRanges(WithoutRanges(ranges[c], u), t)]
        BY <1>4 DEF WriteType
    <2>2. c \in Channels /\ DOMAIN ranges = Channels
        BY DEF HotPlugTypeOK
    <2> QED
        BY <1>2, <2>1, <2>2 DEF SecondaryRangesFit
<1> QED
    BY <1>1, <1>3, <1>4, ClampsStep

\* Removing the ranges of the type a clamp has now leaves none.
LEMMA WithoutRanges_Empty ==
    ASSUME Inv, NEW c \in Clamps
    PROVE  LET r == WithoutRanges(ranges[c], m_clampHash[c].m_nType)
           IN  r = [first |-> {}, secondary |-> {}]
<1> DEFINE t == m_clampHash[c].m_nType
<1>1. c \in Channels
    BY DEF Inv, HotPlugTypeOK
<1>2. ranges[c].first \subseteq {t} \cap Types
    BY <1>1, RangesOf_Type DEF Inv, NoRangeOutlivesItsClamp
<1>3. ranges[c].secondary \subseteq {t} \cap TwoChannel
    BY <1>1 DEF Inv, NoRangeOutlivesItsClamp, SecondaryRangesFit
<1> QED
    BY <1>2, <1>3 DEF WithoutRanges, ClampRanges

LEMMA NoRangeOutlivesItsClampStep ==
    ASSUME HotPlugAssumption, Inv, [HotPlugNext]_hotPlugVars
    PROVE  NoRangeOutlivesItsClamp'
<1> USE DEF Inv
<1> DEFINE OK(r, has, clamp) ==
             /\ r.first # {} => has /\ r.first = {clamp.m_nType}
             /\ r.secondary # {} =>
                  has /\ clamp.secondary /\ r.secondary = {clamp.m_nType}
<1>0. \A c \in Channels : OK(ranges[c], c \in Clamps, m_clampHash[c])
    BY DEF NoRangeOutlivesItsClamp
<1>1. CASE UNCHANGED clampVars
    BY <1>1 DEF clampVars, NoRangeOutlivesItsClamp, Clamps
<1>2. CASE ActualizeClampStatus
    <2>1. PICK F \in SUBSET ClampFaults :
            /\ m_clampHash' = ClampHashWith(AddedClamps(F))
            /\ ranges' = RangesWith(AddedClamps(F))
        BY <1>2 DEF ActualizeClampStatus
    <2> DEFINE added == AddedClamps(F)
    <2>2. Clamps' = (Clamps \ RemovedClamps) \cup DOMAIN added
        BY <2>1, ClampHashWith_Type DEF Clamps
    <2> SUFFICES ASSUME NEW c \in Channels
                 PROVE  OK(ranges'[c], c \in Clamps', m_clampHash'[c])
        BY DEF NoRangeOutlivesItsClamp
    <2>3. CASE c \in DOMAIN added
        <3>1. ranges[c].first = {} /\ ranges[c].secondary = {}
            BY <2>3, <1>0, AddedClamps_Type DEF ClampsAreTracked
        <3>2. ranges'[c] = ClampRanges(added[c])
            BY <2>1, <2>3, <3>1 DEF RangesWith, WithRanges, ClampRanges
        <3>3. m_clampHash'[c] =
                [m_nType |-> added[c], secondary |-> added[c] \in TwoChannel]
            BY <2>1, <2>3 DEF ClampHashWith
        <3>4. /\ ranges'[c].first = {added[c]} \cap Types
              /\ ranges'[c].secondary = {added[c]} \cap TwoChannel
            BY <3>2 DEF ClampRanges
        <3>5. c \in Clamps'
            BY <2>2, <2>3
        <3>6. /\ m_clampHash'[c].m_nType = added[c]
              /\ m_clampHash'[c].secondary = (added[c] \in TwoChannel)
            BY <3>3
        <3> HIDE DEF added
        <3> QED
            BY <3>4, <3>5, <3>6
    <2>4. CASE c \in RemovedClamps
        <3>1. c \notin DOMAIN added
            BY <2>4, AddedClamps_Type DEF RemovedClamps, ClampsAreTracked
        <3>2. ranges'[c] = WithoutRanges(ranges[c], m_clampHash[c].m_nType)
            BY <2>1, <2>4, <3>1 DEF RangesWith
        <3>3. ranges'[c].first = {} /\ ranges'[c].secondary = {}
            BY <2>4, <3>2, WithoutRanges_Empty DEF RemovedClamps
        <3> QED
            BY <3>3
    <2>5. CASE c \notin DOMAIN added \cup RemovedClamps
        <3>1. ranges'[c] = ranges[c]
            BY <2>1, <2>5 DEF RangesWith
        <3>2. c \in Clamps => c \in Clamps' /\ m_clampHash'[c] = m_clampHash[c]
            BY <2>1, <2>2, <2>5 DEF ClampHashWith
        <3> QED
            BY <1>0, <3>1, <3>2
    <2> QED
        BY <2>3, <2>4, <2>5
<1>3. ASSUME NEW c \in Clamps, NEW t \in Types, WriteType(c, t)
      PROVE  NoRangeOutlivesItsClamp'
    <2> DEFINE removed == WithoutRanges(ranges[c], m_clampHash[c].m_nType)
    <2>1. removed.first = {} /\ removed.secondary = {} /\ c \in Channels
        BY <1>3, WithoutRanges_Empty DEF HotPlugTypeOK
    <2>2. Clamps' = Clamps
        BY <1>3 DEF WriteType, Clamps
    <2>3. m_clampHash'[c].m_nType = t
          /\ m_clampHash'[c].secondary = (m_clampHash[c].secondary \/ t \in TwoChannel)
        BY <1>3 DEF WriteType, HotPlugTypeOK, Clamps
    <2>4. \A d \in Channels \ {c} :
            ranges'[d] = ranges[d] /\ (d \in Clamps => m_clampHash'[d] = m_clampHash[d])
        BY <1>3 DEF WriteType, HotPlugTypeOK, Clamps
    <2>5. ranges'[c] = removed \/ ranges'[c] = WithRanges(removed, t)
        BY <1>3, <2>1 DEF WriteType, HotPlugTypeOK
    <2>6. OK(ranges'[c], c \in Clamps', m_clampHash'[c])
        <3>1. /\ WithRanges(removed, t).first = {t} \cap Types
              /\ WithRanges(removed, t).secondary = {t} \cap TwoChannel
            BY <2>1 DEF WithRanges, ClampRanges
        <3> QED
            BY <2>1, <2>2, <2>3, <2>5, <3>1, <1>3
    <2> QED
        BY <1>0, <2>2, <2>4, <2>6 DEF NoRangeOutlivesItsClamp
<1> QED
    BY <1>1, <1>2, <1>3, ClampsStep

-----------------------------------------------------------------------------
(***************************************************************************)
(* Controllers                                                             *)
(***************************************************************************)
LEMMA ControllersStep ==
    ASSUME Inv, [HotPlugNext]_hotPlugVars
    PROVE  \/ UNCHANGED ctrlVars
           \/ StartActualizeEmobControllers
           \/ \E c \in Channels : OnAppStartWaitFinished(c)
<1> QED
    BY DEF HotPlugNext, HandlerStep, Plug, Unplug, MTIntHandler,
           ResetCriticalStatus, UpdateI2cDevicesConnected, EnableClampInterrupt,
           ActualizeClampStatus, WriteType, ReadVersions, hotPlugVars

LEMMA OneStagePerChannelStep ==
    ASSUME Inv, [HotPlugNext]_hotPlugVars
    PROVE  OneStagePerChannel'
<1> USE DEF Inv
<1>1. CASE UNCHANGED ctrlVars
    <2>1. UNCHANGED Known
        BY <1>1 DEF ctrlVars, Known
    \* A new mask is what clamps and controllers are then brought up to date
    \* with.
    <2>2. pc' \notin {"clamps", "controllers"} =>
              \/ UNCHANGED mask /\ pc \notin {"clamps", "controllers"}
              \/ StartActualizeEmobControllers
        BY DEF HotPlugNext, HandlerStep, Plug, Unplug, MTIntHandler,
               ResetCriticalStatus, UpdateI2cDevicesConnected,
               EnableClampInterrupt, ActualizeClampStatus, ClampsDone, WriteType,
               OnAppStartWaitFinished, ReadVersions, hotPlugVars
    <2>3. ASSUME StartActualizeEmobControllers PROVE Known' \subseteq mask'
        BY <2>3 DEF StartActualizeEmobControllers, Known, Pending,
                    OnBootloaderStopAssumed
    <2> QED
        BY <1>1, <2>1, <2>2, <2>3 DEF ctrlVars, OneStagePerChannel
<1>2. CASE StartActualizeEmobControllers
    <2>1. PICK F : LET booted == {c \in mask \ Known : InBootLoader(c)}
                                   \ Failing("start", F)
                   IN  /\ m_pendingBootloaderStoppers' = Pending(booted)
                       /\ OnBootloaderStopAssumed((mask \ Known) \ booted, F)
        BY <1>2 DEF StartActualizeEmobControllers
    <2>2. PICK booted \in SUBSET (mask \ Known) :
             /\ m_pendingBootloaderStoppers' = Pending(booted)
             /\ OnBootloaderStopAssumed((mask \ Known) \ booted, F)
        BY <2>1
    <2>3. UNCHANGED mask
        BY <1>2 DEF StartActualizeEmobControllers
    <2> QED
        BY <2>2, <2>3
        DEF Pending, OnBootloaderStopAssumed, Known, OneStagePerChannel
<1>3. ASSUME NEW c \in Channels, OnAppStartWaitFinished(c)
      PROVE  OneStagePerChannel'
    <2>1. PICK F : OnBootloaderStopAssumed({c}, F)
        BY <1>3 DEF OnAppStartWaitFinished
    <2>2. /\ pc = "idle" /\ c \in m_pendingBootloaderStoppers
          /\ m_pendingBootloaderStoppers' = m_pendingBootloaderStoppers \ {c}
          /\ UNCHANGED mask
        BY <1>3 DEF OnAppStartWaitFinished
    <2> QED
        BY <2>1, <2>2 DEF OnBootloaderStopAssumed, Known, OneStagePerChannel
<1> QED
    BY <1>1, <1>2, <1>3, ControllersStep

LEMMA VersionsAreAnnouncedStep ==
    ASSUME Inv, [HotPlugNext]_hotPlugVars
    PROVE  VersionsAreAnnounced'
<1> USE DEF Inv
<1>1. CASE ReadVersions
    BY <1>1 DEF ReadVersions, ctrlVars, VersionsAreAnnounced
<1>2. CASE UNCHANGED <<ctrlVars, versionVars>>
    BY <1>2 DEF ctrlVars, versionVars, VersionsAreAnnounced
<1>3. CASE ControllersChanged /\ UNCHANGED versions
    BY <1>3 DEF ControllersChanged, VersionsAreAnnounced
<1> QED
    BY <1>1, <1>2, <1>3
    DEF HotPlugNext, HandlerStep, Plug, Unplug, MTIntHandler,
        ResetCriticalStatus, UpdateI2cDevicesConnected, EnableClampInterrupt,
        ActualizeClampStatus, StartActualizeEmobControllers,
        OnAppStartWaitFinished, WriteType, hotPlugVars

-----------------------------------------------------------------------------
(***************************************************************************)
(* Theorems                                                                *)
(***************************************************************************)
LEMMA Inv_Step ==
    ASSUME HotPlugAssumption, Inv, [HotPlugNext]_hotPlugVars
    PROVE  Inv'
<1> QED
    BY TypeStep, ClampsAreTrackedStep, SecondaryIsKnownStep,
       SecondaryRangesFitStep, NoRangeOutlivesItsClampStep,
       OneStagePerChannelStep, VersionsAreAnnouncedStep
    DEF Inv

LEMMA HotPlug_Inv == HotPlugSpec => []Inv
<1>1. HotPlugInit => Inv
    BY HotPlugInit_Inv, HotPlugAssumption
<1>2. Inv /\ [HotPlugNext]_hotPlugVars => Inv'
    BY Inv_Step, HotPlugAssumption
<1> QED
    BY <1>1, <1>2, PTL DEF HotPlugSpec

\* Type correctness of everything the service keeps about its plugs.
THEOREM HotPlugTypeCorrect == HotPlugSpec => []HotPlugTypeOK
<1> QED
    BY HotPlug_Inv, PTL DEF Inv

\* cClampInterface: status mask, clamp objects and the catalog of clamp
\* channels agree, however plugs change during the accesses and whichever of
\* these fail.
THEOREM HotPlugClampsAreTracked == HotPlugSpec => []ClampsAreTracked
<1> QED
    BY HotPlug_Inv, PTL DEF Inv

\* cClamp::removeAllRanges: no range list keeps a range of a clamp that is
\* gone or of a type it had.
THEOREM HotPlugNoRangeOutlivesItsClamp == HotPlugSpec => []NoRangeOutlivesItsClamp
<1> QED
    BY HotPlug_Inv, PTL DEF Inv

\* HotPluggableControllerContainer: a channel is at one stage, and at none
\* when its plug is empty.
THEOREM HotPlugOneStagePerChannel == HotPlugSpec => []OneStagePerChannel
<1> QED
    BY HotPlug_Inv, PTL DEF Inv

\* Mt310s2SystemInterface: no controller comes or goes unannounced.
THEOREM HotPlugVersionsAreAnnounced == HotPlugSpec => []VersionsAreAnnounced
<1> QED
    BY HotPlug_Inv, PTL DEF Inv

\* Nothing is dropped whose device the last mask shows.
THEOREM HotPlugDropsOnlyUnplugged == HotPlugSpec => DropsOnlyUnplugged
<1> DEFINE Keeps == \A c \in mask : /\ c \in Clamps => c \in DOMAIN m_clampHash'
                                    /\ c \in m_controllers => c \in m_controllers'
<1>1. ASSUME Inv, [HotPlugNext]_hotPlugVars PROVE Keeps
    <2>1. ASSUME NEW c \in mask, c \in Clamps PROVE c \in DOMAIN m_clampHash'
        <3>1. CASE UNCHANGED clampVars
            BY <2>1, <3>1 DEF clampVars, Clamps
        <3>2. CASE ActualizeClampStatus
            <4>1. PICK F : m_clampHash' = ClampHashWith(AddedClamps(F))
                BY <3>2 DEF ActualizeClampStatus
            <4>2. c \in Clamps \ RemovedClamps
                BY <2>1 DEF RemovedClamps
            <4> QED
                BY <4>1, <4>2 DEF ClampHashWith
        <3>3. ASSUME NEW d \in Clamps, NEW t \in Types, WriteType(d, t)
              PROVE  c \in DOMAIN m_clampHash'
            BY <2>1, <3>3 DEF WriteType, Clamps
        <3> QED
            BY <1>1, <3>1, <3>2, <3>3, ClampsStep
    <2>2. ASSUME NEW c \in mask, c \in m_controllers PROVE c \in m_controllers'
        BY <1>1, <2>2, ControllersStep
        DEF ctrlVars, StartActualizeEmobControllers, OnAppStartWaitFinished,
            OnBootloaderStopAssumed
    <2> QED
        BY <2>1, <2>2
<1>2. Inv /\ [HotPlugNext]_hotPlugVars => [Keeps]_hotPlugVars
    BY <1>1
<1> QED
    BY <1>2, HotPlug_Inv, PTL DEF HotPlugSpec, DropsOnlyUnplugged
=============================================================================
