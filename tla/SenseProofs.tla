---------------------------- MODULE SenseProofs ----------------------------
(***************************************************************************)
(* Proofs about Sense, for any channels, ranges, clamps and registrations. *)
(***************************************************************************)
EXTENDS Sense, FiniteSetTheorems, TLAPS

\* The catalog string is the list it is made from.
CatalogIsList == \A c \in Channels : strings[RangeCat(c)] = m_RangeList[c]

\* Only the delayed range controller has changes waiting.
OnlyDelayedWaits ==
    \A c \in Channels : m_delayedCtrlIos[c] # <<>> => device = "mtDelayed"

-----------------------------------------------------------------------------
(* Lists and positions.                                                     *)

LEMMA LeastPosition ==
    ASSUME NEW S \in SUBSET Nat, S # {}
    PROVE  Min(S) \in S
<1> DEFINE R == StrictSubsetOrdering(Nat)
           Upto == {1 .. n : n \in S}
<1>1. IsWellFoundedOn(R, FiniteSubsetsOf(Nat))
    BY FS_StrictSubsetOrderingWellFounded
<1>2. Upto \subseteq FiniteSubsetsOf(Nat)
    <2>1. ASSUME NEW n \in S
          PROVE  1 .. n \in FiniteSubsetsOf(Nat)
        <3>1. n \in Int /\ 1 \in Int /\ 1 .. n \in SUBSET Nat
            OBVIOUS
        <3>2. IsFiniteSet(1 .. n)
            BY <3>1, FS_Interval
        <3> QED
            BY <3>1, <3>2 DEF FiniteSubsetsOf
    <2> QED
        BY <2>1
<1>3. Upto # {}
    OBVIOUS
<1>4. \E x \in Upto : \A y \in Upto : <<y, x>> \notin R
    <2> HIDE DEF R, Upto
    <2> QED
        BY <1>1, <1>2, <1>3, WFMin
<1>5. PICK m \in S : \A k \in S : <<1 .. k, 1 .. m>> \notin R
    BY <1>4
<1>6. ASSUME NEW k \in S, k < m
      PROVE  FALSE
    <2>1. /\ 1 .. k \in SUBSET Nat /\ 1 .. m \in SUBSET Nat
          /\ 1 .. k \subseteq 1 .. m
        BY <1>6
    <2>2. m \in 1 .. m /\ m \notin 1 .. k
        BY <1>6
    <2> QED
        BY <1>5, <2>1, <2>2 DEF StrictSubsetOrdering
<1>7. \A k \in S : m =< k
    BY <1>6
<1> QED
    BY <1>5, <1>7 DEF Min

LEMMA KeptEntries ==
    ASSUME NEW T, NEW seq \in Seq(T), NEW S \in SUBSET DOMAIN seq,
           NEW list \in Kept(seq, S)
    PROVE  /\ list \in Seq(T)
           /\ ToSet(list) = {seq[i] : i \in S}
<1>1. PICK n \in 0 .. Len(seq) : \E index \in [1 .. n -> S] :
        /\ list = [j \in DOMAIN index |-> seq[index[j]]]
        /\ \A k \in S : \E j \in DOMAIN index : index[j] = k
    BY DEF Kept
<1>2. PICK index \in [1 .. n -> S] :
        /\ list = [j \in DOMAIN index |-> seq[index[j]]]
        /\ \A k \in S : \E j \in DOMAIN index : index[j] = k
    BY <1>1
<1>3. n \in Nat /\ DOMAIN index = 1 .. n
    OBVIOUS
<1>4. list = [j \in 1 .. n |-> seq[index[j]]]
    BY <1>2, <1>3
<1>5. \A j \in 1 .. n : index[j] \in S /\ seq[index[j]] \in T
    OBVIOUS
<1>6. list \in Seq(T) /\ DOMAIN list = 1 .. n
    BY <1>3, <1>4, <1>5
<1>7. \A j \in 1 .. n : list[j] = seq[index[j]] /\ index[j] \in S
    BY <1>4, <1>5
<1>8. \A k \in S : \E j \in 1 .. n : list[j] = seq[k]
    BY <1>2, <1>3, <1>4
<1>9. ToSet(list) = {list[j] : j \in 1 .. n}
    BY <1>6 DEF ToSet
<1>10. ToSet(list) \subseteq {seq[i] : i \in S}
    BY <1>7, <1>9
<1>11. {seq[i] : i \in S} \subseteq ToSet(list)
    BY <1>8, <1>9
<1> QED
    BY <1>6, <1>10, <1>11

LEMMA ToSetOfConcatenation ==
    ASSUME NEW T, NEW s \in Seq(T), NEW t \in Seq(T)
    PROVE  ToSet(s \o t) = ToSet(s) \cup ToSet(t)
<1>1. /\ s \o t \in Seq(T)
      /\ DOMAIN (s \o t) = 1 .. Len(s) + Len(t)
      /\ DOMAIN s = 1 .. Len(s) /\ DOMAIN t = 1 .. Len(t)
      /\ \A i \in 1 .. Len(s) : (s \o t)[i] = s[i]
      /\ \A i \in 1 .. Len(t) : (s \o t)[Len(s) + i] = t[i]
      /\ Len(s) \in Nat /\ Len(t) \in Nat
    OBVIOUS
<1>2. ASSUME NEW i \in 1 .. Len(s) + Len(t), i \notin 1 .. Len(s)
      PROVE  i - Len(s) \in 1 .. Len(t) /\ (s \o t)[i] = t[i - Len(s)]
    BY <1>1, <1>2
<1>3. ToSet(s \o t) \subseteq ToSet(s) \cup ToSet(t)
    BY <1>1, <1>2 DEF ToSet
<1>4. ToSet(s) \subseteq ToSet(s \o t)
    BY <1>1 DEF ToSet
<1>5. ToSet(t) \subseteq ToSet(s \o t)
    <2>1. \A i \in 1 .. Len(t) : Len(s) + i \in 1 .. Len(s) + Len(t)
        BY <1>1
    <2> QED
        BY <1>1, <2>1 DEF ToSet
<1> QED
    BY <1>3, <1>4, <1>5

LEMMA ConcatenationDiffers ==
    ASSUME NEW T, NEW s \in Seq(T), NEW t \in Seq(T), ToSet(t) # {}
    PROVE  s \o t # s
<1>1. Len(t) \in Nat /\ Len(t) > 0
    BY DEF ToSet
<1>2. Len(s \o t) = Len(s) + Len(t) /\ Len(s) \in Nat
    OBVIOUS
<1>3. \A a, b \in Nat : b > 0 => a + b # a
    OBVIOUS
<1> QED
    BY <1>1, <1>2, <1>3

LEMMA ListsOfRanges ==
    /\ MtRanges \in Seq(Ranges) /\ ComRanges \in Seq(Ranges)
    /\ \A t \in ClampTypes : RangesOf[t] \in Seq(Ranges)
    /\ ReferenceRange(1) \in Ranges /\ ReferenceRange(2) \in Ranges
    /\ \A r \in Ranges : SelCode[r] \in Nat
<1>1. ASSUME NEW s \in Seq(STRING), ToSet(s) \subseteq Ranges
      PROVE  s \in Seq(Ranges)
    <2>1. \A i \in DOMAIN s : s[i] \in Ranges
        BY <1>1 DEF ToSet
    <2> QED
        BY <2>1
<1>2. /\ ToSet(MtRanges) \subseteq Ranges /\ ToSet(ComRanges) \subseteq Ranges
      /\ \A t \in ClampTypes : ToSet(RangesOf[t]) \subseteq Ranges
    BY DEF Ranges
<1>3. \A t \in ClampTypes : RangesOf[t] \in Seq(STRING)
    BY SenseAssumption
<1>4. ReferenceRange(1) \in Ranges /\ ReferenceRange(2) \in Ranges
    BY <1>2, SenseAssumption DEF ReferenceRange
<1>5. \A r \in Ranges : SelCode[r] \in Nat
    BY SenseAssumption
<1> QED
    BY <1>1, <1>2, <1>3, <1>4, <1>5, SenseAssumption

LEMMA NotifierNames ==
    /\ \A c \in Channels : RangeName(c) \in Notifiers /\ RangeCat(c) \in Notifiers
    /\ Mode \in Notifiers /\ Authorization \in Notifiers /\ Source \in Notifiers
    /\ \A n \in Notifiers : n[1] = "catalog" => n[2] \in Channels /\ n = RangeCat(n[2])
    /\ \A w \in Wanted : w[2] \in Notifiers
<1>1. \A w \in Wanted : w[2] \in Notifiers
    BY SenseAssumption
<1>2. \A n \in Notifiers : n[1] = "catalog" => n[2] \in Channels /\ n = RangeCat(n[2])
    BY DEF Notifiers, RangeCat
<1> QED
    BY <1>1, <1>2 DEF Notifiers, RangeName, RangeCat, Mode, Authorization, Source

LEMMA RefreshedIsListed ==
    ASSUME NEW T, NEW list \in Seq(T), NEW avail, NEW code, NEW old,
           PositionsOf(list, avail, code) # {}
    PROVE  /\ Refreshed(list, avail, code, old) \in ToSet(list) \cap T
           /\ SelCode[Refreshed(list, avail, code, old)] = code
<1> DEFINE found == PositionsOf(list, avail, code)
<1>1. found \in SUBSET Nat /\ found \subseteq DOMAIN list
    BY DEF PositionsOf
<1>2. Min(found) \in found
    BY <1>1, LeastPosition
<1>3. Refreshed(list, avail, code, old) = list[Min(found)]
    BY DEF Refreshed
<1>4. Min(found) \in DOMAIN list /\ SelCode[list[Min(found)]] = code
    BY <1>2 DEF PositionsOf
<1> QED
    BY <1>3, <1>4 DEF ToSet

-----------------------------------------------------------------------------
(* Strings and who is told of them.                                         *)

\* The subscribers of the strings a step changes are told.
TellsChanges ==
    /\ told \cap subscribers' \subseteq told'
    /\ \A w \in subscribers \cap subscribers' :
            strings'[w[2]] # strings[w[2]] => w \in told'

\* The type of the strings and of the clients' sets.
StringsTyped ==
    /\ DOMAIN strings = Notifiers
    /\ \A c \in Channels : /\ strings[RangeName(c)] \in Ranges \cup {""}
                           /\ strings[RangeCat(c)] \in Seq(Ranges)
    /\ subscribers \in SUBSET Wanted /\ told \in SUBSET subscribers

LEMMA StringAssigned ==
    ASSUME StringsTyped, NEW n \in Notifiers, NEW v, NEW forced,
           Notify([strings EXCEPT ![n] = v], forced), UNCHANGED subscribers
    PROVE  /\ DOMAIN strings' = Notifiers
           /\ strings'[n] = v
           /\ \A m \in Notifiers : m # n => strings'[m] = strings[m]
           /\ told \in SUBSET told' /\ told' \in SUBSET subscribers'
           /\ TellsChanges
           /\ \A w \in subscribers : w[2] \in forced => w \in told'
<1> DEFINE new == [strings EXCEPT ![n] = v]
<1>1. DOMAIN new = Notifiers /\ new[n] = v /\ \A m \in Notifiers : m # n => new[m] = strings[m]
    BY DEF StringsTyped
<1>2. /\ strings' = new
      /\ told' = told \cup {w \in subscribers : \/ new[w[2]] # strings[w[2]]
                                                \/ w[2] \in forced}
    BY DEF Notify
<1> HIDE DEF new
<1>3. told \in SUBSET told' /\ told' \in SUBSET subscribers'
    BY <1>2 DEF StringsTyped
<1>4. \A w \in subscribers : strings'[w[2]] # strings[w[2]] => w \in told'
    BY <1>2
<1>5. \A w \in subscribers : w[2] \in forced => w \in told'
    BY <1>2
<1> QED
    BY <1>1, <1>2, <1>3, <1>4, <1>5 DEF TellsChanges

LEMMA FaultTyped ==
    ASSUME SenseTypeOK, Fault
    PROVE  faults' \in 0 .. MaxFaults
<1>1. faults \in 0 .. MaxFaults
    BY DEF SenseTypeOK
<1>2. MaxFaults \in Nat
    BY SenseAssumption
<1> QED
    BY <1>1, <1>2 DEF Fault

LEMMA AuthorizationRead ==
    ASSUME SenseTypeOK, NEW t \in SUBSET Wanted, GetAuthorizationStatus(t)
    PROVE  /\ DOMAIN strings' = Notifiers
           /\ \A m \in Notifiers : m # Authorization => strings'[m] = strings[m]
           /\ t \subseteq told' /\ told' \subseteq t \cup subscribers
           /\ \A w \in subscribers : strings'[w[2]] # strings[w[2]] => w \in told'
           /\ faults' \in 0 .. MaxFaults
<1>1. PICK status \in {permission, FALSE} :
        /\ IF status = permission THEN UNCHANGED faults ELSE Fault
        /\ strings' = [strings EXCEPT ![Authorization] = status]
        /\ told' = t \cup {w \in subscribers : /\ w[2] = Authorization
                                               /\ status # strings[Authorization]}
    BY DEF GetAuthorizationStatus
<1>2. faults' \in 0 .. MaxFaults
    <2>1. CASE status = permission
        BY <1>1, <2>1 DEF SenseTypeOK
    <2> QED
        BY <1>1, <2>1, FaultTyped
<1>3. DOMAIN strings = Notifiers
    BY DEF SenseTypeOK
<1>4. /\ DOMAIN strings' = Notifiers
      /\ \A m \in Notifiers : m # Authorization => strings'[m] = strings[m]
      /\ strings'[Authorization] = status
    BY <1>1, <1>3, NotifierNames
<1>5. ASSUME NEW w \in subscribers, strings'[w[2]] # strings[w[2]]
      PROVE  w \in told'
    <2>1. w[2] \in Notifiers
        BY NotifierNames DEF SenseTypeOK
    <2>2. w[2] = Authorization /\ status # strings[Authorization]
        BY <1>4, <1>5, <2>1
    <2> QED
        BY <1>1, <2>2
<1> QED
    BY <1>1, <1>2, <1>4, <1>5

LEMMA StringsStayTyped ==
    ASSUME StringsTyped, NEW n \in Notifiers, NEW v, AssignString(n, v),
           UNCHANGED subscribers,
           \A c \in Channels : /\ n = RangeName(c) => v \in Ranges \cup {""}
                               /\ n = RangeCat(c) => v \in Seq(Ranges)
    PROVE  StringsTyped'
<1>1. /\ DOMAIN strings' = Notifiers /\ strings'[n] = v
      /\ \A m \in Notifiers : m # n => strings'[m] = strings[m]
      /\ told' \in SUBSET subscribers'
    BY StringAssigned DEF AssignString
<1>2. ASSUME NEW c \in Channels
      PROVE  /\ strings'[RangeName(c)] \in Ranges \cup {""}
             /\ strings'[RangeCat(c)] \in Seq(Ranges)
    <2>1. RangeName(c) \in Notifiers /\ RangeCat(c) \in Notifiers
        BY NotifierNames
    <2>2. strings'[RangeName(c)] \in Ranges \cup {""}
        BY <1>1, <2>1 DEF StringsTyped
    <2>3. strings'[RangeCat(c)] \in Seq(Ranges)
        BY <1>1, <2>1 DEF StringsTyped
    <2> QED
        BY <2>2, <2>3
<1> QED
    BY <1>1, <1>2 DEF StringsTyped

\* What is left of the type invariant when the strings are known to be typed.
RestTyped ==
    /\ device \in Devices
    /\ m_RangeList \in [Channels -> Seq(Ranges)]
    /\ m_bAvail \in [Channels -> SUBSET Ranges]
    /\ m_nMMode \in SenseModes
    /\ clamp \in [Channels -> ClampTypes \cup {NoClamp}]
    /\ m_delayedCtrlIos \in [Channels -> Seq(Ranges)]
    /\ polling \in BOOLEAN
    /\ rangeCode \in [Channels -> Nat] /\ measMode \in 0 .. 2
    /\ sourceOn \in SUBSET Channels /\ permission \in BOOLEAN
    /\ faults \in 0 .. MaxFaults /\ toggles \in 0 .. MaxToggles
    /\ unsure \in SUBSET (Channels \cup {Device})
    /\ fresh \in [Channels -> SUBSET Ranges] /\ left \in BOOLEAN

LEMMA TypeInParts ==
    SenseTypeOK <=> /\ StringsTyped /\ RestTyped
                    /\ outdated \in SUBSET subscribers
                    /\ commands \in 0 .. MaxCommands
BY DEF SenseTypeOK, StringsTyped, RestTyped

LEMMA PartsTyped ==
    ASSUME StringsTyped', RestTyped', outdated' \in SUBSET subscribers',
           commands' \in 0 .. MaxCommands
    PROVE  SenseTypeOK'
BY DEF SenseTypeOK, StringsTyped, RestTyped

-----------------------------------------------------------------------------
(* The type invariant.                                                      *)

LEMMA InitTyped == SenseInit => SenseTypeOK
<1> SUFFICES ASSUME SenseInit
             PROVE  SenseTypeOK
    OBVIOUS
<1> DEFINE list == IF device = "com" THEN ComRanges ELSE MtRanges
<1>1. list \in Seq(Ranges)
    BY ListsOfRanges
<1>2. Codes \subseteq Nat
    BY ListsOfRanges DEF Codes
<1>3. /\ m_RangeList = [c \in Channels |-> list]
      /\ m_bAvail = [c \in Channels |-> AvailableRanges(list, "AC")]
    BY DEF SenseInit
<1>4. ToSet(list) \subseteq Ranges
    BY DEF Ranges
<1>5. RestTyped
    <2>1. m_RangeList \in [Channels -> Seq(Ranges)]
        BY <1>1, <1>3
    <2>2. m_bAvail \in [Channels -> SUBSET Ranges]
        BY <1>3, <1>4 DEF AvailableRanges
    <2>3. rangeCode \in [Channels -> Nat]
        BY <1>2 DEF SenseInit
    <2>4. device \in Devices /\ m_nMMode \in SenseModes /\ measMode \in 0 .. 2
        BY DEF SenseInit, SenseModes
    <2>5. clamp \in [Channels -> ClampTypes \cup {NoClamp}]
        BY DEF SenseInit
    <2>6. m_delayedCtrlIos \in [Channels -> Seq(Ranges)]
        BY DEF SenseInit
    <2>7. fresh \in [Channels -> SUBSET Ranges]
        BY DEF SenseInit
    <2>8. unsure \in SUBSET (Channels \cup {Device}) /\ sourceOn \in SUBSET Channels
        BY DEF SenseInit
    <2>9. polling \in BOOLEAN /\ permission \in BOOLEAN /\ left \in BOOLEAN
        BY Zenon DEF SenseInit
    <2>10. MaxFaults \in Nat /\ MaxToggles \in Nat
        BY SenseAssumption
    <2>11. faults \in 0 .. MaxFaults /\ toggles \in 0 .. MaxToggles
        BY <2>10 DEF SenseInit
    <2> QED
        BY <2>1, <2>2, <2>3, <2>4, <2>5, <2>6, <2>7, <2>8, <2>9, <2>11 DEF RestTyped
<1>6. StringsTyped
    <2>1. strings = [n \in Notifiers |->
                       CASE n[1] = "range" ->
                              StartedWith(device, list, rangeCode[n[2]], measMode)
                         [] n[1] = "catalog" -> list
                         [] n = Mode -> "AC"
                         [] n = Authorization -> FALSE
                         [] n = Source -> {}]
        BY DEF SenseInit
    <2>2. ASSUME NEW c \in Channels
          PROVE  /\ strings[RangeName(c)] = StartedWith(device, list, rangeCode[c], measMode)
                 /\ strings[RangeCat(c)] = list
        <3>1. RangeName(c) \in Notifiers /\ RangeCat(c) \in Notifiers
            BY NotifierNames
        <3>2. /\ RangeName(c)[1] = "range" /\ RangeName(c)[2] = c
              /\ RangeCat(c)[1] = "catalog" /\ RangeCat(c)[1] # "range"
              /\ \A n \in {Mode, Authorization, Source} : n[1] \notin {"range", "catalog"}
            BY DEF RangeName, RangeCat, Mode, Authorization, Source
        <3>3. strings[RangeName(c)] = StartedWith(device, list, rangeCode[c], measMode)
            BY <2>1, <3>1, <3>2
        <3>4. strings[RangeCat(c)] = list
            BY <2>1, <3>1, <3>2
        <3> QED
            BY <3>3, <3>4
    <2>3. ASSUME NEW avail, NEW code
          PROVE  Refreshed(list, avail, code, "") \in Ranges \cup {""}
        <3>1. CASE PositionsOf(list, avail, code) = {}
            BY <3>1 DEF Refreshed
        <3> QED
            BY <1>1, <3>1, RefreshedIsListed
    <2>4. ASSUME NEW c \in Channels
          PROVE  StartedWith(device, list, rangeCode[c], measMode) \in Ranges \cup {""}
        <3>1. ReferenceRange(measMode) \in Ranges
            BY ListsOfRanges DEF ReferenceRange
        <3> QED
            BY <2>3, <3>1 DEF StartedWith
    <2> QED
        BY <1>1, <2>1, <2>2, <2>4 DEF SenseInit, StringsTyped
<1> QED
    BY <1>5, <1>6, SenseAssumption, TypeInParts DEF SenseInit

LEMMA SetSenseModeTyped ==
    ASSUME SenseTypeOK, NEW m \in SenseModes, SetSenseMode(m)
    PROVE  StringsTyped' /\ RestTyped'
<1>1. StringsTyped /\ RestTyped
    BY TypeInParts
<1>2. UNCHANGED <<device, subscribers>> /\ Mode \in Notifiers
    BY NotifierNames DEF SetSenseMode, clientVars
<1>3. /\ DOMAIN strings' = Notifiers
      /\ \A n \in Notifiers : n # Mode => strings'[n] = strings[n]
      /\ told' \in SUBSET subscribers'
    BY <1>1, <1>2, StringAssigned DEF SetSenseMode
<1>4. \A c \in Channels : /\ RangeName(c) \in Notifiers /\ RangeName(c) # Mode
                          /\ RangeCat(c) \in Notifiers /\ RangeCat(c) # Mode
    BY NotifierNames DEF RangeName, RangeCat, Mode
<1>5. StringsTyped'
    BY <1>1, <1>2, <1>3, <1>4 DEF StringsTyped
<1>6. measMode' \in 0 .. 2 /\ unsure' \in SUBSET (Channels \cup {Device})
    BY <1>1 DEF SetSenseMode, ChangeSense, Unsure, RestTyped
<1>7. faults' \in 0 .. MaxFaults
    BY <1>1, FaultTyped DEF SetSenseMode, ChangeSense, RestTyped
<1>8. m_bAvail' \in [Channels -> SUBSET Ranges]
    <2>1. \A c \in Channels : ToSet(m_RangeList[c]) \subseteq Ranges
        BY <1>1 DEF RestTyped, ToSet
    <2> QED
        BY <2>1 DEF SetSenseMode, SetMMode, AvailableRanges
<1>9. m_nMMode' \in SenseModes' /\ fresh' \in [Channels -> SUBSET Ranges]
    BY <1>2 DEF SetSenseMode, SenseModes
<1> QED
    BY <1>1, <1>5, <1>6, <1>7, <1>8, <1>9
       DEF SetSenseMode, RestTyped, clientVars

LEMMA SetRangeTyped ==
    ASSUME SenseTypeOK, NEW c \in Channels, NEW r \in Ranges, SetRange(c, r)
    PROVE  StringsTyped' /\ RestTyped'
<1>1. StringsTyped /\ RestTyped /\ RangeName(c) \in Notifiers /\ UNCHANGED <<device, subscribers>>
    BY TypeInParts, NotifierNames DEF SetRange, clientVars
<1>2. SelCode[r] \in Nat
    BY ListsOfRanges
<1>3. StringsTyped'
    <2>1. CASE UNCHANGED <<strings, told>>
        BY <1>1, <2>1 DEF StringsTyped
    <2>2. CASE AssignString(RangeName(c), r)
        BY <1>1, <2>2, StringsStayTyped DEF RangeName, RangeCat
    <2> QED
        BY <2>1, <2>2 DEF SetRange, SetReferenceRange, SetRangeCommon, SetRangeNow
<1>4. faults' \in 0 .. MaxFaults
    BY <1>1, FaultTyped
       DEF SetRange, SetReferenceRange, SetRangeCommon, SetRangeNow, RestTyped
<1>5. unsure' \in SUBSET (Channels \cup {Device}) /\ measMode' \in 0 .. 2
    BY <1>1 DEF SetRange, SetReferenceRange, SetRangeCommon, SetRangeNow, RestTyped,
                Sure, Unsure, MeasMode
<1>6. rangeCode' \in [Channels -> Nat]
    BY <1>1, <1>2
       DEF SetRange, SetRangeCommon, SetRangeNow, RestTyped
<1>7. m_delayedCtrlIos' \in [Channels -> Seq(Ranges)]
    <2>1. Append(m_delayedCtrlIos[c], r) \in Seq(Ranges)
        BY <1>1 DEF RestTyped
    <2> QED
        BY <1>1, <2>1 DEF SetRange, SetRangeCommon, RestTyped
<1> QED
    BY <1>1, <1>3, <1>4, <1>5, <1>6, <1>7 DEF SetRange, RestTyped, clientVars, SenseModes

LEMMA DelayedCmdDoneTyped ==
    ASSUME SenseTypeOK, NEW c \in Channels, DelayedCmdDone(c)
    PROVE  StringsTyped' /\ RestTyped'
<1>1. StringsTyped /\ RestTyped /\ RangeName(c) \in Notifiers /\ UNCHANGED <<device, subscribers>>
    BY TypeInParts, NotifierNames DEF DelayedCmdDone, clientVars
<1> DEFINE r == Head(m_delayedCtrlIos[c])
<1>2. m_delayedCtrlIos[c] \in Seq(Ranges) /\ m_delayedCtrlIos[c] # <<>>
    BY <1>1 DEF DelayedCmdDone, RestTyped
<1>3. r \in Ranges /\ Tail(m_delayedCtrlIos[c]) \in Seq(Ranges)
    BY <1>2
<1>4. SelCode[r] \in Nat
    BY <1>3, ListsOfRanges
<1>5. AssignString(RangeName(c), r)
    BY DEF DelayedCmdDone
<1>6. StringsTyped'
    BY <1>1, <1>3, <1>5, StringsStayTyped DEF RangeName, RangeCat
<1>7. faults' \in 0 .. MaxFaults
    BY <1>1, FaultTyped DEF DelayedCmdDone, RestTyped
<1>8. unsure' \in SUBSET (Channels \cup {Device})
    BY <1>1 DEF DelayedCmdDone, RestTyped, Sure, Unsure
<1>9. rangeCode' \in [Channels -> Nat]
    BY <1>1, <1>4 DEF DelayedCmdDone, RestTyped
<1>10. m_delayedCtrlIos' \in [Channels -> Seq(Ranges)]
    BY <1>1, <1>3 DEF DelayedCmdDone, RestTyped
<1> QED
    BY <1>1, <1>6, <1>7, <1>8, <1>9, <1>10
       DEF DelayedCmdDone, RestTyped, clientVars, SenseModes

LEMMA ChangeGeneratorRangeTyped ==
    ASSUME SenseTypeOK, NEW c \in Channels, NEW code \in Codes,
           ChangeGeneratorRange(c, code)
    PROVE  StringsTyped' /\ RestTyped'
<1> DEFINE r == Refreshed(m_RangeList[c], m_bAvail[c], code, strings[RangeName(c)])
<1>1. StringsTyped /\ RestTyped /\ RangeName(c) \in Notifiers /\ UNCHANGED <<device, subscribers>>
    BY TypeInParts, NotifierNames DEF ChangeGeneratorRange, clientVars
<1>2. r \in Ranges \cup {""}
    <2>1. CASE PositionsOf(m_RangeList[c], m_bAvail[c], code) = {}
        BY <1>1, <2>1 DEF Refreshed, StringsTyped
    <2>2. m_RangeList[c] \in Seq(Ranges)
        BY <1>1 DEF RestTyped
    <2> QED
        BY <2>1, <2>2, RefreshedIsListed
<1>3. StringsTyped'
    <2>1. CASE UNCHANGED <<strings, told>>
        BY <1>1, <2>1 DEF StringsTyped
    <2>2. CASE AssignString(RangeName(c), r)
        BY <1>1, <1>2, <2>2, StringsStayTyped DEF RangeName, RangeCat
    <2> QED
        BY <2>1, <2>2 DEF ChangeGeneratorRange
<1>4. faults' \in 0 .. MaxFaults
    BY <1>1, FaultTyped DEF ChangeGeneratorRange, RestTyped
<1>5. unsure' \in SUBSET (Channels \cup {Device})
    BY <1>1 DEF ChangeGeneratorRange, RestTyped, Sure, Unsure
<1>6. rangeCode' \in [Channels -> Nat]
    <2>1. code \in Nat
        BY ListsOfRanges DEF Codes
    <2> QED
        BY <1>1, <2>1 DEF ChangeGeneratorRange, RestTyped
<1> QED
    BY <1>1, <1>3, <1>4, <1>5, <1>6
       DEF ChangeGeneratorRange, RestTyped, serviceVars, clientVars, SenseModes

LEMMA SetSourceOnModesTyped ==
    ASSUME SenseTypeOK, NEW S \in SUBSET Channels, SetSourceOnModes(S)
    PROVE  StringsTyped' /\ RestTyped'
<1>1. StringsTyped /\ RestTyped /\ Source \in Notifiers /\ UNCHANGED <<device, subscribers>>
    BY TypeInParts, NotifierNames DEF SetSourceOnModes, clientVars
<1>2. StringsTyped'
    <2>1. CASE UNCHANGED <<strings, told>>
        BY <1>1, <2>1 DEF StringsTyped
    <2>2. CASE AssignString(Source, S)
        BY <1>1, <2>2, StringsStayTyped DEF RangeName, RangeCat, Source
    <2> QED
        BY <2>1, <2>2 DEF SetSourceOnModes
<1>3. faults' \in 0 .. MaxFaults
    BY <1>1, FaultTyped DEF SetSourceOnModes, RestTyped
<1>4. unsure' \in SUBSET (Channels \cup {Device}) /\ sourceOn' \in SUBSET Channels
    BY <1>1 DEF SetSourceOnModes, RestTyped, Sure, Unsure
<1> QED
    BY <1>1, <1>2, <1>3, <1>4
       DEF SetSourceOnModes, RestTyped, serviceVars, clientVars, SenseModes

LEMMA AddRangeListTyped ==
    ASSUME SenseTypeOK, NEW c \in Channels, NEW t \in ClampTypes, AddRangeList(c, t)
    PROVE  StringsTyped' /\ RestTyped'
<1> DEFINE list == m_RangeList[c] \o RangesOf[t]
<1>1. StringsTyped /\ RestTyped /\ RangeCat(c) \in Notifiers /\ UNCHANGED <<device, subscribers>>
    BY TypeInParts, NotifierNames DEF AddRangeList, clientVars
<1>2. m_RangeList[c] \in Seq(Ranges) /\ RangesOf[t] \in Seq(Ranges)
    BY <1>1, ListsOfRanges DEF RestTyped
<1>3. list \in Seq(Ranges) /\ ToSet(RangesOf[t]) \subseteq Ranges
    BY <1>2 DEF ToSet
<1>4. AssignString(RangeCat(c), list)
    BY DEF AddRangeList, SetCatalog
<1>5. StringsTyped'
    BY <1>1, <1>3, <1>4, StringsStayTyped DEF RangeName, RangeCat
<1>6. m_RangeList' \in [Channels -> Seq(Ranges)] /\ clamp' \in [Channels -> ClampTypes \cup {NoClamp}]
    BY <1>1, <1>3 DEF AddRangeList, RestTyped
<1>7. m_bAvail' \in [Channels -> SUBSET Ranges] /\ fresh' \in [Channels -> SUBSET Ranges]
    BY <1>1, <1>3 DEF AddRangeList, RestTyped
<1> QED
    BY <1>1, <1>5, <1>6, <1>7
       DEF AddRangeList, RestTyped, hardwareVars, clientVars, SenseModes

LEMMA RemoveRangeListTyped ==
    ASSUME SenseTypeOK, NEW c \in Channels, RemoveRangeList(c)
    PROVE  StringsTyped' /\ RestTyped'
<1> DEFINE old == m_RangeList[c]
           staying == {i \in DOMAIN old : old[i] \notin ToSet(RangesOf[clamp[c]])}
<1>1. StringsTyped /\ RestTyped /\ RangeCat(c) \in Notifiers /\ UNCHANGED <<device, subscribers>>
    BY TypeInParts, NotifierNames DEF RemoveRangeList, clientVars
<1>2. old \in Seq(Ranges)
    BY <1>1 DEF RestTyped
<1>3. PICK list \in Kept(old, staying) :
        /\ m_RangeList' = [m_RangeList EXCEPT ![c] = list]
        /\ AssignString(RangeCat(c), list)
    BY DEF RemoveRangeList, SetCatalog
<1>4. list \in Seq(Ranges)
    BY <1>2, <1>3, KeptEntries
<1>5. StringsTyped'
    BY <1>1, <1>3, <1>4, StringsStayTyped DEF RangeName, RangeCat
<1>6. m_RangeList' \in [Channels -> Seq(Ranges)]
    BY <1>1, <1>3, <1>4 DEF RestTyped
<1>7. /\ m_bAvail' \in [Channels -> SUBSET Ranges] /\ fresh' \in [Channels -> SUBSET Ranges]
      /\ clamp' \in [Channels -> ClampTypes \cup {NoClamp}]
    BY <1>1 DEF RemoveRangeList, RestTyped
<1>8. unsure' \in SUBSET (Channels \cup {Device})
    BY <1>1 DEF RemoveRangeList, RestTyped, Unsure
<1> QED
    BY <1>1, <1>5, <1>6, <1>7, <1>8
       DEF RemoveRangeList, RestTyped, hardwareVars, clientVars, SenseModes

\* A step that changes no string but that of the authorization.
LEMMA AuthorizationTyped ==
    ASSUME SenseTypeOK, DOMAIN strings' = Notifiers,
           \A m \in Notifiers : m # Authorization => strings'[m] = strings[m],
           subscribers' \in SUBSET Wanted, told' \in SUBSET subscribers'
    PROVE  StringsTyped'
<1>1. \A c \in Channels : /\ RangeName(c) \in Notifiers /\ RangeName(c) # Authorization
                          /\ RangeCat(c) \in Notifiers /\ RangeCat(c) # Authorization
    BY NotifierNames DEF RangeName, RangeCat, Authorization
<1>2. StringsTyped
    BY TypeInParts
<1> QED
    BY <1>1, <1>2 DEF StringsTyped

LEMMA RegisterNotifierTyped ==
    ASSUME SenseTypeOK, NEW w \in Wanted, RegisterNotifier(w)
    PROVE  /\ StringsTyped' /\ RestTyped'
           /\ TellsChanges
<1>1. /\ StringsTyped /\ RestTyped /\ subscribers' = subscribers \cup {w}
      /\ subscribers \in SUBSET Wanted /\ told \in SUBSET subscribers
    BY TypeInParts DEF RegisterNotifier, StringsTyped
<1>2. CASE w[2] = Authorization
    <2>1. GetAuthorizationStatus(told \cup {w}) /\ told \cup {w} \in SUBSET Wanted
        BY <1>1, <1>2 DEF RegisterNotifier
    <2>2. /\ DOMAIN strings' = Notifiers
          /\ \A m \in Notifiers : m # Authorization => strings'[m] = strings[m]
          /\ told \cup {w} \subseteq told' /\ told' \subseteq told \cup {w} \cup subscribers
          /\ \A v \in subscribers : strings'[v[2]] # strings[v[2]] => v \in told'
          /\ faults' \in 0 .. MaxFaults
        BY <2>1, AuthorizationRead
    <2>3. StringsTyped'
        BY <1>1, <2>2, AuthorizationTyped
    <2>4. polling' = TRUE /\ left' = FALSE
        BY <1>2 DEF RegisterNotifier
    <2>5. TellsChanges
        BY <1>1, <2>2 DEF TellsChanges
    <2>6. polling' \in BOOLEAN /\ left' \in BOOLEAN
        BY <2>4
    <2> QED
        BY <1>1, <2>2, <2>3, <2>5, <2>6
           DEF RegisterNotifier, RestTyped, serviceVars, hardwareVars, SenseModes
<1>3. CASE w[2] # Authorization
    <2>1. told' = told \cup {w} /\ UNCHANGED <<strings, faults, polling, left>>
        BY <1>3 DEF RegisterNotifier
    <2>2. StringsTyped' /\ TellsChanges
        BY <1>1, <2>1 DEF StringsTyped, TellsChanges
    <2> QED
        BY <1>1, <2>1, <2>2
           DEF RegisterNotifier, RestTyped, serviceVars, hardwareVars, SenseModes
<1> QED
    BY <1>2, <1>3

LEMMA RemoveSubscribersTyped ==
    ASSUME SenseTypeOK, NEW c \in Clients, RemoveSubscribers(c)
    PROVE  /\ StringsTyped' /\ RestTyped'
           /\ TellsChanges
<1>1. StringsTyped /\ RestTyped
    BY TypeInParts
<1>2. StringsTyped' /\ TellsChanges
    BY <1>1 DEF RemoveSubscribers, StringsTyped, TellsChanges
<1>3. polling' \in BOOLEAN /\ left' \in BOOLEAN
    BY DEF RemoveSubscribers, OnNotifierUnregistered
<1> QED
    BY <1>1, <1>2, <1>3
       DEF RemoveSubscribers, RestTyped, serviceVars, hardwareVars, SenseModes

LEMMA ReadStringTyped ==
    ASSUME SenseTypeOK, NEW w \in Wanted, ReadString(w)
    PROVE  /\ StringsTyped' /\ RestTyped'
           /\ told \ {w} \subseteq told'
           /\ \A v \in subscribers : strings'[v[2]] # strings[v[2]] => v \in told'
<1>1. /\ StringsTyped /\ RestTyped /\ UNCHANGED subscribers
      /\ subscribers \in SUBSET Wanted /\ told \in SUBSET subscribers
    BY TypeInParts DEF ReadString, StringsTyped
<1>2. CASE w[2] = Authorization
    <2>1. GetAuthorizationStatus(told \ {w}) /\ told \ {w} \in SUBSET Wanted
        BY <1>1, <1>2 DEF ReadString
    <2>2. /\ DOMAIN strings' = Notifiers
          /\ \A m \in Notifiers : m # Authorization => strings'[m] = strings[m]
          /\ told \ {w} \subseteq told' /\ told' \subseteq (told \ {w}) \cup subscribers
          /\ \A v \in subscribers : strings'[v[2]] # strings[v[2]] => v \in told'
          /\ faults' \in 0 .. MaxFaults
        BY <2>1, AuthorizationRead
    <2>3. StringsTyped'
        BY <1>1, <2>2, AuthorizationTyped
    <2> QED
        BY <1>1, <2>2, <2>3 DEF ReadString, RestTyped, serviceVars, hardwareVars, SenseModes
<1>3. CASE w[2] # Authorization
    <2>1. told' = told \ {w} /\ UNCHANGED <<strings, faults>>
        BY <1>3 DEF ReadString
    <2>2. StringsTyped'
        BY <1>1, <2>1 DEF StringsTyped
    <2> QED
        BY <1>1, <2>1, <2>2 DEF ReadString, RestTyped, serviceVars, hardwareVars, SenseModes
<1> QED
    BY <1>2, <1>3

LEMMA PollAuthorizationTyped ==
    ASSUME SenseTypeOK, PollAuthorization
    PROVE  /\ StringsTyped' /\ RestTyped'
           /\ TellsChanges
<1>1. /\ StringsTyped /\ RestTyped /\ UNCHANGED subscribers
      /\ subscribers \in SUBSET Wanted /\ told \in SUBSET subscribers
    BY TypeInParts DEF PollAuthorization, StringsTyped, clientVars
<1>2. GetAuthorizationStatus(told) /\ told \in SUBSET Wanted
    BY <1>1 DEF PollAuthorization, Poll
<1>3. /\ DOMAIN strings' = Notifiers
      /\ \A m \in Notifiers : m # Authorization => strings'[m] = strings[m]
      /\ told \subseteq told' /\ told' \subseteq told \cup subscribers
      /\ \A v \in subscribers : strings'[v[2]] # strings[v[2]] => v \in told'
      /\ faults' \in 0 .. MaxFaults
    BY <1>2, AuthorizationRead
<1>4. StringsTyped'
    BY <1>1, <1>3, AuthorizationTyped
<1>5. TellsChanges
    BY <1>1, <1>3 DEF TellsChanges
<1> QED
    BY <1>1, <1>3, <1>4, <1>5
       DEF PollAuthorization, RestTyped, serviceVars, hardwareVars, clientVars, SenseModes

LEMMA TogglePermissionTyped ==
    ASSUME SenseTypeOK, TogglePermission
    PROVE  /\ StringsTyped' /\ RestTyped'
           /\ TellsChanges
<1>1. StringsTyped /\ RestTyped
    BY TypeInParts
<1>2. StringsTyped' /\ TellsChanges
    BY <1>1 DEF TogglePermission, StringsTyped, TellsChanges, clientVars
<1>3. permission' \in BOOLEAN
    BY DEF TogglePermission
<1>4. toggles' \in 0 .. MaxToggles
    <2>1. toggles \in 0 .. MaxToggles /\ MaxToggles \in Nat
        BY <1>1, SenseAssumption DEF RestTyped
    <2> QED
        BY <2>1 DEF TogglePermission
<1> QED
    BY <1>1, <1>2, <1>3, <1>4
       DEF TogglePermission, RestTyped, serviceVars, clientVars, SenseModes

LEMMA StepTyped ==
    ASSUME SenseTypeOK, SenseNext
    PROVE  SenseTypeOK'
<1>1. CASE Command /\ outdated' = Outdated \cap subscribers'
    <2>1. StringsTyped' /\ RestTyped'
        BY <1>1, SetSenseModeTyped, SetRangeTyped, ChangeGeneratorRangeTyped,
           AddRangeListTyped, RemoveRangeListTyped, SetSourceOnModesTyped,
           RemoveSubscribersTyped DEF Command
    <2>2. commands \in 0 .. MaxCommands /\ MaxCommands \in Nat
        BY SenseAssumption DEF SenseTypeOK
    <2>3. commands' \in 0 .. MaxCommands
        BY <1>1, <2>2 DEF Command
    <2> QED
        BY <1>1, <2>1, <2>3, PartsTyped
<1>2. CASE Other /\ outdated' = Outdated \cap subscribers'
    <2>1. StringsTyped' /\ RestTyped'
        BY <1>2, DelayedCmdDoneTyped, RegisterNotifierTyped, PollAuthorizationTyped,
           TogglePermissionTyped DEF Other
    <2>2. commands' \in 0 .. MaxCommands
        BY <1>2 DEF Other, SenseTypeOK
    <2> QED
        BY <1>2, <2>1, <2>2, PartsTyped
<1>3. ASSUME NEW w \in Wanted, ReadString(w), outdated' = Outdated \ {w},
             UNCHANGED commands
      PROVE  SenseTypeOK'
    <2>1. StringsTyped' /\ RestTyped'
        BY <1>3, ReadStringTyped
    <2>2. UNCHANGED subscribers /\ outdated \in SUBSET subscribers /\ commands \in 0 .. MaxCommands
        BY <1>3 DEF ReadString, SenseTypeOK
    <2>3. outdated' \in SUBSET subscribers'
        BY <1>3, <2>2 DEF Outdated
    <2> QED
        BY <1>3, <2>1, <2>2, <2>3, PartsTyped
<1> QED
    BY <1>1, <1>2, <1>3 DEF SenseNext

LEMMA UnchangedTyped ==
    ASSUME SenseTypeOK, UNCHANGED senseVars
    PROVE  SenseTypeOK'
BY DEF SenseTypeOK, senseVars, serviceVars, hardwareVars, clientVars, SenseModes

\* The service's own variables have the types the code gives them.
THEOREM SenseTypeCorrect == SenseSpec => []SenseTypeOK
<1>1. SenseTypeOK /\ [SenseNext]_senseVars => SenseTypeOK'
    BY StepTyped, UnchangedTyped
<1> QED
    BY <1>1, InitTyped, PTL DEF SenseSpec

-----------------------------------------------------------------------------
(* Which ranges are available.                                              *)

\* What a step leaves to the catalogs and to the changes that wait.
ListsKept == CatalogIsList /\ OnlyDelayedWaits /\ AvailabilityFollowsMode

LEMMA CatalogsUntouched ==
    ASSUME SenseTypeOK, ListsKept, UNCHANGED <<device, m_RangeList, m_bAvail, m_nMMode, fresh>>,
           \A c \in Channels : strings'[RangeCat(c)] = strings[RangeCat(c)],
           \A c \in Channels : m_delayedCtrlIos'[c] # <<>>
                                  => m_delayedCtrlIos[c] # <<>> \/ device = "mtDelayed"
    PROVE  ListsKept'
<1>1. CatalogIsList' /\ OnlyDelayedWaits'
    BY DEF ListsKept, CatalogIsList, OnlyDelayedWaits
<1>2. AvailabilityFollowsMode'
    BY DEF ListsKept, AvailabilityFollowsMode, AvailableRanges
<1> QED
    BY <1>1, <1>2 DEF ListsKept

LEMMA OtherStringAssigned ==
    ASSUME SenseTypeOK, NEW n \in Notifiers, NEW v,
           AssignString(n, v) \/ UNCHANGED <<strings, told>>, UNCHANGED subscribers
    PROVE  /\ \A m \in Notifiers : m # n => strings'[m] = strings[m]
           /\ TellsChanges
<1>1. StringsTyped
    BY TypeInParts
<1>2. CASE UNCHANGED <<strings, told>>
    BY <1>2 DEF TellsChanges
<1> QED
    BY <1>1, <1>2, StringAssigned DEF AssignString

LEMMA SetSenseModeLists ==
    ASSUME SenseTypeOK, ListsKept, NEW m \in SenseModes, SetSenseMode(m)
    PROVE  ListsKept'
<1>1. StringsTyped /\ Mode \in Notifiers /\ UNCHANGED subscribers
    BY TypeInParts, NotifierNames DEF SetSenseMode, clientVars
<1>2. \A n \in Notifiers : n # Mode => strings'[n] = strings[n]
    BY <1>1, StringAssigned DEF SetSenseMode
<1>3. \A c \in Channels : strings'[RangeCat(c)] = strings[RangeCat(c)]
    BY <1>2, NotifierNames DEF RangeCat, Mode
<1>4. CatalogIsList' /\ OnlyDelayedWaits'
    BY <1>3 DEF ListsKept, CatalogIsList, OnlyDelayedWaits, SetSenseMode
<1>5. \A c \in Channels : m_bAvail'[c] = AvailableRanges(m_RangeList'[c], m_nMMode')
    BY DEF SetSenseMode, SetMMode
<1>6. AvailabilityFollowsMode'
    BY <1>5 DEF AvailabilityFollowsMode, AvailableRanges
<1> QED
    BY <1>4, <1>6 DEF ListsKept

LEMMA AddRangeListLists ==
    ASSUME SenseTypeOK, ListsKept, NEW c \in Channels, NEW t \in ClampTypes,
           AddRangeList(c, t)
    PROVE  ListsKept'
<1> DEFINE list == m_RangeList[c] \o RangesOf[t]
           new == ToSet(RangesOf[t])
<1>1. /\ m_RangeList \in [Channels -> Seq(Ranges)] /\ RangesOf[t] \in Seq(Ranges)
      /\ m_bAvail \in [Channels -> SUBSET Ranges] /\ fresh \in [Channels -> SUBSET Ranges]
    BY ListsOfRanges DEF SenseTypeOK
<1>2. ToSet(list) = ToSet(m_RangeList[c]) \cup new
    BY <1>1, ToSetOfConcatenation
<1>3. /\ m_RangeList' = [m_RangeList EXCEPT ![c] = list]
      /\ m_bAvail' = [m_bAvail EXCEPT ![c] = @ \cup new]
      /\ fresh' = [fresh EXCEPT ![c] = @ \cup new]
      /\ AssignString(RangeCat(c), list)
      /\ UNCHANGED <<device, m_nMMode, m_delayedCtrlIos, subscribers>>
    BY DEF AddRangeList, SetCatalog, clientVars
<1>4. CatalogIsList'
    <2>1. StringsTyped /\ RangeCat(c) \in Notifiers
        BY TypeInParts, NotifierNames
    <2>2. /\ strings'[RangeCat(c)] = list
          /\ \A m \in Notifiers : m # RangeCat(c) => strings'[m] = strings[m]
        BY <1>3, <2>1, StringAssigned DEF AssignString
    <2>3. \A d \in Channels : d # c => RangeCat(d) \in Notifiers /\ RangeCat(d) # RangeCat(c)
        BY NotifierNames DEF RangeCat
    <2> QED
        BY <1>1, <1>3, <2>2, <2>3 DEF ListsKept, CatalogIsList
<1>5. OnlyDelayedWaits'
    BY <1>3 DEF ListsKept, OnlyDelayedWaits
<1>6. AvailabilityFollowsMode'
    <2>1. ASSUME NEW d \in Channels
          PROVE  /\ m_bAvail'[d] \subseteq ToSet(m_RangeList'[d])
                 /\ m_bAvail'[d] \ fresh'[d] =
                        AvailableRanges(m_RangeList'[d], m_nMMode') \ fresh'[d]
        <3>1. /\ m_bAvail[d] \subseteq ToSet(m_RangeList[d])
              /\ m_bAvail[d] \ fresh[d] =
                     AvailableRanges(m_RangeList[d], m_nMMode) \ fresh[d]
            BY DEF ListsKept, AvailabilityFollowsMode
        <3>2. CASE d # c
            BY <1>1, <1>3, <3>1, <3>2
        <3>3. CASE d = c
            <4>1. /\ m_bAvail'[d] = m_bAvail[d] \cup new /\ fresh'[d] = fresh[d] \cup new
                  /\ m_RangeList'[d] = list
                BY <1>1, <1>3, <3>3
            <4>2. m_bAvail'[d] \subseteq ToSet(list)
                BY <1>2, <3>1, <3>3, <4>1
            <4>3. AvailableRanges(list, m_nMMode) \ (fresh[d] \cup new)
                     = AvailableRanges(m_RangeList[d], m_nMMode) \ (fresh[d] \cup new)
                BY <1>2, <3>3 DEF AvailableRanges
            <4> QED
                BY <1>3, <3>1, <4>1, <4>2, <4>3
        <3> QED
            BY <3>2, <3>3
    <2> QED
        BY <2>1 DEF AvailabilityFollowsMode, AvailableRanges
<1> QED
    BY <1>4, <1>5, <1>6 DEF ListsKept

LEMMA RemoveRangeListLists ==
    ASSUME SenseTypeOK, ListsKept, NEW c \in Channels, RemoveRangeList(c)
    PROVE  ListsKept'
<1> DEFINE old == m_RangeList[c]
           gone == ToSet(RangesOf[clamp[c]])
           staying == {i \in DOMAIN old : old[i] \notin gone}
<1>1. /\ m_RangeList \in [Channels -> Seq(Ranges)] /\ old \in Seq(Ranges)
      /\ m_bAvail \in [Channels -> SUBSET Ranges] /\ fresh \in [Channels -> SUBSET Ranges]
    BY DEF SenseTypeOK
<1>2. PICK list \in Kept(old, staying) :
        /\ m_RangeList' = [m_RangeList EXCEPT ![c] = list]
        /\ AssignString(RangeCat(c), list)
    BY DEF RemoveRangeList, SetCatalog
<1>3. ToSet(list) = ToSet(old) \ gone
    <2>1. ToSet(list) = {old[i] : i \in staying}
        BY <1>1, <1>2, KeptEntries
    <2>2. {old[i] : i \in staying} = {old[i] : i \in DOMAIN old} \ gone
        OBVIOUS
    <2> QED
        BY <2>1, <2>2 DEF ToSet
<1>4. /\ m_bAvail' = [m_bAvail EXCEPT ![c] = @ \ gone]
      /\ fresh' = [fresh EXCEPT ![c] = @ \ gone]
      /\ UNCHANGED <<device, m_nMMode, m_delayedCtrlIos, subscribers>>
    BY DEF RemoveRangeList, clientVars
<1>5. CatalogIsList'
    <2>1. StringsTyped /\ RangeCat(c) \in Notifiers
        BY TypeInParts, NotifierNames
    <2>2. /\ strings'[RangeCat(c)] = list
          /\ \A m \in Notifiers : m # RangeCat(c) => strings'[m] = strings[m]
        BY <1>2, <1>4, <2>1, StringAssigned DEF AssignString
    <2>3. \A d \in Channels : d # c => RangeCat(d) \in Notifiers /\ RangeCat(d) # RangeCat(c)
        BY NotifierNames DEF RangeCat
    <2> QED
        BY <1>1, <1>2, <2>2, <2>3 DEF ListsKept, CatalogIsList
<1>6. OnlyDelayedWaits'
    BY <1>4 DEF ListsKept, OnlyDelayedWaits
<1>7. AvailabilityFollowsMode'
    <2>1. ASSUME NEW d \in Channels
          PROVE  /\ m_bAvail'[d] \subseteq ToSet(m_RangeList'[d])
                 /\ m_bAvail'[d] \ fresh'[d] =
                        AvailableRanges(m_RangeList'[d], m_nMMode') \ fresh'[d]
        <3>1. /\ m_bAvail[d] \subseteq ToSet(m_RangeList[d])
              /\ m_bAvail[d] \ fresh[d] =
                     AvailableRanges(m_RangeList[d], m_nMMode) \ fresh[d]
            BY DEF ListsKept, AvailabilityFollowsMode
        <3>2. CASE d # c
            BY <1>1, <1>2, <1>4, <3>1, <3>2
        <3>3. CASE d = c
            <4>1. /\ m_bAvail'[d] = m_bAvail[d] \ gone /\ fresh'[d] = fresh[d] \ gone
                  /\ m_RangeList'[d] = list
                BY <1>1, <1>2, <1>4, <3>3
            <4>2. m_bAvail'[d] \subseteq ToSet(list)
                BY <1>3, <3>1, <3>3, <4>1
            <4>3. AvailableRanges(list, m_nMMode)
                     = AvailableRanges(m_RangeList[d], m_nMMode) \ gone
                BY <1>3, <3>3 DEF AvailableRanges
            <4> HIDE DEF gone
            <4> QED
                BY <1>4, <3>1, <4>1, <4>2, <4>3
        <3> QED
            BY <3>2, <3>3
    <2> QED
        BY <2>1 DEF AvailabilityFollowsMode, AvailableRanges
<1> QED
    BY <1>5, <1>6, <1>7 DEF ListsKept

\* The steps that assign a range or the source and leave the lists alone.
LEMMA AssignmentLists ==
    ASSUME SenseTypeOK, ListsKept,
           \/ \E c \in Channels, r \in Ranges : SetRange(c, r)
           \/ \E c \in Channels : DelayedCmdDone(c)
           \/ \E c \in Channels, code \in Codes : ChangeGeneratorRange(c, code)
           \/ \E S \in SUBSET Channels : SetSourceOnModes(S)
    PROVE  ListsKept' /\ TellsChanges /\ UNCHANGED <<m_bAvail, subscribers>>
<1>1. ASSUME NEW n \in Notifiers, NEW v, \A c \in Channels : n # RangeCat(c),
             AssignString(n, v) \/ UNCHANGED <<strings, told>>,
             UNCHANGED <<device, m_RangeList, m_bAvail, m_nMMode, fresh, subscribers>>,
             \A c \in Channels : m_delayedCtrlIos'[c] # <<>>
                                  => m_delayedCtrlIos[c] # <<>> \/ device = "mtDelayed"
      PROVE  ListsKept' /\ TellsChanges
    <2>1. /\ \A m \in Notifiers : m # n => strings'[m] = strings[m]
          /\ TellsChanges
        BY <1>1, OtherStringAssigned
    <2>2. \A c \in Channels : strings'[RangeCat(c)] = strings[RangeCat(c)]
        BY <1>1, <2>1, NotifierNames
    <2> QED
        BY <1>1, <2>1, <2>2, CatalogsUntouched
<1>2. ASSUME NEW c \in Channels
      PROVE  RangeName(c) \in Notifiers /\ \A d \in Channels : RangeName(c) # RangeCat(d)
    BY NotifierNames DEF RangeName, RangeCat
<1>3. Source \in Notifiers /\ \A d \in Channels : Source # RangeCat(d)
    BY NotifierNames DEF Source, RangeCat
<1>4. m_delayedCtrlIos \in [Channels -> Seq(Ranges)]
    BY DEF SenseTypeOK
<1>5. ASSUME NEW c \in Channels, NEW r \in Ranges, SetRange(c, r)
      PROVE  ListsKept' /\ TellsChanges /\ UNCHANGED <<m_bAvail, subscribers>>
    <2>1. AssignString(RangeName(c), r) \/ UNCHANGED <<strings, told>>
        BY <1>5 DEF SetRange, SetReferenceRange, SetRangeCommon, SetRangeNow
    <2>2. UNCHANGED <<device, m_RangeList, m_bAvail, m_nMMode, fresh, subscribers>>
        BY <1>5 DEF SetRange, clientVars
    <2>3. \A d \in Channels : m_delayedCtrlIos'[d] # <<>>
                                  => m_delayedCtrlIos[d] # <<>> \/ device = "mtDelayed"
        BY <1>4, <1>5 DEF SetRange, SetRangeCommon
    <2> QED
        BY <1>1, <1>2, <2>1, <2>2, <2>3
<1>6. ASSUME NEW c \in Channels, DelayedCmdDone(c)
      PROVE  ListsKept' /\ TellsChanges /\ UNCHANGED <<m_bAvail, subscribers>>
    <2> DEFINE r == Head(m_delayedCtrlIos[c])
    <2>1. AssignString(RangeName(c), r)
        BY <1>6 DEF DelayedCmdDone
    <2>2. UNCHANGED <<device, m_RangeList, m_bAvail, m_nMMode, fresh, subscribers>>
        BY <1>6 DEF DelayedCmdDone, clientVars
    <2>3. \A d \in Channels : m_delayedCtrlIos'[d] # <<>>
                                  => m_delayedCtrlIos[d] # <<>> \/ device = "mtDelayed"
        BY <1>4, <1>6 DEF DelayedCmdDone
    <2> QED
        BY <1>1, <1>2, <2>1, <2>2, <2>3
<1>7. ASSUME NEW c \in Channels, NEW code \in Codes, ChangeGeneratorRange(c, code)
      PROVE  ListsKept' /\ TellsChanges /\ UNCHANGED <<m_bAvail, subscribers>>
    <2> DEFINE r == Refreshed(m_RangeList[c], m_bAvail[c], code, strings[RangeName(c)])
    <2>1. AssignString(RangeName(c), r) \/ UNCHANGED <<strings, told>>
        BY <1>7 DEF ChangeGeneratorRange
    <2>2. UNCHANGED <<device, m_RangeList, m_bAvail, m_nMMode, fresh, subscribers,
                      m_delayedCtrlIos>>
        BY <1>7 DEF ChangeGeneratorRange, serviceVars, clientVars
    <2> QED
        BY <1>1, <1>2, <2>1, <2>2
<1>8. ASSUME NEW S \in SUBSET Channels, SetSourceOnModes(S)
      PROVE  ListsKept' /\ TellsChanges /\ UNCHANGED <<m_bAvail, subscribers>>
    <2>1. AssignString(Source, S) \/ UNCHANGED <<strings, told>>
        BY <1>8 DEF SetSourceOnModes
    <2>2. UNCHANGED <<device, m_RangeList, m_bAvail, m_nMMode, fresh, subscribers,
                      m_delayedCtrlIos>>
        BY <1>8 DEF SetSourceOnModes, serviceVars, clientVars
    <2> QED
        BY <1>1, <1>3, <2>1, <2>2
<1> QED
    BY <1>5, <1>6, <1>7, <1>8

\* The steps that assign at most the string of the authorization.
LEMMA AuthorizationOnly ==
    ASSUME SenseTypeOK,
           \/ \E w \in Wanted : RegisterNotifier(w) \/ ReadString(w)
           \/ \E c \in Clients : RemoveSubscribers(c)
           \/ PollAuthorization \/ TogglePermission
    PROVE  /\ \A m \in Notifiers : m # Authorization => strings'[m] = strings[m]
           /\ UNCHANGED <<device, serviceVars, rangeCode, measMode, sourceOn, fresh, unsure>>
<1>1. /\ subscribers \in SUBSET Wanted /\ told \in SUBSET subscribers
    BY DEF SenseTypeOK
<1>2. UNCHANGED <<device, serviceVars, rangeCode, measMode, sourceOn, fresh, unsure>>
    BY DEF RegisterNotifier, ReadString, RemoveSubscribers, PollAuthorization,
           TogglePermission, hardwareVars
<1>3. \/ UNCHANGED strings
      \/ \E t \in SUBSET Wanted : GetAuthorizationStatus(t)
    <2>1. ASSUME NEW w \in Wanted, RegisterNotifier(w)
          PROVE  \/ UNCHANGED strings
                 \/ GetAuthorizationStatus(told \cup {w}) /\ told \cup {w} \in SUBSET Wanted
        BY <1>1, <2>1 DEF RegisterNotifier
    <2>2. ASSUME NEW w \in Wanted, ReadString(w)
          PROVE  \/ UNCHANGED strings
                 \/ GetAuthorizationStatus(told \ {w}) /\ told \ {w} \in SUBSET Wanted
        BY <1>1, <2>2 DEF ReadString
    <2>3. ASSUME PollAuthorization
          PROVE  GetAuthorizationStatus(told) /\ told \in SUBSET Wanted
        BY <1>1, <2>3 DEF PollAuthorization, Poll
    <2>4. ASSUME TogglePermission \/ \E c \in Clients : RemoveSubscribers(c)
          PROVE  UNCHANGED strings
        BY <2>4 DEF TogglePermission, RemoveSubscribers
    <2> QED
        BY <2>1, <2>2, <2>3, <2>4
<1> QED
    BY <1>2, <1>3, AuthorizationRead

LEMMA AuthorizationLists ==
    ASSUME SenseTypeOK, ListsKept,
           \/ \E w \in Wanted : RegisterNotifier(w) \/ ReadString(w)
           \/ \E c \in Clients : RemoveSubscribers(c)
           \/ PollAuthorization \/ TogglePermission
    PROVE  ListsKept'
<1>1. \A m \in Notifiers : m # Authorization => strings'[m] = strings[m]
    BY AuthorizationOnly
<1>2. \A c \in Channels : strings'[RangeCat(c)] = strings[RangeCat(c)]
    BY <1>1, NotifierNames DEF RangeCat, Authorization
<1> QED
    BY <1>2, AuthorizationOnly, CatalogsUntouched DEF serviceVars

LEMMA StepLists ==
    ASSUME SenseTypeOK, ListsKept, SenseNext
    PROVE  ListsKept'
<1>1. {{}, Channels} \subseteq SUBSET Channels
    OBVIOUS
<1> QED
    BY <1>1, SetSenseModeLists, AddRangeListLists, RemoveRangeListLists, AssignmentLists,
       AuthorizationLists DEF SenseNext, Command, Other

LEMMA InitLists ==
    ASSUME SenseInit
    PROVE  ListsKept
<1>1. CatalogIsList
    <2>1. ASSUME NEW c \in Channels
          PROVE  /\ RangeCat(c) \in Notifiers
                 /\ RangeCat(c)[1] = "catalog" /\ RangeCat(c)[1] # "range"
                 /\ RangeCat(c) \notin {Mode, Authorization, Source}
        BY NotifierNames DEF RangeCat, Mode, Authorization, Source
    <2>2. \A c \in Channels : strings[RangeCat(c)] = m_RangeList[c]
        BY <2>1 DEF SenseInit
    <2> QED
        BY <2>2 DEF CatalogIsList
<1>2. OnlyDelayedWaits
    BY DEF SenseInit, OnlyDelayedWaits
<1>3. AvailabilityFollowsMode
    BY DEF SenseInit, AvailabilityFollowsMode, AvailableRanges
<1> QED
    BY <1>1, <1>2, <1>3 DEF ListsKept

LEMMA ListsStay ==
    SenseTypeOK /\ ListsKept /\ [SenseNext]_senseVars => ListsKept'
<1>1. ASSUME ListsKept, UNCHANGED senseVars
      PROVE  ListsKept'
    BY <1>1 DEF ListsKept, CatalogIsList, OnlyDelayedWaits, AvailabilityFollowsMode,
                AvailableRanges, senseVars, serviceVars
<1> QED
    BY <1>1, StepLists

\* Which ranges can be set follows the mode, for any ranges and clamps.
THEOREM AvailabilityAlways == SenseSpec => []AvailabilityFollowsMode
<1>1. SenseTypeOK /\ ListsKept /\ [SenseNext]_senseVars => ListsKept'
    BY ListsStay
<1>2. SenseInit => ListsKept
    BY InitLists
<1>3. ListsKept => AvailabilityFollowsMode
    BY DEF ListsKept
<1> QED
    BY <1>1, <1>2, <1>3, SenseTypeCorrect, PTL DEF SenseSpec

-----------------------------------------------------------------------------
(* What clients know.                                                       *)

\* Those to whom a step makes something different are told.
TellsNews ==
    /\ told \cap subscribers' \subseteq told'
    /\ \A w \in subscribers \cap subscribers' :
            Current(w[2])' # Current(w[2]) => w \in told'

LEMMA NewsAreStrings ==
    ASSUME TellsChanges, UNCHANGED m_bAvail
    PROVE  TellsNews
BY DEF TellsChanges, TellsNews, Current

LEMMA SetSenseModeTells ==
    ASSUME SenseTypeOK, NEW m \in SenseModes, SetSenseMode(m)
    PROVE  TellsNews
<1>1. StringsTyped /\ Mode \in Notifiers /\ UNCHANGED subscribers
    BY TypeInParts, NotifierNames DEF SetSenseMode, clientVars
<1>2. /\ told \subseteq told'
      /\ \A w \in subscribers : strings'[w[2]] # strings[w[2]] => w \in told'
      /\ \A w \in subscribers :
            w[2] \in {RangeCat(c) : c \in Channels} => w \in told'
    BY <1>1, StringAssigned DEF SetSenseMode, TellsChanges
<1>3. ASSUME NEW w \in subscribers, w[2][1] = "catalog"
      PROVE  w \in told'
    <2>1. w[2] \in Notifiers
        BY <1>1, NotifierNames DEF StringsTyped
    <2>2. w[2] \in {RangeCat(c) : c \in Channels}
        BY <1>3, <2>1, NotifierNames
    <2> QED
        BY <1>2, <2>2
<1> QED
    BY <1>1, <1>2, <1>3 DEF TellsNews, Current

LEMMA ClampTells ==
    ASSUME SenseTypeOK, CatalogIsList, NEW c \in Channels, NEW list,
           AssignString(RangeCat(c), list), UNCHANGED subscribers,
           \A d \in Channels \ {c} : m_bAvail'[d] = m_bAvail[d],
           m_bAvail'[c] # m_bAvail[c] => list # m_RangeList[c]
    PROVE  TellsNews
<1>1. StringsTyped /\ RangeCat(c) \in Notifiers
    BY TypeInParts, NotifierNames
<1>2. strings'[RangeCat(c)] = list /\ TellsChanges
    BY <1>1, StringAssigned DEF AssignString
<1>3. ASSUME NEW w \in subscribers, w[2][1] = "catalog", m_bAvail'[w[2][2]] # m_bAvail[w[2][2]]
      PROVE  w \in told'
    <2>1. w[2] \in Notifiers
        BY <1>1, NotifierNames DEF StringsTyped
    <2>2. w[2][2] \in Channels /\ w[2] = RangeCat(w[2][2])
        BY <1>3, <2>1, NotifierNames
    <2>3. w[2] = RangeCat(c) /\ m_bAvail'[c] # m_bAvail[c]
        BY <1>3, <2>2
    <2>4. strings'[w[2]] # strings[w[2]]
        BY <1>2, <2>3 DEF CatalogIsList
    <2> QED
        BY <1>2, <2>4 DEF TellsChanges
<1> QED
    BY <1>2, <1>3 DEF TellsChanges, TellsNews, Current

LEMMA AddRangeListTells ==
    ASSUME SenseTypeOK, ListsKept, NEW c \in Channels, NEW t \in ClampTypes,
           AddRangeList(c, t)
    PROVE  TellsNews
<1> DEFINE list == m_RangeList[c] \o RangesOf[t]
           new == ToSet(RangesOf[t])
<1>1. /\ m_RangeList[c] \in Seq(Ranges) /\ RangesOf[t] \in Seq(Ranges)
      /\ m_bAvail \in [Channels -> SUBSET Ranges]
    BY ListsOfRanges DEF SenseTypeOK
<1>2. /\ AssignString(RangeCat(c), list) /\ UNCHANGED subscribers
      /\ m_bAvail' = [m_bAvail EXCEPT ![c] = @ \cup new]
    BY DEF AddRangeList, SetCatalog, clientVars
<1>3. ASSUME m_bAvail'[c] # m_bAvail[c]
      PROVE  list # m_RangeList[c]
    <2>1. new # {}
        BY <1>1, <1>2, <1>3
    <2> QED
        BY <1>1, <2>1, ConcatenationDiffers
<1>4. \A d \in Channels \ {c} : m_bAvail'[d] = m_bAvail[d]
    BY <1>1, <1>2
<1> QED
    BY <1>2, <1>3, <1>4, ClampTells DEF ListsKept

LEMMA RemoveRangeListTells ==
    ASSUME SenseTypeOK, ListsKept, NEW c \in Channels, RemoveRangeList(c)
    PROVE  TellsNews
<1> DEFINE old == m_RangeList[c]
           gone == ToSet(RangesOf[clamp[c]])
           staying == {i \in DOMAIN old : old[i] \notin gone}
<1>1. old \in Seq(Ranges) /\ m_bAvail \in [Channels -> SUBSET Ranges]
    BY DEF SenseTypeOK
<1>2. PICK list \in Kept(old, staying) : AssignString(RangeCat(c), list)
    BY DEF RemoveRangeList, SetCatalog
<1>3. m_bAvail' = [m_bAvail EXCEPT ![c] = @ \ gone] /\ UNCHANGED subscribers
    BY DEF RemoveRangeList, clientVars
<1>4. ASSUME m_bAvail'[c] # m_bAvail[c]
      PROVE  list # old
    <2>1. PICK r \in m_bAvail[c] : r \in gone
        BY <1>1, <1>3, <1>4
    <2>2. r \in ToSet(old)
        BY <2>1 DEF ListsKept, AvailabilityFollowsMode
    <2>3. ToSet(list) = {old[i] : i \in staying}
        BY <1>1, <1>2, KeptEntries
    <2>4. r \notin ToSet(list)
        BY <2>1, <2>3
    <2> QED
        BY <2>2, <2>4
<1>5. \A d \in Channels \ {c} : m_bAvail'[d] = m_bAvail[d]
    BY <1>1, <1>3
<1> QED
    BY <1>2, <1>3, <1>4, <1>5, ClampTells DEF ListsKept

LEMMA StepTells ==
    ASSUME SenseTypeOK, ListsKept, Command \/ Other
    PROVE  TellsNews
<1>1. {{}, Channels} \subseteq SUBSET Channels
    OBVIOUS
<1>2. ASSUME \/ \E c \in Channels, r \in Ranges : SetRange(c, r)
             \/ \E c \in Channels : DelayedCmdDone(c)
             \/ \E c \in Channels, code \in Codes : ChangeGeneratorRange(c, code)
             \/ \E S \in SUBSET Channels : SetSourceOnModes(S)
      PROVE  TellsNews
    BY <1>2, AssignmentLists, NewsAreStrings
<1>3. ASSUME \/ \E w \in Wanted : RegisterNotifier(w)
             \/ \E c \in Clients : RemoveSubscribers(c)
             \/ PollAuthorization \/ TogglePermission
      PROVE  TellsNews
    <2>1. TellsChanges
        BY <1>3, RegisterNotifierTyped, RemoveSubscribersTyped, PollAuthorizationTyped,
           TogglePermissionTyped
    <2>2. UNCHANGED m_bAvail
        BY <1>3, AuthorizationOnly DEF serviceVars
    <2> QED
        BY <2>1, <2>2, NewsAreStrings
<1> QED
    BY <1>1, <1>2, <1>3, SetSenseModeTells, AddRangeListTells, RemoveRangeListTells
       DEF Command, Other

LEMMA StepKnows ==
    ASSUME SenseTypeOK, ListsKept, WhoHasReadKnows, SenseNext
    PROVE  WhoHasReadKnows'
<1>1. ASSUME Command \/ Other, outdated' = Outdated \cap subscribers'
      PROVE  WhoHasReadKnows'
    <2>1. TellsNews /\ told \in SUBSET subscribers
        BY <1>1, StepTells DEF SenseTypeOK
    <2>2. ASSUME NEW w \in outdated'
          PROVE  w \in told'
        <3>1. w \in Outdated /\ w \in subscribers'
            BY <1>1, <2>2
        <3>2. CASE w \in outdated
            BY <2>1, <3>1, <3>2 DEF WhoHasReadKnows, TellsNews
        <3>3. CASE w \in subscribers /\ Current(w[2])' # Current(w[2])
            BY <2>1, <3>1, <3>3 DEF TellsNews
        <3> QED
            BY <3>1, <3>2, <3>3 DEF Outdated
    <2> QED
        BY <2>2 DEF WhoHasReadKnows
<1>2. ASSUME NEW w \in Wanted, ReadString(w), outdated' = Outdated \ {w}
      PROVE  WhoHasReadKnows'
    <2>1. /\ told \ {w} \subseteq told'
          /\ \A v \in subscribers : strings'[v[2]] # strings[v[2]] => v \in told'
        BY <1>2, ReadStringTyped
    <2>2. UNCHANGED m_bAvail
        BY <1>2 DEF ReadString, serviceVars
    <2>3. \A v \in subscribers : Current(v[2])' # Current(v[2]) => v \in told'
        BY <2>1, <2>2 DEF Current
    <2> QED
        BY <1>2, <2>1, <2>3 DEF WhoHasReadKnows, Outdated
<1> QED
    BY <1>1, <1>2 DEF SenseNext

\* Nothing a client has registered for changes unannounced, for any channels,
\* clamps and registrations.
THEOREM WhoHasReadKnowsAlways == SenseSpec => []WhoHasReadKnows
<1>1. SenseTypeOK /\ ListsKept /\ WhoHasReadKnows /\ [SenseNext]_senseVars
         => WhoHasReadKnows'
    <2>1. ASSUME WhoHasReadKnows, UNCHANGED senseVars
          PROVE  WhoHasReadKnows'
        BY <2>1 DEF WhoHasReadKnows, senseVars
    <2> QED
        BY <2>1, StepKnows
<1>2. SenseTypeOK /\ ListsKept /\ [SenseNext]_senseVars => ListsKept'
    BY ListsStay
<1>3. SenseInit => ListsKept /\ WhoHasReadKnows
    BY InitLists DEF SenseInit, WhoHasReadKnows
<1> QED
    BY <1>1, <1>2, <1>3, SenseTypeCorrect, PTL DEF SenseSpec

-----------------------------------------------------------------------------
(* What channels announce.                                                  *)

LEMMA ChannelStays ==
    ASSUME NEW c \in Channels, Announced(c),
           strings'[RangeName(c)] = strings[RangeName(c)],
           strings[RangeName(c)] \in ToSet(m_RangeList'[c]),
           rangeCode'[c] = rangeCode[c],
           \/ UNCHANGED <<measMode, m_nMMode>>
           \/ m_nMMode # "REF" /\ m_nMMode' # "REF"
    PROVE  Announced(c)'
BY DEF Announced

LEMMA ReferenceIsCom ==
    ASSUME SenseTypeOK, device # "com"
    PROVE  m_nMMode # "REF" /\ \A m \in SenseModes : m # "REF"
BY DEF SenseTypeOK, SenseModes

LEMMA OtherRangeNames ==
    ASSUME NEW c \in Channels
    PROVE  /\ RangeName(c) \in Notifiers /\ Source \in Notifiers
           /\ Source # RangeName(c) /\ Source # RangeCat(c) /\ Source # Mode
           /\ Source # Authorization
           /\ RangeName(c) # Mode /\ RangeName(c) # Authorization
           /\ \A d \in Channels : RangeName(c) # RangeCat(d)
           /\ \A d \in Channels : d # c => RangeName(d) # RangeName(c)
BY NotifierNames DEF RangeName, RangeCat, Source, Mode, Authorization

LEMMA SetSenseModeAnnounced ==
    ASSUME SenseTypeOK, AnnouncedIsSet, NEW m \in SenseModes, SetSenseMode(m)
    PROVE  AnnouncedIsSet'
<1>1. StringsTyped /\ Mode \in Notifiers /\ UNCHANGED subscribers
    BY TypeInParts, NotifierNames DEF SetSenseMode, clientVars
<1>2. \A n \in Notifiers : n # Mode => strings'[n] = strings[n]
    BY <1>1, StringAssigned DEF SetSenseMode
<1>3. unsure \subseteq unsure'
    BY DEF SetSenseMode, ChangeSense, Unsure
<1>4. Device \notin unsure' => strings'[Source] = sourceOn'
    <2>1. Source \in Notifiers /\ Source # Mode
        BY NotifierNames DEF Source, Mode
    <2> QED
        BY <1>2, <1>3, <2>1 DEF SetSenseMode, AnnouncedIsSet
<1>5. ASSUME NEW c \in Channels \ unsure'
      PROVE  Announced(c)'
    <2>1. device # "com"
        BY <1>5 DEF SetSenseMode, ChangeSense, Unsure
    <2>2. m_nMMode # "REF" /\ m_nMMode' # "REF"
        BY <2>1, ReferenceIsCom DEF SetSenseMode
    <2>3. Announced(c)
        BY <1>3, <1>5 DEF AnnouncedIsSet
    <2>4. strings'[RangeName(c)] = strings[RangeName(c)]
        BY <1>2, <1>5, OtherRangeNames
    <2>5. UNCHANGED <<m_RangeList, rangeCode>>
        BY DEF SetSenseMode
    <2>6. strings[RangeName(c)] \in ToSet(m_RangeList'[c])
        BY <2>3, <2>5 DEF Announced
    <2> QED
        BY <2>2, <2>3, <2>4, <2>5, <2>6, ChannelStays
<1> QED
    BY <1>4, <1>5 DEF AnnouncedIsSet

\* A step that assigns at most the range of c.
LEMMA RangeAnnounced ==
    ASSUME SenseTypeOK, AnnouncedIsSet, NEW c \in Channels, NEW v,
           AssignString(RangeName(c), v) \/ UNCHANGED <<strings, told>>,
           UNCHANGED <<m_RangeList, m_nMMode, sourceOn, subscribers>>,
           unsure \ {c} \subseteq unsure',
           \A d \in Channels \ {c} : rangeCode'[d] = rangeCode[d],
           measMode' = measMode \/ Channels \ {c} \subseteq unsure',
           c \notin unsure' => Announced(c)'
    PROVE  AnnouncedIsSet'
<1>1. RangeName(c) \in Notifiers
    BY NotifierNames
<1>2. \A n \in Notifiers : n # RangeName(c) => strings'[n] = strings[n]
    BY <1>1, OtherStringAssigned
<1>3. Device \notin unsure' => strings'[Source] = sourceOn'
    <2>1. Device # c
        BY SenseAssumption
    <2> QED
        BY <1>2, <2>1, OtherRangeNames DEF AnnouncedIsSet
<1>4. ASSUME NEW d \in Channels \ unsure', d # c
      PROVE  Announced(d)'
    <2>1. strings'[RangeName(d)] = strings[RangeName(d)]
        BY <1>2, <1>4, OtherRangeNames
    <2>2. Announced(d)
        BY <1>4 DEF AnnouncedIsSet
    <2>3. strings[RangeName(d)] \in ToSet(m_RangeList'[d])
        BY <2>2 DEF Announced
    <2>4. rangeCode'[d] = rangeCode[d] /\ measMode' = measMode
        BY <1>4
    <2> QED
        BY <2>1, <2>2, <2>3, <2>4, ChannelStays
<1> QED
    BY <1>3, <1>4 DEF AnnouncedIsSet

LEMMA RangeAssigned ==
    ASSUME SenseTypeOK, NEW c \in Channels, NEW v, AssignString(RangeName(c), v),
           UNCHANGED subscribers
    PROVE  strings'[RangeName(c)] = v
<1>1. StringsTyped /\ RangeName(c) \in Notifiers
    BY TypeInParts, NotifierNames
<1> QED
    BY <1>1, StringAssigned DEF AssignString

LEMMA SetRangeAnnounced ==
    ASSUME SenseTypeOK, AnnouncedIsSet, NEW c \in Channels, NEW r \in Ranges, SetRange(c, r)
    PROVE  AnnouncedIsSet'
<1>1. /\ UNCHANGED <<m_RangeList, m_nMMode, sourceOn, subscribers>>
      /\ r \in ToSet(m_RangeList[c])
    BY DEF SetRange, clientVars
<1>2. rangeCode \in [Channels -> Nat] /\ m_nMMode \in SenseModes
    BY DEF SenseTypeOK
<1>3. CASE device = "com" /\ m_nMMode # "AC"
    <2>1. SetReferenceRange(c, r) /\ UNCHANGED rangeCode
        BY <1>3 DEF SetRange
    <2>2. AssignString(RangeName(c), r)
        BY <2>1 DEF SetReferenceRange
    <2>3. strings'[RangeName(c)] = r /\ m_nMMode = "REF"
        BY <1>1, <1>2, <1>3, <2>2, RangeAssigned DEF SenseModes
    <2>4. CASE measMode' = MeasMode(r) /\
               unsure' = (IF measMode' = measMode THEN unsure
                          ELSE unsure \cup Channels) \ {c}
        <3>1. Announced(c)'
            BY <1>1, <2>3, <2>4 DEF Announced
        <3>2. unsure \ {c} \subseteq unsure'
            BY <2>4
        <3>3. measMode' = measMode \/ Channels \ {c} \subseteq unsure'
            BY <2>4
        <3> QED
            BY <1>1, <2>1, <2>2, <3>1, <3>2, <3>3, RangeAnnounced
    <2>5. CASE Unsure({c}) /\ UNCHANGED measMode
        <3>1. unsure \ {c} \subseteq unsure' /\ c \in unsure'
            BY <2>5 DEF Unsure
        <3> QED
            BY <1>1, <2>1, <2>2, <2>5, <3>1, RangeAnnounced
    <2> QED
        BY <2>1, <2>4, <2>5 DEF SetReferenceRange
<1>4. CASE ~ (device = "com" /\ m_nMMode # "AC")
    <2>1. SetRangeCommon(c, r) /\ UNCHANGED measMode /\ m_nMMode # "REF"
        BY <1>2, <1>4 DEF SetRange, SenseModes
    <2>2. \A d \in Channels \ {c} : rangeCode'[d] = rangeCode[d]
        BY <1>2, <2>1 DEF SetRangeCommon, SetRangeNow
    <2>3. CASE UNCHANGED <<rangeCode, strings, told, unsure>>
        <3>1. c \notin unsure' => Announced(c)'
            BY <1>1, <2>1, <2>3 DEF AnnouncedIsSet, Announced
        <3> QED
            BY <1>1, <2>1, <2>2, <2>3, <3>1, RangeAnnounced
    <2>4. CASE UNCHANGED <<strings, told>> /\ Unsure({c})
        <3>1. unsure \ {c} \subseteq unsure' /\ c \in unsure'
            BY <2>4 DEF Unsure
        <3> QED
            BY <1>1, <2>1, <2>2, <2>4, <3>1, RangeAnnounced
    <2>5. CASE /\ rangeCode' = [rangeCode EXCEPT ![c] = SelCode[r]]
               /\ AssignString(RangeName(c), r)
               /\ Sure(c)
        <3>1. strings'[RangeName(c)] = r /\ rangeCode'[c] = SelCode[r]
            BY <1>1, <1>2, <2>5, RangeAssigned
        <3>2. Announced(c)'
            BY <1>1, <2>1, <3>1 DEF Announced
        <3>3. unsure \ {c} \subseteq unsure'
            BY <2>5 DEF Sure
        <3> QED
            BY <1>1, <2>1, <2>2, <2>5, <3>2, <3>3, RangeAnnounced
    <2> QED
        BY <2>1, <2>3, <2>4, <2>5 DEF SetRangeCommon, SetRangeNow
<1> QED
    BY <1>3, <1>4

LEMMA DelayedCmdDoneAnnounced ==
    ASSUME SenseTypeOK, OnlyDelayedWaits, AnnouncedIsSet, NEW c \in Channels,
           DelayedCmdDone(c)
    PROVE  AnnouncedIsSet'
<1> DEFINE r == Head(m_delayedCtrlIos[c])
<1>1. /\ UNCHANGED <<m_RangeList, m_nMMode, measMode, sourceOn, subscribers>>
      /\ AssignString(RangeName(c), r)
    BY DEF DelayedCmdDone, clientVars
<1>2. m_nMMode # "REF" /\ rangeCode \in [Channels -> Nat]
    BY ReferenceIsCom DEF DelayedCmdDone, OnlyDelayedWaits, SenseTypeOK
<1>3. \A d \in Channels \ {c} : rangeCode'[d] = rangeCode[d]
    BY <1>2 DEF DelayedCmdDone
<1>4. strings'[RangeName(c)] = r
    BY <1>1, RangeAssigned
<1>5. unsure \ {c} \subseteq unsure'
    BY DEF DelayedCmdDone, Sure, Unsure
<1>6. ASSUME c \notin unsure'
      PROVE  Announced(c)'
    <2>1. rangeCode' = [rangeCode EXCEPT ![c] = SelCode[r]] /\ r \in ToSet(m_RangeList[c])
        BY <1>6 DEF DelayedCmdDone, Unsure
    <2> QED
        BY <1>1, <1>2, <1>4, <2>1 DEF Announced
<1> QED
    BY <1>1, <1>3, <1>5, <1>6, RangeAnnounced

LEMMA ChangeGeneratorRangeAnnounced ==
    ASSUME SenseTypeOK, AnnouncedIsSet, NEW c \in Channels, NEW code \in Codes,
           ChangeGeneratorRange(c, code)
    PROVE  AnnouncedIsSet'
<1> DEFINE r == Refreshed(m_RangeList[c], m_bAvail[c], code, strings[RangeName(c)])
<1>1. /\ UNCHANGED <<m_RangeList, m_nMMode, measMode, sourceOn, subscribers>>
      /\ rangeCode' = [rangeCode EXCEPT ![c] = code]
      /\ AssignString(RangeName(c), r) \/ UNCHANGED <<strings, told>>
    BY DEF ChangeGeneratorRange, serviceVars, clientVars
<1>2. m_nMMode # "REF" /\ rangeCode \in [Channels -> Nat] /\ m_RangeList[c] \in Seq(Ranges)
    BY ReferenceIsCom DEF ChangeGeneratorRange, SenseTypeOK
<1>3. \A d \in Channels \ {c} : rangeCode'[d] = rangeCode[d]
    BY <1>1, <1>2
<1>4. unsure \ {c} \subseteq unsure'
    BY DEF ChangeGeneratorRange, Sure, Unsure
<1>5. ASSUME c \notin unsure'
      PROVE  Announced(c)'
    <2>1. /\ PositionsOf(m_RangeList[c], m_bAvail[c], code) # {}
          /\ AssignString(RangeName(c), r)
        BY <1>5 DEF ChangeGeneratorRange, Unsure
    <2>2. r \in ToSet(m_RangeList[c]) /\ SelCode[r] = code
        BY <1>2, <2>1, RefreshedIsListed
    <2>3. strings'[RangeName(c)] = r
        BY <1>1, <2>1, RangeAssigned
    <2> QED
        BY <1>1, <1>2, <2>2, <2>3 DEF Announced
<1> QED
    BY <1>1, <1>3, <1>4, <1>5, RangeAnnounced

LEMMA SetSourceOnModesAnnounced ==
    ASSUME SenseTypeOK, AnnouncedIsSet, NEW S \in SUBSET Channels, SetSourceOnModes(S)
    PROVE  AnnouncedIsSet'
<1>1. /\ UNCHANGED <<m_RangeList, m_nMMode, measMode, rangeCode, subscribers>>
      /\ AssignString(Source, S) \/ UNCHANGED <<strings, told>>
    BY DEF SetSourceOnModes, serviceVars, clientVars
<1>2. StringsTyped /\ Source \in Notifiers
    BY TypeInParts, NotifierNames
<1>3. \A n \in Notifiers : n # Source => strings'[n] = strings[n]
    BY <1>1, <1>2, OtherStringAssigned
<1>4. Device \notin unsure' => strings'[Source] = sourceOn'
    <2>1. ASSUME Device \notin unsure'
          PROVE  sourceOn' = S /\ AssignString(Source, S)
        BY <2>1 DEF SetSourceOnModes, Unsure
    <2> QED
        BY <1>1, <1>2, <2>1, StringAssigned DEF AssignString
<1>5. ASSUME NEW c \in Channels \ unsure'
      PROVE  Announced(c)'
    <2>1. c # Device
        BY SenseAssumption
    <2>2. c \notin unsure
        BY <1>5, <2>1 DEF SetSourceOnModes, Sure, Unsure
    <2>3. strings'[RangeName(c)] = strings[RangeName(c)]
        BY <1>3, OtherRangeNames
    <2> QED
        BY <1>1, <2>2, <2>3 DEF AnnouncedIsSet, Announced
<1> QED
    BY <1>4, <1>5 DEF AnnouncedIsSet

\* A step that changes the list of c and its catalog.
LEMMA ListAnnounced ==
    ASSUME SenseTypeOK, AnnouncedIsSet, NEW c \in Channels, NEW list,
           AssignString(RangeCat(c), list), m_RangeList' = [m_RangeList EXCEPT ![c] = list],
           UNCHANGED <<m_nMMode, rangeCode, measMode, sourceOn, subscribers>>,
           unsure \subseteq unsure',
           c \notin unsure' /\ strings[RangeName(c)] \in ToSet(m_RangeList[c])
              => strings[RangeName(c)] \in ToSet(list)
    PROVE  AnnouncedIsSet'
<1>1. RangeCat(c) \in Notifiers /\ m_RangeList \in [Channels -> Seq(Ranges)]
    BY NotifierNames DEF SenseTypeOK
<1>2. \A n \in Notifiers : n # RangeCat(c) => strings'[n] = strings[n]
    BY <1>1, OtherStringAssigned
<1>3. Device \notin unsure' => strings'[Source] = sourceOn'
    BY <1>2, OtherRangeNames DEF AnnouncedIsSet
<1>4. ASSUME NEW d \in Channels \ unsure'
      PROVE  Announced(d)'
    <2>1. strings'[RangeName(d)] = strings[RangeName(d)]
        BY <1>2, OtherRangeNames
    <2>2. Announced(d) /\ strings[RangeName(d)] \in ToSet(m_RangeList[d])
        BY <1>4 DEF AnnouncedIsSet, Announced
    <2>3. strings[RangeName(d)] \in ToSet(m_RangeList'[d])
        <3>1. CASE d = c
            BY <1>1, <1>4, <2>2, <3>1
        <3>2. CASE d # c
            BY <1>1, <2>2, <3>2
        <3> QED
            BY <3>1, <3>2
    <2> QED
        BY <2>1, <2>2, <2>3, ChannelStays
<1> QED
    BY <1>3, <1>4 DEF AnnouncedIsSet

LEMMA AddRangeListAnnounced ==
    ASSUME SenseTypeOK, AnnouncedIsSet, NEW c \in Channels, NEW t \in ClampTypes,
           AddRangeList(c, t)
    PROVE  AnnouncedIsSet'
<1> DEFINE list == m_RangeList[c] \o RangesOf[t]
<1>1. m_RangeList[c] \in Seq(Ranges) /\ RangesOf[t] \in Seq(Ranges)
    BY ListsOfRanges DEF SenseTypeOK
<1>2. ToSet(list) = ToSet(m_RangeList[c]) \cup ToSet(RangesOf[t])
    BY <1>1, ToSetOfConcatenation
<1>3. /\ AssignString(RangeCat(c), list) /\ m_RangeList' = [m_RangeList EXCEPT ![c] = list]
      /\ UNCHANGED <<m_nMMode, rangeCode, measMode, sourceOn, subscribers, unsure>>
    BY DEF AddRangeList, SetCatalog, hardwareVars, clientVars
<1> QED
    BY <1>2, <1>3, ListAnnounced

LEMMA RemoveRangeListAnnounced ==
    ASSUME SenseTypeOK, AnnouncedIsSet, NEW c \in Channels, RemoveRangeList(c)
    PROVE  AnnouncedIsSet'
<1> DEFINE old == m_RangeList[c]
           gone == ToSet(RangesOf[clamp[c]])
           staying == {i \in DOMAIN old : old[i] \notin gone}
<1>1. PICK list \in Kept(old, staying) :
        /\ AssignString(RangeCat(c), list)
        /\ m_RangeList' = [m_RangeList EXCEPT ![c] = list]
    BY DEF RemoveRangeList, SetCatalog
<1>2. /\ UNCHANGED <<m_nMMode, rangeCode, measMode, sourceOn, subscribers>>
      /\ unsure \subseteq unsure'
      /\ strings[RangeName(c)] \in gone => c \in unsure'
    BY DEF RemoveRangeList, hardwareVars, clientVars, Unsure
<1>3. ToSet(list) = {old[i] : i \in staying}
    <2>1. old \in Seq(Ranges)
        BY DEF SenseTypeOK
    <2> QED
        BY <1>1, <2>1, KeptEntries
<1>4. ASSUME c \notin unsure', strings[RangeName(c)] \in ToSet(old)
      PROVE  strings[RangeName(c)] \in ToSet(list)
    <2>1. strings[RangeName(c)] \notin gone
        BY <1>2, <1>4
    <2>2. PICK i \in DOMAIN old : old[i] = strings[RangeName(c)]
        BY <1>4 DEF ToSet
    <2>3. i \in staying
        BY <2>1, <2>2
    <2> HIDE DEF staying
    <2> QED
        BY <1>3, <2>2, <2>3
<1> QED
    BY <1>1, <1>2, <1>4, ListAnnounced

LEMMA StepAnnounced ==
    ASSUME SenseTypeOK, ListsKept, AnnouncedIsSet, SenseNext
    PROVE  AnnouncedIsSet'
<1>1. {{}, Channels} \subseteq SUBSET Channels
    OBVIOUS
<1>2. OnlyDelayedWaits
    BY DEF ListsKept
<1>3. ASSUME \/ \E w \in Wanted : RegisterNotifier(w) \/ ReadString(w)
             \/ \E c \in Clients : RemoveSubscribers(c)
             \/ PollAuthorization \/ TogglePermission
      PROVE  AnnouncedIsSet'
    <2>1. /\ \A m \in Notifiers : m # Authorization => strings'[m] = strings[m]
          /\ UNCHANGED <<m_RangeList, m_nMMode, rangeCode, measMode, sourceOn, unsure>>
        BY <1>3, AuthorizationOnly DEF serviceVars
    <2>2. Source \in Notifiers /\ Source # Authorization
        BY NotifierNames DEF Source, Authorization
    <2>3. \A c \in Channels : strings'[RangeName(c)] = strings[RangeName(c)]
        BY <2>1, OtherRangeNames
    <2> QED
        BY <2>1, <2>2, <2>3 DEF AnnouncedIsSet, Announced
<1> QED
    BY <1>1, <1>2, <1>3, SetSenseModeAnnounced, SetRangeAnnounced, DelayedCmdDoneAnnounced,
       ChangeGeneratorRangeAnnounced, SetSourceOnModesAnnounced, AddRangeListAnnounced,
       RemoveRangeListAnnounced DEF SenseNext, Command, Other

LEMMA InitAnnounced ==
    ASSUME SenseInit
    PROVE  AnnouncedIsSet
<1>1. unsure = {c \in Channels : ~Announced(c)} \cup {d \in {Device} : sourceOn # {}}
    BY DEF SenseInit
<1>2. \A c \in Channels \ unsure : Announced(c)
    BY <1>1
<1>3. strings[Source] = {}
    <2>1. /\ Source \in Notifiers /\ Source[1] \notin {"range", "catalog"}
          /\ Source # Mode /\ Source # Authorization
        BY NotifierNames DEF Source, Mode, Authorization
    <2> QED
        BY <2>1 DEF SenseInit
<1> QED
    BY <1>1, <1>2, <1>3 DEF AnnouncedIsSet

\* What a channel announces is what it measures with but for the channels the
\* code leaves behind, for any channels, ranges, codes and clamps.
THEOREM AnnouncedIsSetAlways == SenseSpec => []AnnouncedIsSet
<1>1. SenseTypeOK /\ ListsKept /\ AnnouncedIsSet /\ [SenseNext]_senseVars
         => AnnouncedIsSet'
    <2>1. ASSUME AnnouncedIsSet, UNCHANGED senseVars
          PROVE  AnnouncedIsSet'
        BY <2>1 DEF AnnouncedIsSet, Announced, senseVars, serviceVars, hardwareVars
    <2> QED
        BY <2>1, StepAnnounced
<1>2. SenseTypeOK /\ ListsKept /\ [SenseNext]_senseVars => ListsKept'
    BY ListsStay
<1>3. SenseInit => ListsKept /\ AnnouncedIsSet
    BY InitLists, InitAnnounced
<1> QED
    BY <1>1, <1>2, <1>3, SenseTypeCorrect, PTL DEF SenseSpec
=============================================================================
