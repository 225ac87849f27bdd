------------------------------- MODULE Sense -------------------------------
(***************************************************************************)
(* What mt310s2d and com5003d tell their clients about what they measure:  *)
(* the sense mode, the ranges of each channel and the one that is set, the *)
(* channels whose source is in use, and whether adjusting is authorized.   *)
(*                                                                         *)
(* Each of these is a NotificationString.  The string is the service's     *)
(* own picture: the range is a code in the micro controller, ranges come   *)
(* and go with clamps, the mode decides which of them can be set, and the  *)
(* authorization is polled while somebody is registered for it.  The model *)
(* follows the strings, the hardware they stand for and what the           *)
(* registered clients know of both.                                        *)
(***************************************************************************)
EXTENDS Naturals, SequencesExt, Lists

CONSTANTS
    Channels, Clients,
    MtRanges, ComRanges,   \* the range lists the two factories create
    ClampTypes, RangesOf,  \* the ranges a clamp adds, per type
    ClampChannels,         \* channels with a plug
    SelCode,               \* range -> code in the micro controller
    AvailableIn,           \* range -> the modes in its type flags
    NoClamp,
    Wanted,                \* <<client, notifier>>: who registers for what
    MaxDelayed,            \* bound on the range changes waiting per channel
    MaxFaults,             \* bound on the number of failing I2C accesses
    MaxToggles,            \* bound on the changes of the authorization
    MaxCommands            \* bound on what clients and people do

Device == "device"         \* stands for the channel of what has none
Devices == {"com", "mt", "mtDelayed"}
Notifiers == ({"range", "catalog"} \X Channels)
                 \cup ({"mode", "authorization", "source"} \X {Device})
RangeName(c) == <<"range", c>>
RangeCat(c) == <<"catalog", c>>
Mode == <<"mode", Device>>
Authorization == <<"authorization", Device>>
Source == <<"source", Device>>

Ranges == ToSet(MtRanges) \cup ToSet(ComRanges)
              \cup UNION {ToSet(RangesOf[t]) : t \in ClampTypes}

ASSUME SenseAssumption ==
    /\ Device \notin Channels /\ ClampChannels \subseteq Channels
    /\ Wanted \subseteq Clients \X Notifiers
    /\ MtRanges \in Seq(STRING) /\ ComRanges \in Seq(STRING)
    /\ {"R0V", "R10V"} \subseteq ToSet(ComRanges)
    /\ RangesOf \in [ClampTypes -> Seq(STRING)] /\ SelCode \in [Ranges -> Nat]
    /\ NoClamp \notin ClampTypes
    /\ MaxDelayed \in Nat /\ MaxFaults \in Nat /\ MaxToggles \in Nat
    /\ MaxCommands \in Nat

VARIABLES
    device,        \* which service this is; mtDelayed: its range controller
                   \* answers cmdneedsasyncio
    m_RangeList,   \* per channel, the names in order
    m_bAvail,      \* per channel, the ranges that are available
    m_nMMode,      \* of the channels, the same as m_currSenseMode
    clamp,         \* the clamp whose ranges are in the list
    strings,       \* the NotificationStrings
    m_delayedCtrlIos,
    polling,       \* m_periodicTimer runs
    rangeCode, measMode, sourceOn, permission,   \* micro controller
    subscribers, told,   \* who is registered, who is to read a string
    outdated,      \* whose string has changed since they read it
    faults, toggles, commands,
    unsure,        \* history: channels whose string the code leaves behind
    fresh,         \* history: ranges added since the mode was set
    left           \* history: someone left since the last registration

serviceVars == <<m_RangeList, m_bAvail, m_nMMode, clamp, m_delayedCtrlIos>>
hardwareVars == <<rangeCode, measMode, sourceOn, permission>>
clientVars == <<subscribers, left>>
senseVars == <<device, serviceVars, strings, polling, hardwareVars, clientVars,
               told, outdated, faults, toggles, commands, unsure,
               fresh>>

Codes == {SelCode[r] : r \in Ranges}
SenseModes == IF device = "com" THEN {"AC", "REF"} ELSE {"AC", "ADJ", "HF"}

SenseTypeOK ==
    /\ device \in Devices
    /\ m_RangeList \in [Channels -> Seq(Ranges)]
    /\ m_bAvail \in [Channels -> SUBSET Ranges]
    /\ m_nMMode \in SenseModes
    /\ clamp \in [Channels -> ClampTypes \cup {NoClamp}]
    /\ DOMAIN strings = Notifiers
    /\ \A c \in Channels : /\ strings[RangeName(c)] \in Ranges \cup {""}
                           /\ strings[RangeCat(c)] \in Seq(Ranges)
    /\ m_delayedCtrlIos \in [Channels -> Seq(Ranges)]
    /\ polling \in BOOLEAN
    /\ rangeCode \in [Channels -> Nat] /\ measMode \in 0 .. 2
    /\ sourceOn \in SUBSET Channels /\ permission \in BOOLEAN
    /\ subscribers \in SUBSET Wanted /\ told \in SUBSET subscribers
    /\ outdated \in SUBSET subscribers
    /\ faults \in 0 .. MaxFaults /\ toggles \in 0 .. MaxToggles
    /\ commands \in 0 .. MaxCommands
    /\ unsure \in SUBSET (Channels \cup {Device})
    /\ fresh \in [Channels -> SUBSET Ranges] /\ left \in BOOLEAN

-----------------------------------------------------------------------------
(***************************************************************************)
(* Channels and ranges                                                     *)
(***************************************************************************)
\* setMModeToUpdateAvailability of the ranges in list
AvailableRanges(list, mode) == {r \in ToSet(list) : mode \in AvailableIn[r]}

\* refreshNotifierForActualRange: where the range the code stands for is in the
\* list.  Several may have the same code: the first is taken.
PositionsOf(list, avail, code) ==
    {i \in DOMAIN list : SelCode[list[i]] = code /\ list[i] \in avail}

Refreshed(list, avail, code, old) ==
    LET found == PositionsOf(list, avail, code)
    IN  IF found = {} THEN old ELSE list[Min(found)]

\* The meas mode that one of com5003d's two reference ranges stands for
MeasMode(r) == IF r = "R0V" THEN 1 ELSE 2
ReferenceRange(meas) == IF meas = 1 THEN "R0V" ELSE "R10V"

\* The string of c after the constructor's setRangeList, when the micro
\* controller has gone on with what the last run of the service has set.
StartedWith(dev, list, code, meas) ==
    IF dev = "com"
    THEN IF meas = 0 THEN Refreshed(list, AvailableRanges(list, "AC"), code, "")
         ELSE ReferenceRange(meas)
    ELSE Refreshed(list, ToSet(list), code, "")

\* The code of a range, or the meas mode, is what the string of c says.
Announced(c) ==
    LET r == strings[RangeName(c)]
    IN  /\ r \in ToSet(m_RangeList[c])
        /\ IF m_nMMode = "REF" THEN measMode = MeasMode(r)
           ELSE rangeCode[c] = SelCode[r]

\* What a client knows when it has read n: the string, and which of the ranges
\* in a catalog are available
Current(n) ==
    IF n[1] = "catalog" THEN <<strings[n], m_bAvail[n[2]]>> ELSE strings[n]

SenseInit ==
    /\ device \in Devices
    /\ m_nMMode = "AC" /\ clamp = [c \in Channels |-> NoClamp]
    /\ rangeCode \in [Channels -> Codes]
    /\ measMode \in IF device = "com" THEN 0 .. 2 ELSE {0}
    /\ LET list == IF device = "com" THEN ComRanges ELSE MtRanges
       IN  /\ m_RangeList = [c \in Channels |-> list]
           /\ m_bAvail = [c \in Channels |-> AvailableRanges(list, "AC")]
           /\ strings =
                [n \in Notifiers |->
                   CASE n[1] = "range" ->
                          StartedWith(device, list, rangeCode[n[2]], measMode)
                     [] n[1] = "catalog" -> list
                     [] n = Mode -> "AC"
                     [] n = Authorization -> FALSE
                     [] n = Source -> {}]
    /\ sourceOn \in {{}, Channels}
    /\ unsure = {c \in Channels : ~Announced(c)}
                    \cup {d \in {Device} : sourceOn # {}}
    /\ m_delayedCtrlIos = [c \in Channels |-> <<>>] /\ polling = FALSE
    /\ permission = FALSE
    /\ subscribers = {} /\ told = {} /\ outdated = {}
    /\ faults = 0 /\ toggles = 0 /\ commands = 0
    /\ fresh = [c \in Channels |-> {}] /\ left = FALSE

-----------------------------------------------------------------------------
Fault == faults < MaxFaults /\ faults' = faults + 1

\* Mutant: a string that has been assigned notifies, a trigger that is forced
\* does not.
Notify_ChangedOnly(new, forced) ==
    /\ strings' = new
    /\ told' = told \cup {w \in subscribers : new[w[2]] # strings[w[2]]}

\* The strings become new: subscribers are told of those that differ and of
\* the ones whose trigger is forced.
Notify(new, forced) ==
    /\ strings' = new
    /\ told' = told \cup {w \in subscribers : \/ new[w[2]] # strings[w[2]]
                                              \/ w[2] \in forced}

AssignString(n, value) == Notify([strings EXCEPT ![n] = value], {})

Sure(c) == unsure' = unsure \ {c}
Unsure(cs) == unsure' = unsure \cup cs

-----------------------------------------------------------------------------
(***************************************************************************)
(* SENSE:MMODE <mode>                                                      *)
(***************************************************************************)
\* changeSense: com5003d sets the micro controller, and does not look at the
\* result.  No range string follows: they are left behind.
ChangeSense(m) ==
    IF device = "com"
    THEN /\ \/ measMode' = (IF m = "AC" THEN 0 ELSE 1) /\ UNCHANGED faults
            \/ Fault /\ UNCHANGED measMode
         /\ Unsure(Channels)
    ELSE UNCHANGED <<measMode, faults, unsure>>

\* Mutant: ranges of clamps keep what they were created with.
SetMMode_BuiltInOnly(m) ==
    m_bAvail' = [c \in Channels |->
                   AvailableRanges(m_RangeList[c], m)
                       \cup IF clamp[c] = NoClamp THEN {}
                            ELSE ToSet(RangesOf[clamp[c]])]

SetMMode(m) ==
    m_bAvail' = [c \in Channels |-> AvailableRanges(m_RangeList[c], m)]

SetSenseMode(m) ==
    /\ m_nMMode' = m
    /\ SetMMode(m)
    /\ ChangeSense(m)
    /\ Notify([strings EXCEPT ![Mode] = m], {RangeCat(c) : c \in Channels})
    /\ fresh' = [c \in Channels |-> {}]
    /\ UNCHANGED <<device, m_RangeList, clamp, m_delayedCtrlIos, polling,
                   rangeCode, sourceOn, permission, clientVars, toggles>>

-----------------------------------------------------------------------------
(***************************************************************************)
(* SENSE:<channel>:RANGE <range>                                           *)
(***************************************************************************)
\* Mutant: the string takes the name before the micro controller has answered.
SetRangeNow_NotifyFirst(c, r) ==
    /\ AssignString(RangeName(c), r)
    /\ \/ rangeCode' = [rangeCode EXCEPT ![c] = SelCode[r]]
          /\ Sure(c) /\ UNCHANGED faults
       \/ Fault /\ UNCHANGED <<rangeCode, unsure>>

\* A failure may have reached the micro controller all the same.
SetRangeNow(c, r) ==
    \/ /\ rangeCode' = [rangeCode EXCEPT ![c] = SelCode[r]]
       /\ AssignString(RangeName(c), r)
       /\ Sure(c)
       /\ UNCHANGED faults
    \/ /\ Fault
       /\ \/ UNCHANGED <<rangeCode, unsure>>
          \/ /\ rangeCode' = [rangeCode EXCEPT ![c] = SelCode[r]]
             /\ Unsure({c})
       /\ UNCHANGED <<strings, told>>

SetRangeCommon(c, r) ==
    \/ /\ device # "mtDelayed" /\ SetRangeNow(c, r)
       /\ UNCHANGED m_delayedCtrlIos
    \/ /\ device = "mtDelayed" /\ Len(m_delayedCtrlIos[c]) < MaxDelayed
       /\ m_delayedCtrlIos' = [m_delayedCtrlIos EXCEPT ![c] = Append(@, r)]
       /\ UNCHANGED <<rangeCode, strings, told, faults, unsure>>

\* com5003d's reference ranges are meas modes, and there is one for all
\* channels: the strings of the others are left behind.
SetReferenceRange(c, r) ==
    /\ AssignString(RangeName(c), r)
    /\ \/ /\ measMode' = MeasMode(r)
          /\ unsure' = (IF measMode' = measMode THEN unsure
                        ELSE unsure \cup Channels) \ {c}
          /\ UNCHANGED faults
       \/ Fault /\ Unsure({c}) /\ UNCHANGED measMode

SetRange(c, r) ==
    /\ r \in ToSet(m_RangeList[c]) /\ r \in m_bAvail[c]
    /\ IF device = "com" /\ m_nMMode # "AC"
       THEN SetReferenceRange(c, r) /\ UNCHANGED <<rangeCode, m_delayedCtrlIos>>
       ELSE SetRangeCommon(c, r) /\ UNCHANGED measMode
    /\ UNCHANGED <<device, m_RangeList, m_bAvail, m_nMMode, clamp, polling,
                   sourceOn, permission, clientVars, toggles, fresh>>

\* onCmdDone of a delayed change: the string takes the name, done or not, and
\* though the range may have left with its clamp since.
DelayedCmdDone(c) ==
    /\ m_delayedCtrlIos[c] # <<>>
    /\ LET r == Head(m_delayedCtrlIos[c])
       IN  /\ AssignString(RangeName(c), r)
           /\ \/ /\ rangeCode' = [rangeCode EXCEPT ![c] = SelCode[r]]
                 /\ IF r \in ToSet(m_RangeList[c]) THEN Sure(c) ELSE Unsure({c})
                 /\ UNCHANGED faults
              \/ Fault /\ Unsure({c}) /\ UNCHANGED rangeCode
    /\ m_delayedCtrlIos' = [m_delayedCtrlIos EXCEPT ![c] = Tail(@)]
    /\ UNCHANGED <<device, m_RangeList, m_bAvail, m_nMMode, clamp, polling,
                   measMode, sourceOn, permission, clientVars, toggles, fresh>>

-----------------------------------------------------------------------------
(***************************************************************************)
(* The generator of mt310s2d                                               *)
(***************************************************************************)
\* GENERATOR:<channel>:RANGE or :AMPRANGE, which may change the range that is
\* measured, and onMeasRangeProbablyChanged.
ChangeGeneratorRange(c, code) ==
    /\ device # "com"
    /\ rangeCode' = [rangeCode EXCEPT ![c] = code]
    /\ \/ /\ AssignString(RangeName(c),
                 Refreshed(m_RangeList[c], m_bAvail[c], code, strings[RangeName(c)]))
          /\ IF PositionsOf(m_RangeList[c], m_bAvail[c], code) = {}
             THEN Unsure({c}) ELSE Sure(c)
          /\ UNCHANGED faults
       \/ Fault /\ Unsure({c}) /\ UNCHANGED <<strings, told>>
    /\ UNCHANGED <<device, serviceVars, polling, measMode, sourceOn, permission,
                   clientVars, toggles, fresh>>

\* GENERATOR:MODEON <channels>.  The string starts empty: it does not know what
\* the last run of the service has left on, and a command that brings that off
\* changes nothing a subscriber is told of.
SetSourceOnModes(S) ==
    /\ device # "com"
    /\ \/ /\ sourceOn' = S
          /\ AssignString(Source, S)
          /\ Sure(Device)
          /\ UNCHANGED faults
       \/ /\ Fault
          /\ sourceOn' \in {sourceOn, S} /\ Unsure({Device})
          /\ UNCHANGED <<strings, told>>
    /\ UNCHANGED <<device, serviceVars, polling, rangeCode, measMode, permission,
                   clientVars, toggles, fresh>>

-----------------------------------------------------------------------------
(***************************************************************************)
(* Clamps, as the range lists see them                                     *)
(***************************************************************************)
\* setNotifierSenseChannelRangeCat
SetCatalog(c, list) == AssignString(RangeCat(c), list)

\* The ranges of a clamp are created available, whatever the mode.
AddRangeList(c, t) ==
    LET list == m_RangeList[c] \o RangesOf[t]
    IN  /\ device # "com" /\ c \in ClampChannels /\ clamp[c] = NoClamp
        /\ clamp' = [clamp EXCEPT ![c] = t]
        /\ m_RangeList' = [m_RangeList EXCEPT ![c] = list]
        /\ m_bAvail' = [m_bAvail EXCEPT ![c] = @ \cup ToSet(RangesOf[t])]
        /\ fresh' = [fresh EXCEPT ![c] = @ \cup ToSet(RangesOf[t])]
        /\ SetCatalog(c, list)
    /\ UNCHANGED <<device, m_nMMode, m_delayedCtrlIos, polling, hardwareVars,
                   clientVars, faults, toggles, unsure>>

\* Nobody looks whether the range that is set goes, too.
RemoveRangeList(c) ==
    LET old == m_RangeList[c]
        gone == ToSet(RangesOf[clamp[c]])
    IN  /\ clamp[c] # NoClamp
        /\ clamp' = [clamp EXCEPT ![c] = NoClamp]
        /\ \E list \in Kept(old, {i \in DOMAIN old : old[i] \notin gone}) :
             /\ m_RangeList' = [m_RangeList EXCEPT ![c] = list]
             /\ SetCatalog(c, list)
        /\ m_bAvail' = [m_bAvail EXCEPT ![c] = @ \ gone]
        /\ fresh' = [fresh EXCEPT ![c] = @ \ gone]
        /\ IF strings[RangeName(c)] \in gone THEN Unsure({c}) ELSE UNCHANGED unsure
    /\ UNCHANGED <<device, m_nMMode, m_delayedCtrlIos, polling, hardwareVars,
                   clientVars, faults, toggles>>

-----------------------------------------------------------------------------
(***************************************************************************)
(* Clients                                                                 *)
(***************************************************************************)
\* getAuthorizationStatus: an access that fails says no.
GetAuthorizationStatus(t) ==
    \E status \in {permission, FALSE} :
        /\ IF status = permission THEN UNCHANGED faults ELSE Fault
        /\ strings' = [strings EXCEPT ![Authorization] = status]
        /\ told' = t \cup {w \in subscribers : /\ w[2] = Authorization
                                               /\ status # strings[Authorization]}

\* SERVER:REGISTER; the client reads the string when it is registered.
RegisterNotifier(w) ==
    /\ w \in Wanted \ subscribers
    /\ subscribers' = subscribers \cup {w}
    /\ IF w[2] = Authorization
       THEN /\ GetAuthorizationStatus(told \cup {w})
            /\ polling' = TRUE /\ left' = FALSE
       ELSE /\ told' = told \cup {w}
            /\ UNCHANGED <<strings, faults, polling, left>>
    /\ UNCHANGED <<device, serviceVars, hardwareVars, toggles, unsure,
                   fresh>>

\* Whoever unregisters, from whatever, or disconnects: the timer stops.
OnNotifierUnregistered == polling' = FALSE

RemoveSubscribers(c) ==
    /\ subscribers' = {w \in subscribers : w[1] # c}
    /\ told' = {w \in told : w[1] # c}
    /\ OnNotifierUnregistered
    /\ left' = TRUE
    /\ UNCHANGED <<device, serviceVars, strings, hardwareVars, faults,
                   toggles, unsure, fresh>>

\* Told that a string has changed, the client reads it.
ReadString(w) ==
    /\ w \in told
    /\ IF w[2] = Authorization THEN GetAuthorizationStatus(told \ {w})
       ELSE told' = told \ {w} /\ UNCHANGED <<strings, faults>>
    /\ UNCHANGED <<device, serviceVars, polling, hardwareVars, subscribers, left,
                   toggles, unsure, fresh>>

\* Mutant: the string is not touched when nobody has asked.
Poll_QuietUnlessTold == polling /\ told # {} /\ GetAuthorizationStatus(told)

\* m_periodicTimer has expired.
Poll == polling /\ GetAuthorizationStatus(told)

PollAuthorization ==
    /\ Poll
    /\ UNCHANGED <<device, serviceVars, polling, hardwareVars, clientVars,
                   toggles, unsure, fresh>>

TogglePermission ==
    /\ toggles < MaxToggles /\ toggles' = toggles + 1
    /\ permission' = ~permission
    /\ UNCHANGED <<device, serviceVars, strings, polling, rangeCode, measMode,
                   sourceOn, clientVars, told, faults, unsure, fresh>>

-----------------------------------------------------------------------------
\* What clients and people do
Command ==
    /\ commands < MaxCommands /\ commands' = commands + 1
    /\ \/ \E m \in SenseModes : SetSenseMode(m)
       \/ \E c \in Channels :
            \/ \E r \in Ranges : SetRange(c, r)
            \/ \E code \in Codes : ChangeGeneratorRange(c, code)
            \/ \E t \in ClampTypes : AddRangeList(c, t)
            \/ RemoveRangeList(c)
       \/ \E S \in {{}, Channels} : SetSourceOnModes(S)
       \/ \E c \in Clients : RemoveSubscribers(c)

Other ==
    /\ \/ \E c \in Channels : DelayedCmdDone(c)
       \/ \E w \in Wanted : RegisterNotifier(w)
       \/ PollAuthorization
       \/ TogglePermission
    /\ UNCHANGED commands

\* Whose knowledge a step makes old; reading renews it.
Outdated ==
    outdated \cup {w \in subscribers : Current(w[2])' # Current(w[2])}

SenseNext ==
    \/ (Command \/ Other) /\ outdated' = Outdated \cap subscribers'
    \/ \E w \in Wanted : /\ ReadString(w) /\ outdated' = Outdated \ {w}
                         /\ UNCHANGED commands

Polling == PollAuthorization /\ outdated' = Outdated /\ UNCHANGED commands

\* A timer that runs expires.
SenseFairness == WF_senseVars(Polling)

SenseSpec == SenseInit /\ [][SenseNext]_senseVars /\ SenseFairness

-----------------------------------------------------------------------------
(***************************************************************************)
(* Properties                                                              *)
(***************************************************************************)
\* The range a channel announces exists and is the one the micro controller
\* measures with, but for the channels the code knowingly leaves behind (a
\* failed access, a mode, a reference range or a clamp that changed under
\* it).  In particular neither a mode nor a clamp that comes disturbs it, and
\* a range that is set in the end is announced whatever happened before.  The
\* same for the channels whose source is in use.
AnnouncedIsSet ==
    /\ \A c \in Channels \ unsure : Announced(c)
    /\ Device \notin unsure => strings[Source] = sourceOn

\* Which ranges can be set follows the mode at all times, for built-in ranges
\* and for those of clamps; only a clamp plugged since the mode was set has
\* ranges that the mode does not know.
AvailabilityFollowsMode ==
    \A c \in Channels :
        /\ m_bAvail[c] \subseteq ToSet(m_RangeList[c])
        /\ m_bAvail[c] \ fresh[c] =
               AvailableRanges(m_RangeList[c], m_nMMode) \ fresh[c]

\* A client that has read all it was told to read knows the ranges of its
\* channels and which of them are available, the range that is set, the mode
\* and the authorization: nothing it registered for changes unannounced.
WhoHasReadKnows ==
    outdated \subseteq told

\* As long as nobody leaves, a client registered for it gets to know each
\* change of the authorization that lasts.
AuthorizationIsFollowed ==
    []<>(\/ left
         \/ \A w \in subscribers : w[2] # Authorization
         \/ strings[Authorization] = permission)
=============================================================================
