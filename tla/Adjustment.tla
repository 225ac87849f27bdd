----------------------------- MODULE Adjustment -----------------------------
(***************************************************************************)
(* Adjustment data of a device and of the clamps plugged into it.          *)
(*                                                                         *)
(* Each has an EEPROM with an image of the data of its ranges.  The ranges *)
(* themselves are changed by SCPI commands and by XML documents, and only  *)
(* an export brings that to the EEPROM.  What the device reads is checked  *)
(* against its serial number; whether it counts as adjusted also depends   *)
(* on the ranges, those of the clamps included.  Most commands ask the     *)
(* micro controller for permission, range by range and item by item; the   *)
(* offset of a d.c. clamp may always be adjusted.                          *)
(*                                                                         *)
(* Of the items of a range the model keeps one node and one coefficient    *)
(* for gain and phase, which share their permission, and the adjusted flag *)
(* of gain and of offset.                                                  *)
(***************************************************************************)
EXTENDS AdjustmentMemory, FiniteSets

CONSTANTS
    Ranges,                \* of the device, those in its exports
    Serials, OtherDevice,  \* serial numbers; data of another type of device
    Values, Default,       \* of a node and a coefficient
    Sockets,               \* where clamps are plugged
    ClampSerials, DefaultSerial,
    ClampTypes, undefined, \* the types a clamp can be given
    RangesOf,              \* the ranges of each type
    OffsetAlways,          \* the types whose offset may always be adjusted
    NoClamp,
    Documents, ClampDocuments,  \* the XML documents that clients send
    FirstImages,           \* what the EEPROM of a device may hold at first
    MaxImages,             \* bound on the number of exports
    MaxFaults,             \* bound on the number of failing I2C accesses
    MaxCommands            \* bound on what clients and people do

Device == "device"

ASSUME AdjustmentAssumption ==
    /\ undefined \notin ClampTypes /\ RangesOf[undefined] = {}
    /\ OtherDevice \notin Serials /\ Default \in Values /\ Device \notin Sockets
    /\ MaxImages \in Nat /\ MaxFaults \in Nat /\ MaxCommands \in Nat

VARIABLES
    m_serial,        \* the serial number in the micro controller
    permission,      \* what hasPermission reads there
    just,            \* the data of the device's ranges
    wrongSNR,        \* m_nSerialStatus
    chip, m_adjReadWrite, cache,
    clamp,           \* per socket, the cClamp object or NoClamp
    flash,           \* the EEPROM of the clamp that belongs to the socket
    images, faults, commands,
    owner,           \* ghost: per range, the device its data were made for
    restamped,       \* ghost: the ranges' data were stored under the device's
                     \* serial number while some were those of another
    stored           \* ghost: the last image an export reported as written,
                     \* unless a later access has spoilt it

deviceVars == <<m_serial, just, wrongSNR, chip, m_adjReadWrite, cache, owner,
                restamped>>
clampVars == <<clamp, flash>>
vars == <<deviceVars, clampVars, permission, images, faults, commands, stored>>

Kinds == {"gain", "offset"}
Initial == [node |-> Default, coefficient |-> Default, adjusted |-> {}]
InitialFor(names) == [r \in names |-> Initial]

Datum == [node : Values, coefficient : Values, adjusted : SUBSET Kinds]
DataOf(names) == [names -> Datum]
AnyClampData == UNION {DataOf(RangesOf[t]) : t \in ClampTypes \cup {undefined}}

\* The images that exports make: with a stamp, so that none is made twice, and
\* as a ghost whose data they have.
Owners == [Ranges -> Serials \cup {OtherDevice}]
Images == [stamp : Nat, serial : Serials, just : DataOf(Ranges), owner : Owners]
ClampImages ==
    [stamp : Nat, type : ClampTypes \cup {undefined}, just : AnyClampData,
     serial : {DefaultSerial} \cup ClampSerials \cup {doc.serial : doc \in ClampDocuments}]

\* Documents and first images may have any ranges; none is an image that the
\* service makes, and an image is neither erased nor torn nor missing.
ASSUME DataAssumption ==
    /\ \A doc \in Documents \cup ClampDocuments \cup FirstImages :
          \A r \in DOMAIN doc.just : doc.just[r] \in Datum
    /\ \A image \in FirstImages :
          /\ image.stamp = 0 /\ image.serial \in Serials \cup {OtherDevice}
          /\ image.owner = [r \in DOMAIN image.just |-> image.serial]
          /\ image \notin {Fresh, Torn, Nothing}
    /\ \A x \in {Fresh, Torn, Nothing} : x \notin Images /\ x \notin ClampImages

-----------------------------------------------------------------------------
(* The data of a range: AdjRangeScpi and AdjDataItem *)

Allowed(always) == (IF permission THEN Kinds ELSE {})
                       \cup (IF always THEN {"offset"} ELSE {})

\* Setting a node sets those behind it, too: one stands for all.
SetNode(d, v) == [d EXCEPT !.node = v]
SetCoefficient(d, v) == [d EXCEPT !.coefficient = v]
SetAdjStatus(d, kinds) == [d EXCEPT !.adjusted = kinds]

\* Equal nodes make a constant: the first coefficient is the node.
ComputeCoefficientsFromNodes(d) == SetCoefficient(d, d.node)

\* initJustData: every item one has the permission for is set to its default.
InitData(d, allowed) ==
    SetAdjStatus(IF "gain" \in allowed
                 THEN ComputeCoefficientsFromNodes(SetNode(d, Default)) ELSE d,
                 d.adjusted \ allowed)

\* computeJustData
ComputeData(d, allowed) ==
    IF "gain" \in allowed THEN ComputeCoefficientsFromNodes(d) ELSE d

\* The commands on one item of a range.
ItemWrites(d, allowed) ==
    (IF "gain" \notin allowed THEN {}
     ELSE {SetNode(d, v) : v \in Values} \cup {SetCoefficient(d, v) : v \in Values})
    \cup {SetAdjStatus(d, d.adjusted \cup {k}) : k \in allowed}
    \cup {SetAdjStatus(d, d.adjusted \ {k}) : k \in allowed}

\* The commands on a range: one of its items, INIT or COMPUTE.
RangeWrites(d, allowed) ==
    IF allowed = {} THEN {}
    ELSE ItemWrites(d, allowed)
             \cup {InitData(d, allowed), ComputeData(d, allowed)}

\* getAdjustmentStatus80Mask
IsAdjusted(d) == d.adjusted = Kinds

\* What the document has for ranges we know is taken over, the rest stays.
WithDocument(data, doc) ==
    [r \in DOMAIN data |-> IF r \in DOMAIN doc.just THEN doc.just[r] ELSE data[r]]

-----------------------------------------------------------------------------
(* The channels hold the device's ranges and those of the clamps in use *)

Plugged(clamps) == {s \in Sockets : clamps[s] # NoClamp}
Listed(clamps) == {s \in Plugged(clamps) : clamps[s].listed}
Always(type) == type \in OffsetAlways

\* An operation on the data of all channels, those of listed clamps included.
DeviceData(data, Op(_, _)) == [r \in Ranges |-> Op(data[r], Allowed(FALSE))]
ClampData(clamps, Op(_, _)) ==
    [s \in Sockets |->
        IF s \notin Listed(clamps) THEN clamps[s]
        ELSE [clamps[s] EXCEPT !.just = [r \in DOMAIN @ |->
                  Op(@[r], Allowed(Always(clamps[s].type)))]]]

\* Some channel had something to initialize or to compute.
Touches == permission \/ \E s \in Listed(clamp) :
               Always(clamp[s].type) /\ RangesOf[clamp[s].type] # {}

\* getAdjustmentStatus of the service
Adjusted ==
    /\ ~wrongSNR
    /\ \A r \in Ranges : IsAdjusted(just[r])
    /\ \A s \in Listed(clamp) : \A r \in DOMAIN clamp[s].just :
           IsAdjusted(clamp[s].just[r])

-----------------------------------------------------------------------------
(* Reading and writing *)

Image(serial, data, owners) ==
    [stamp |-> images + 1, serial |-> serial, just |-> data, owner |-> owners]
ClampImage(c) == [stamp |-> images + 1, type |-> c.type, serial |-> c.serial,
                  just |-> c.just]

Fault(outcome, good) == /\ faults' = faults + (IF outcome = good THEN 0 ELSE 1)
                        /\ faults' <= MaxFaults

\* Mutant. Only what can be read and is for another serial number is wrong.
ImportAdjData_WrongWhenRead(result, serial) ==
    /\ m_adjReadWrite' = result.rw
    /\ cache' = result.cache
    /\ wrongSNR' = (result.ok /\ result.rw.m_adjData.serial \in Serials \ {serial})

\* importAdjData: the status starts wrong, and stays so when nothing can be
\* read or when it is for another device or serial number.
ImportAdjData(result, serial) ==
    /\ m_adjReadWrite' = result.rw
    /\ cache' = result.cache
    /\ wrongSNR' = ~(result.ok /\ result.rw.m_adjData.serial = serial)

\* Ghost: whose the data are that a command leaves in the ranges.  Defaults are
\* nobody's and count as the device's own; the rest stays whose it was.
StillOf(owners, data) ==
    [r \in Ranges |-> IF data[r] = Initial THEN m_serial ELSE owners[r]]

\* exportAdjData writes what the ranges hold, whosever data that are, under the
\* serial number of the device.
ExportAdjData(data, owners, write) ==
    LET image == Image(m_serial, data, owners)
    IN  /\ images < MaxImages /\ images' = images + 1
        /\ Fault(write, "done")
        /\ m_adjReadWrite' = WriteData(m_adjReadWrite, image)
        /\ chip' = Written(chip, image, write)
        /\ stored' = [stored EXCEPT ![Device] =
               CASE write = "done" -> image
                 [] write = "torn" -> Nothing
                 [] write = "nothing" -> @]
        /\ owner' = owners
        /\ restamped' = IF write = "done" THEN \E r \in Ranges : owners[r] # m_serial
                                          ELSE restamped

\* Ghost: whose data the ranges have that get those of the image.
OwnerIn(image, serial) ==
    [r \in Ranges |-> IF r \in DOMAIN image.just THEN image.owner[r] ELSE serial]

\* Data that the ranges get when the service starts: what was decoded is
\* injected even when it was refused.
InjectAdjData(result, serial) ==
    LET image == result.rw.m_adjData
    IN  IF ~result.ok
          THEN /\ just' = InitialFor(Ranges)
               /\ owner' = [r \in Ranges |-> serial] /\ restamped' = FALSE
          ELSE /\ just' = WithDocument(InitialFor(Ranges), image)
               /\ owner' = OwnerIn(image, serial)
               /\ restamped' = (\E r \in DOMAIN image.owner :
                                   image.owner[r] # image.serial)

\* importClampAdjData takes over what the image says, type and serial number
\* included; data of ranges that the clamp does not have are left out.
ImportClampAdjData(c, image) ==
    [c EXCEPT !.type = image.type, !.serial = image.serial,
              !.just = WithDocument(@, image)]

StoredBy(s, write, image) ==
    CASE write = "done" -> image
      [] write = "torn" -> Nothing
      [] write = "nothing" -> stored[s]

-----------------------------------------------------------------------------
Init ==
    /\ m_serial \in Serials /\ permission \in BOOLEAN
    /\ \E image \in FirstImages :
          LET first == Written(ErasedChip, image, "done")
              result == ReadData(NewReadWrite, first, Nothing, "all")
          IN  /\ chip = first /\ m_adjReadWrite = result.rw
              /\ cache = result.cache
              /\ wrongSNR = (image.serial # m_serial)
              /\ just = WithDocument(InitialFor(Ranges), image)
              /\ owner = OwnerIn(image, m_serial)
    /\ clamp = [s \in Sockets |-> NoClamp]
    /\ flash = [s \in Sockets |-> ErasedChip]
    /\ images = 0 /\ faults = 0 /\ commands = 0 /\ restamped = FALSE
    /\ stored = [s \in Sockets \cup {Device} |-> Nothing]

Command == commands < MaxCommands /\ commands' = commands + 1

\* The service ends in whatever way and starts again; clamps that are plugged
\* are found later, one by one.
Restart == \E read \in Reads :
    LET result == ReadData(NewReadWrite, chip, cache, read)
    IN  /\ Command /\ Fault(read, "all")
        /\ ImportAdjData(result, m_serial)
        /\ InjectAdjData(result, m_serial)
        /\ clamp' = [s \in Sockets |-> NoClamp]
        /\ UNCHANGED <<m_serial, permission, chip, flash, images, stored>>

TogglePermission ==
    /\ Command
    /\ permission' = ~permission
    /\ UNCHANGED <<deviceVars, clampVars, images, faults, stored>>

\* SYSTEM:SERIAL, which the status does not follow.  The device's own data go
\* with it, data of another become its own when it gets their number.
WriteSerialNumber(serial) ==
    /\ Command
    /\ m_serial' = serial
    /\ owner' = [r \in Ranges |-> IF owner[r] = m_serial THEN serial ELSE owner[r]]
    /\ UNCHANGED <<just, wrongSNR, chip, m_adjReadWrite, cache, restamped,
                   clampVars, permission, images, faults, stored>>

\* SYSTEM:ADJUSTMENT:FLASH:READ reads and checks, the ranges keep their data.
FlashRead(read) ==
    /\ Command /\ Fault(read, "all")
    /\ ImportAdjData(ReadData(m_adjReadWrite, chip, cache, read), m_serial)
    /\ UNCHANGED <<m_serial, just, chip, owner, restamped, clampVars, permission,
                   images, stored>>

\* SYSTEM:ADJUSTMENT:FLASH:WRITE
FlashWrite(write) ==
    /\ Command /\ permission
    /\ ExportAdjData(just, owner, write)
    /\ UNCHANGED <<m_serial, just, wrongSNR, cache, clampVars, permission>>

\* SENSE:CORRECTION:INIT: of every range of every channel.
InitAll ==
    /\ Command /\ permission
    /\ just' = DeviceData(just, InitData)
    /\ clamp' = ClampData(clamp, InitData)
    /\ owner' = StillOf(owner, just')
    /\ UNCHANGED <<m_serial, wrongSNR, chip, m_adjReadWrite, cache, restamped,
                   flash, permission, images, faults, stored>>

\* SENSE:CORRECTION:COMPUTE
ComputeAll ==
    /\ Command /\ Touches
    /\ just' = DeviceData(just, ComputeData)
    /\ clamp' = ClampData(clamp, ComputeData)
    /\ owner' = StillOf(owner, just')
    /\ UNCHANGED <<m_serial, wrongSNR, chip, m_adjReadWrite, cache, restamped,
                   flash, permission, images, faults, stored>>

\* SENSE:RESET:ADJUSTMENT exports when any range had something to reset.  It
\* asks for no permission itself: the offset of a d.c. clamp is enough, and then
\* the device's own ranges are exported as they are.
ResetAdjValues(write) ==
    /\ Command /\ Touches
    /\ just' = DeviceData(just, InitData)
    /\ clamp' = ClampData(clamp, InitData)
    /\ ExportAdjData(just', StillOf(owner, just'), write)
    /\ UNCHANGED <<m_serial, wrongSNR, cache, flash, permission>>

\* A command on the correction data of one range of the device.
WriteRange(r) ==
    /\ Command
    /\ \E d \in RangeWrites(just[r], Allowed(FALSE)) :
          just' = [just EXCEPT ![r] = d]
    /\ owner' = StillOf(owner, just')
    /\ UNCHANGED <<m_serial, wrongSNR, chip, m_adjReadWrite, cache, restamped,
                   clampVars, permission, images, faults, stored>>

\* SYSTEM:ADJUSTMENT:XML.  A document is refused when its type or its serial
\* number is wrong, which comes first in it, or when something else is wrong
\* behind: by then the ranges have its data.  One that is accepted is
\* computed and exported; one read from a file (XML:READ) is not.
ImportXMLDocument(doc) == IF doc.serial = m_serial
                            THEN WithDocument(just, doc) ELSE just

\* Ghost: what comes from a document is for the serial number in it.
OwnerWithDocument(doc) ==
    [r \in Ranges |-> IF doc.serial = m_serial /\ r \in DOMAIN doc.just
                        THEN m_serial ELSE owner[r]]

ImportXML(doc, write) ==
    /\ Command /\ permission
    /\ doc.serial = m_serial /\ doc.complete
    /\ just' = DeviceData(ImportXMLDocument(doc), ComputeData)
    /\ clamp' = ClampData(clamp, ComputeData)
    /\ ExportAdjData(just', StillOf(OwnerWithDocument(doc), just'), write)
    /\ UNCHANGED <<m_serial, wrongSNR, cache, flash, permission>>

ReadXML(doc) ==
    /\ Command /\ permission
    /\ just' = ImportXMLDocument(doc)
    /\ owner' = OwnerWithDocument(doc)
    /\ UNCHANGED <<m_serial, wrongSNR, chip, m_adjReadWrite, cache, restamped,
                   clampVars, permission, images, faults, stored>>

-----------------------------------------------------------------------------
(* Clamps *)

NewClamp(type) == [type |-> type, serial |-> DefaultSerial,
                   just |-> InitialFor(RangesOf[type]),
                   listed |-> type # undefined, rw |-> NewReadWrite]

\* readClampType: what cannot be read is no type.
TypeRead(result) ==
    IF result.ok THEN result.rw.m_adjData.type ELSE undefined

\* A clamp is found: it gets the ranges of the type in its EEPROM, and with a
\* valid type its data, before its ranges join those of the channels.
Plug(s, read) ==
    LET result == ReadData(NewReadWrite, flash[s], Nothing, read)
        type == TypeRead(result)
        new == [NewClamp(type) EXCEPT !.rw = result.rw]
    IN  /\ Command /\ Fault(read, "all")
        /\ clamp[s] = NoClamp
        /\ clamp' = [clamp EXCEPT ![s] =
               IF type = undefined THEN new
               ELSE ImportClampAdjData(new, result.rw.m_adjData)]
        /\ UNCHANGED <<deviceVars, flash, permission, images, stored>>

Unplug(s) ==
    /\ Command
    /\ clamp[s] # NoClamp
    /\ clamp' = [clamp EXCEPT ![s] = NoClamp]
    /\ UNCHANGED <<deviceVars, flash, permission, images, faults, stored>>

\* exportClampAdjData of c, the clamp at s.
ExportClamp(s, c, write) ==
    /\ images < MaxImages /\ images' = images + 1
    /\ Fault(write, "done")
    /\ clamp' = [clamp EXCEPT ![s] = [c EXCEPT !.rw = WriteData(@, ClampImage(c))]]
    /\ flash' = [flash EXCEPT ![s] = Written(@, ClampImage(c), write)]
    /\ stored' = [stored EXCEPT ![s] = StoredBy(s, write, ClampImage(c))]

\* Mutant. The new ranges join those of the channels whether the clamp could be
\* programmed or not.
WriteType_ListedAnyway(s, type, write) ==
    LET new == [clamp[s] EXCEPT !.type = type, !.just = InitialFor(RangesOf[type]),
                                !.listed = TRUE]
    IN  /\ Command
        /\ clamp[s] # NoClamp /\ type \in ClampTypes
        /\ ExportClamp(s, new, write)
        /\ UNCHANGED <<deviceVars, permission>>

\* SYSTEM:CLAMP:<channel>:TYPE replaces the ranges.  They join those of the
\* channels when the clamp could be programmed.
WriteType(s, type, write) ==
    LET new == [clamp[s] EXCEPT !.type = type, !.just = InitialFor(RangesOf[type]),
                                !.listed = (write = "done")]
    IN  /\ Command
        /\ clamp[s] # NoClamp /\ type \in ClampTypes
        /\ ExportClamp(s, new, write)
        /\ UNCHANGED <<deviceVars, permission>>

WriteSerial(s, serial) ==
    /\ Command
    /\ clamp[s] # NoClamp
    /\ clamp' = [clamp EXCEPT ![s].serial = serial]
    /\ UNCHANGED <<deviceVars, flash, permission, images, faults, stored>>

\* SYSTEM:ADJUSTMENT:CLAMP:<channel>:FLASH:WRITE
ClampFlashWrite(s, write) ==
    /\ Command
    /\ clamp[s] # NoClamp
    /\ ExportClamp(s, clamp[s], write)
    /\ UNCHANGED <<deviceVars, permission>>

\* ...:FLASH:READ reads the type and, when that is the one of the clamp, all;
\* each of these reads the chip unless it did so before.
ClampFlashRead(s, read, again) ==
    LET first == ReadData(clamp[s].rw, flash[s], Nothing, read)
        second == ReadData(first.rw, flash[s], Nothing, again)
        c == [clamp[s] EXCEPT !.rw = second.rw]
    IN  /\ Command
        /\ faults' = faults + Cardinality({i \in 1..2 : <<read, again>>[i] # "all"})
        /\ faults' <= MaxFaults
        /\ clamp[s] # NoClamp
        /\ clamp' = [clamp EXCEPT ![s] =
               IF TypeRead(first) # @.type THEN [@ EXCEPT !.rw = first.rw]
               ELSE IF second.ok THEN ImportClampAdjData(c, second.rw.m_adjData)
               ELSE c]
        /\ UNCHANGED <<deviceVars, flash, permission, images, stored>>

\* ...:FLASH:RESET
ClampFlashReset(s, write) ==
    /\ Command /\ Fault(write, "done")
    /\ clamp[s] # NoClamp
    /\ clamp' = [clamp EXCEPT ![s].rw = ResetData(@)]
    /\ flash' = [flash EXCEPT ![s] = Erased(@, write)]
    /\ stored' = [stored EXCEPT ![s] = IF write = "nothing" THEN @ ELSE Nothing]
    /\ UNCHANGED <<deviceVars, permission, images>>

\* A command on the correction data of a range of the clamp.
WriteClampRange(s, r) ==
    /\ Command
    /\ clamp[s] # NoClamp /\ clamp[s].listed /\ r \in DOMAIN clamp[s].just
    /\ \E d \in RangeWrites(clamp[s].just[r], Allowed(Always(clamp[s].type))) :
          clamp' = [clamp EXCEPT ![s].just[r] = d]
    /\ UNCHANGED <<deviceVars, flash, permission, images, faults, stored>>

\* importXMLDocument: a document for another type is refused at once.
ImportClampXMLDocument(c, doc, ignoreType) ==
    IF ignoreType \/ doc.type = c.type
      THEN [c EXCEPT !.serial = doc.serial, !.just = WithDocument(@, doc)]
      ELSE c

\* ...:XML:READ of one clamp, from a file.
ReadClampXML(s, doc) ==
    /\ Command
    /\ clamp[s] # NoClamp
    /\ clamp' = [clamp EXCEPT ![s] = ImportClampXMLDocument(@, doc, FALSE)]
    /\ UNCHANGED <<deviceVars, flash, permission, images, faults, stored>>

\* SYSTEM:CLAMP:WRITE exports one clamp after the other up to the first that
\* fails.
WriteAllClamps(tried, failing, write) ==
    LET outcome(s) == IF s = failing THEN write ELSE "done"
    IN  /\ Command /\ permission
        /\ images < MaxImages /\ images' = images + 1
        /\ Fault(write, "done")
        /\ tried \subseteq Plugged(clamp) /\ failing \in tried
        /\ write = "done" => tried = Plugged(clamp)
        /\ clamp' = [s \in Sockets |->
               IF s \in tried
                 THEN [clamp[s] EXCEPT !.rw = WriteData(@, ClampImage(clamp[s]))]
                 ELSE clamp[s]]
        /\ flash' = [s \in Sockets |->
               IF s \in tried
                 THEN Written(flash[s], ClampImage(clamp[s]), outcome(s))
                 ELSE flash[s]]
        /\ stored' = [s \in DOMAIN stored |->
               IF s \in tried THEN StoredBy(s, outcome(s), ClampImage(clamp[s]))
                              ELSE stored[s]]
        /\ UNCHANGED <<deviceVars, permission>>

\* The clamp that a document is for: the only one with its serial number, or
\* a single clamp for a single document.
ClampsFor(doc, single) ==
    LET same == {s \in Plugged(clamp) : clamp[s].serial = doc.serial}
    IN  IF same = {} /\ single /\ Cardinality(Plugged(clamp)) = 1
          THEN Plugged(clamp)
        ELSE IF Cardinality(same) = 1 THEN same ELSE {}

\* SYSTEM:ADJUSTMENT:CLAMP:XML: the documents of a message are imported one
\* after the other, each a step of its own here; each import computes the data
\* of all channels and exports that clamp.
ImportClampXmls(doc, single, write) ==
    /\ Command /\ permission
    /\ Plugged(clamp) # {} /\ doc.complete
    /\ \E s \in ClampsFor(doc, single) :
         LET ignoreType == clamp[s].serial # doc.serial
             imported == [clamp EXCEPT
                 ![s] = ImportClampXMLDocument(@, doc, ignoreType)]
             computed == ClampData(imported, ComputeData)
             c == computed[s]
         IN  /\ images < MaxImages /\ images' = images + 1
             /\ Fault(write, "done")
             /\ clamp' = [computed EXCEPT ![s].rw = WriteData(@, ClampImage(c))]
             /\ flash' = [flash EXCEPT ![s] = Written(@, ClampImage(c), write)]
             /\ stored' = [stored EXCEPT ![s] = StoredBy(s, write, ClampImage(c))]
    /\ just' = DeviceData(just, ComputeData)
    /\ owner' = StillOf(owner, just')
    /\ UNCHANGED <<m_serial, wrongSNR, chip, m_adjReadWrite, cache, restamped,
                   permission>>

-----------------------------------------------------------------------------
DeviceNext ==
    \/ Restart \/ TogglePermission \/ InitAll \/ ComputeAll
    \/ \E serial \in Serials : WriteSerialNumber(serial)
    \/ \E read \in Reads : FlashRead(read)
    \/ \E write \in Writes : FlashWrite(write) \/ ResetAdjValues(write)
    \/ \E r \in Ranges : WriteRange(r)
    \/ \E doc \in Documents : ReadXML(doc) \/ \E write \in Writes : ImportXML(doc, write)

ClampNext == \E s \in Sockets :
    \/ Unplug(s)
    \/ \E read \in Reads : Plug(s, read)
    \/ \E read, again \in Reads : ClampFlashRead(s, read, again)
    \/ \E serial \in ClampSerials : WriteSerial(s, serial)
    \/ \E write \in Writes :
          \/ \E type \in ClampTypes : WriteType(s, type, write)
          \/ ClampFlashWrite(s, write) \/ ClampFlashReset(s, write)
          \/ \E tried \in SUBSET Sockets : WriteAllClamps(tried, s, write)
    \/ \E r \in UNION {RangesOf[type] : type \in ClampTypes} : WriteClampRange(s, r)
    \/ \E doc \in ClampDocuments : ReadClampXML(s, doc)

DocumentsNext == \E doc \in ClampDocuments, single \in BOOLEAN, write \in Writes :
    ImportClampXmls(doc, single, write)

Next == DeviceNext \/ ClampNext \/ DocumentsNext

Spec == Init /\ [][Next]_vars

-----------------------------------------------------------------------------
\* Every range always has data, of the device as of a clamp, and none appears
\* that was not created: not by a document, an image or a change of type.
AdjTypeOK ==
    /\ m_serial \in Serials /\ permission \in BOOLEAN /\ wrongSNR \in BOOLEAN
    /\ just \in DataOf(Ranges)
    /\ owner \in Owners /\ restamped \in BOOLEAN
    /\ \A s \in Plugged(clamp) :
         /\ clamp[s].type \in ClampTypes \cup {undefined}
         /\ clamp[s].just \in AnyClampData /\ clamp[s].listed \in BOOLEAN
    /\ images \in 0 .. MaxImages /\ faults \in 0 .. MaxFaults
    /\ commands \in 0 .. MaxCommands

\* What an export reported as written is what every later read gives, through
\* the buffer, the cache or the chip, after other exports failed without
\* writing and after a restart.  (adjustmenteepromreadwrite.cpp)
ReadsBack(rw, memory, file, image) ==
    LET result == ReadData(rw, memory, file, "all")
    IN  result.ok /\ result.rw.m_adjData = image

AckedIsReadBack ==
    /\ stored[Device] # Nothing =>
         /\ ReadsBack(m_adjReadWrite, chip, cache, stored[Device])
         /\ ReadsBack(NewReadWrite, chip, cache, stored[Device])
    /\ \A s \in Sockets : stored[s] # Nothing =>
         /\ ReadsBack(NewReadWrite, flash[s], Nothing, stored[s])
         /\ clamp[s] # NoClamp =>
              ReadsBack(clamp[s].rw, flash[s], Nothing, stored[s])

\* While a range works with data of another device the service does not say
\* that it is adjusted, whatever was read, plugged or commanded since, as long
\* as no export has put these data under the device's own serial number.  Any
\* export does: FLASH:WRITE and an XML document for some of the ranges, for
\* which one needs permission, but also SENSE:RESET:ADJUSTMENT, for which a d.c.
\* clamp is enough.  The next read then takes the data for the device's own.
Foreign == \E r \in Ranges : owner[r] # m_serial

ForeignDataIsTold == Foreign /\ ~restamped => ~Adjusted

\* A clamp whose ranges the channels have has the ranges of its type, and is
\* stored as that type: when it is plugged again it is the same clamp.
ListedAsStored == \A s \in Listed(clamp) :
    /\ DOMAIN clamp[s].just = RangesOf[clamp[s].type]
    /\ stored[s] # Nothing => stored[s].type = clamp[s].type

=============================================================================
