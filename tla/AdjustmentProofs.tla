------------------------- MODULE AdjustmentProofs --------------------------
(***************************************************************************)
(* Proofs about Adjustment, for any ranges, clamps, documents and images.  *)
(***************************************************************************)
EXTENDS Adjustment, FiniteSetTheorems, TLAPS

\* What a chip and a reading object can have when the images are those of I.
Chips(I) == {chp \in [header : I \cup {Fresh}, body : I \cup {Torn}] :
                chp.body \in {Torn, chp.header}}
ReadWrites(I) == {rw \in [m_adjDataReadIsValid : BOOLEAN, m_adjData : I \cup {Torn}] :
                     rw.m_adjDataReadIsValid => rw.m_adjData \in I}

\* The images there are for the device.
DeviceImages ==
    FirstImages \cup [stamp : 1 .. images, serial : Serials, just : DataOf(Ranges),
                    owner : Owners]

\* Nothing, or the image that the chip has and that a valid object has read.
HasStored(image, chp, rw) ==
    image # Nothing => /\ image \notin {Fresh, Torn}
                       /\ chp.header = image /\ chp.body = image
                       /\ rw.m_adjDataReadIsValid => rw.m_adjData = image

DeviceTyped ==
    /\ m_serial \in Serials /\ permission \in BOOLEAN /\ wrongSNR \in BOOLEAN
    /\ just \in DataOf(Ranges)
    /\ owner \in Owners /\ restamped \in BOOLEAN
    /\ images \in 0 .. MaxImages /\ faults \in 0 .. MaxFaults
    /\ commands \in 0 .. MaxCommands

MemoryInv ==
    /\ chip \in Chips(DeviceImages) /\ m_adjReadWrite \in ReadWrites(DeviceImages)
    /\ cache \in DeviceImages \cup {Nothing}
    /\ DOMAIN stored = Sockets \cup {Device}
    /\ HasStored(stored[Device], chip, m_adjReadWrite)

\* Whatever the ranges have that is not the device's own is for x, and x is the
\* serial number of whatever can be read.
ReadIsOf(x) ==
    /\ x # m_serial
    /\ \A r \in Ranges : owner[r] \in {x, m_serial}
    /\ m_adjReadWrite.m_adjDataReadIsValid => m_adjReadWrite.m_adjData.serial = x
    /\ chip.header \in {cache, chip.body} => chip.header.serial = x

\* Data of another device that were not exported come with the wrong serial
\* number.
ForeignInv ==
    Foreign /\ ~restamped =>
        /\ wrongSNR
        /\ \E x \in Serials \cup {OtherDevice} : ReadIsOf(x)

\* Owners when data only get to be the device's own.
OwnersLeft == {o \in Owners : \A r \in Ranges : o[r] \in {owner[r], m_serial}}

ClampSerialNumbers ==
    {DefaultSerial} \cup ClampSerials \cup {doc.serial : doc \in ClampDocuments}
ClampObjects ==
    [type : ClampTypes \cup {undefined}, serial : ClampSerialNumbers, just : AnyClampData,
     listed : BOOLEAN, rw : ReadWrites(ClampImages)]

\* The clamp c at a socket with the EEPROM chp and the stored image.
ClampOK(c, chp, image) ==
    /\ c \in ClampObjects
    /\ HasStored(image, chp, c.rw)
    /\ c.listed => /\ DOMAIN c.just = RangesOf[c.type] /\ c.type # undefined
                   /\ image # Nothing => image.type = c.type

SocketOK(c, chp, image) ==
    /\ chp \in Chips(ClampImages)
    /\ HasStored(image, chp, NewReadWrite)
    /\ c # NoClamp => ClampOK(c, chp, image)

ClampInv ==
    /\ DOMAIN clamp = Sockets /\ DOMAIN flash = Sockets
    /\ \A s \in Sockets : SocketOK(clamp[s], flash[s], stored[s])

AdjInv == DeviceTyped /\ MemoryInv /\ ForeignInv /\ ClampInv

-----------------------------------------------------------------------------
(* The data of ranges.                                                      *)

LEMMA AllowedKinds ==
    ASSUME NEW always
    PROVE  Allowed(always) \in SUBSET Kinds
BY DEF Allowed, Kinds

LEMMA DatumWrites ==
    ASSUME NEW d \in Datum, NEW allowed \in SUBSET Kinds
    PROVE  /\ InitData(d, allowed) \in Datum
           /\ ComputeData(d, allowed) \in Datum
           /\ RangeWrites(d, allowed) \subseteq Datum
<1>1. /\ \A e \in Datum, v \in Values : SetNode(e, v) \in Datum /\ SetCoefficient(e, v) \in Datum
      /\ \A e \in Datum, kinds \in SUBSET Kinds : SetAdjStatus(e, kinds) \in Datum
    BY DEF Datum, SetNode, SetCoefficient, SetAdjStatus
<1>2. \A e \in Datum : ComputeCoefficientsFromNodes(e) \in Datum
    <2>1. \A e \in Datum : e.node \in Values
        BY DEF Datum
    <2> QED
        BY <1>1, <2>1 DEF ComputeCoefficientsFromNodes
<1>3. Default \in Values /\ d.adjusted \in SUBSET Kinds
    BY AdjustmentAssumption DEF Datum
<1>4. InitData(d, allowed) \in Datum
    BY <1>1, <1>2, <1>3 DEF InitData
<1>5. ComputeData(d, allowed) \in Datum
    BY <1>2 DEF ComputeData
<1>6. ItemWrites(d, allowed) \subseteq Datum
    BY <1>1, <1>3 DEF ItemWrites
<1> QED
    BY <1>4, <1>5, <1>6 DEF RangeWrites

LEMMA InitialTyped ==
    ASSUME NEW names
    PROVE  InitialFor(names) \in DataOf(names)
BY AdjustmentAssumption DEF InitialFor, Initial, DataOf, Datum

LEMMA WithDocumentTyped ==
    ASSUME NEW names, NEW data \in DataOf(names), NEW doc,
           \A r \in DOMAIN doc.just : doc.just[r] \in Datum
    PROVE  WithDocument(data, doc) \in DataOf(names)
BY DEF WithDocument, DataOf

LEMMA DeviceDataTyped ==
    ASSUME NEW data \in DataOf(Ranges)
    PROVE  /\ DeviceData(data, InitData) \in DataOf(Ranges)
           /\ DeviceData(data, ComputeData) \in DataOf(Ranges)
<1>1. \A r \in Ranges : data[r] \in Datum
    BY DEF DataOf
<1>2. [r \in Ranges |-> InitData(data[r], Allowed(FALSE))] \in DataOf(Ranges)
    BY <1>1, AllowedKinds, DatumWrites DEF DataOf
<1>3. [r \in Ranges |-> ComputeData(data[r], Allowed(FALSE))] \in DataOf(Ranges)
    BY <1>1, AllowedKinds, DatumWrites DEF DataOf
<1> QED
    BY <1>2, <1>3 DEF DeviceData

-----------------------------------------------------------------------------
(* Reading and writing.                                                     *)

LEMMA ReadDataGives ==
    ASSUME NEW I, Nothing \notin I, Fresh \notin I,
           NEW rw \in ReadWrites(I), NEW chp \in Chips(I), NEW file \in I \cup {Nothing},
           NEW read
    PROVE  LET result == ReadData(rw, chp, file, read)
           IN  /\ result.rw \in ReadWrites(I) /\ result.cache \in I \cup {Nothing}
               /\ result.ok => result.rw.m_adjData \in I /\ result.rw.m_adjDataReadIsValid
               /\ rw.m_adjDataReadIsValid \/ ~result.ok => result.rw = rw /\ result.cache = file
               /\ ~rw.m_adjDataReadIsValid /\ result.ok =>
                     /\ result.rw.m_adjData = chp.header /\ result.cache = chp.header
                     /\ chp.header \in {file, chp.body}
               /\ rw.m_adjDataReadIsValid => result.ok
<1> DEFINE image == IF ReadFromCache(chp, file) THEN file ELSE chp.body
           valid == /\ ReadSizeAndChecksum(chp, read)
                    /\ ReadFromCache(chp, file) \/ ReadFromChip(chp, read)
           result == ReadData(rw, chp, file, read)
<1>1. CASE rw.m_adjDataReadIsValid
    <2>1. result = [ok |-> TRUE, rw |-> rw, cache |-> file]
        BY <1>1 DEF ReadData
    <2> QED
        BY <1>1, <2>1 DEF ReadWrites
<1>2. CASE ~rw.m_adjDataReadIsValid /\ valid
    <2>1. result = [ok |-> TRUE, cache |-> image,
                    rw |-> [m_adjData |-> image, m_adjDataReadIsValid |-> TRUE]]
        BY <1>2 DEF ReadData
    <2>2. image = chp.header /\ chp.header # Fresh /\ chp.header \in {file, chp.body}
        BY <1>2 DEF ReadFromCache, ReadFromChip, ReadSizeAndChecksum
    <2>3. chp.header \in I
        BY <2>2 DEF Chips
    <2>4. [m_adjData |-> image, m_adjDataReadIsValid |-> TRUE] \in ReadWrites(I)
        BY <2>2, <2>3 DEF ReadWrites
    <2> HIDE DEF image, valid
    <2> QED
        BY <1>2, <2>1, <2>2, <2>3, <2>4
<1>3. CASE ~rw.m_adjDataReadIsValid /\ ~valid
    <2>1. result = [ok |-> FALSE, rw |-> rw, cache |-> file]
        BY <1>3 DEF ReadData
    <2> QED
        BY <1>3, <2>1
<1> QED
    BY <1>1, <1>2, <1>3

LEMMA NewReadWriteOK == ASSUME NEW I PROVE NewReadWrite \in ReadWrites(I)
BY DEF NewReadWrite, ReadWrites

LEMMA WrittenGives ==
    ASSUME NEW I, NEW chp \in Chips(I), NEW image \in I, NEW write \in Writes
    PROVE  Written(chp, image, write) \in Chips(I)
BY DEF Written, Chips, Writes

LEMMA WriteDataGives ==
    ASSUME NEW I, NEW rw, NEW image \in I
    PROVE  /\ WriteData(rw, image) \in ReadWrites(I)
           /\ ~WriteData(rw, image).m_adjDataReadIsValid
BY DEF WriteData, ReadWrites

\* What is stored is what every read gives.
LEMMA StoredIsRead ==
    ASSUME NEW image, NEW chp, NEW rw, NEW file, image # Nothing, HasStored(image, chp, rw)
    PROVE  ReadsBack(rw, chp, file, image)
BY DEF HasStored, ReadsBack, ReadData, ReadSizeAndChecksum, ReadFromCache, ReadFromChip

-----------------------------------------------------------------------------
(* The device.                                                              *)

LEMMA NoImages ==
    /\ \A x \in {Fresh, Torn, Nothing} : x \notin DeviceImages /\ x \notin ClampImages
    /\ Nothing # Fresh
<1>1. 1 .. images \subseteq Nat
    OBVIOUS
<1>2. [stamp : 1 .. images, serial : Serials, just : DataOf(Ranges), owner : Owners]
          \subseteq Images
    BY <1>1 DEF Images
<1> QED
    BY <1>2, DataAssumption, MemoryAssumption DEF DeviceImages

LEMMA DeviceImageData ==
    ASSUME NEW image \in DeviceImages
    PROVE  /\ image.serial \in Serials \cup {OtherDevice}
           /\ \A r \in DOMAIN image.just : image.just[r] \in Datum
           /\ DOMAIN image.owner = DOMAIN image.just
           /\ \A r \in DOMAIN image.just : image.owner[r] \in Serials \cup {OtherDevice}
BY DataAssumption DEF DeviceImages, DataOf, Owners

\* Exporting adds an image, and that is another one than any before.
LEMMA NewImage ==
    ASSUME images \in Nat, images' = images + 1, m_serial \in Serials,
           NEW data \in DataOf(Ranges), NEW owners \in Owners
    PROVE  /\ DeviceImages \subseteq DeviceImages'
           /\ Image(m_serial, data, owners) \in DeviceImages' \ DeviceImages
           /\ Image(m_serial, data, owners).serial = m_serial
           /\ Image(m_serial, data, owners) \notin {Fresh, Torn, Nothing}
<1> DEFINE new == Image(m_serial, data, owners)
<1>1. /\ new \in [stamp : 1 .. (images + 1), serial : Serials, just : DataOf(Ranges),
                 owner : Owners]
      /\ new.stamp = images + 1 /\ new.serial = m_serial
    BY DEF Image
<1>2. \A image \in FirstImages : image.stamp = 0
    BY DataAssumption
<1>3. new \notin DeviceImages
    BY <1>1, <1>2 DEF DeviceImages
<1>4. DeviceImages \subseteq DeviceImages' /\ new \in DeviceImages'
    BY <1>1 DEF DeviceImages
<1>5. new \notin {Fresh, Torn, Nothing}
    <2>1. new \in Images
        BY <1>1 DEF Images
    <2> QED
        BY <2>1, DataAssumption
<1> QED
    BY <1>1, <1>3, <1>4, <1>5

LEMMA ImagesGrow ==
    ASSUME NEW I, NEW J, I \subseteq J
    PROVE  Chips(I) \subseteq Chips(J) /\ ReadWrites(I) \subseteq ReadWrites(J)
BY DEF Chips, ReadWrites

\* The images of clamps take stamps, too.
LEMMA ImagesCounted ==
    ASSUME MemoryInv, images \in Nat, images' \in Nat, images =< images',
           UNCHANGED <<chip, m_adjReadWrite, cache>>,
           DOMAIN stored' = DOMAIN stored, stored'[Device] = stored[Device]
    PROVE  MemoryInv'
<1>1. DeviceImages \subseteq DeviceImages'
    BY DEF DeviceImages
<1>2. /\ Chips(DeviceImages) \subseteq Chips(DeviceImages')
      /\ ReadWrites(DeviceImages) \subseteq ReadWrites(DeviceImages')
    BY <1>1, ImagesGrow
<1> QED
    BY <1>1, <1>2 DEF MemoryInv

LEMMA ReadingDevice ==
    ASSUME MemoryInv, NEW rw \in {m_adjReadWrite, NewReadWrite}, NEW read
    PROVE  LET result == ReadData(rw, chip, cache, read)
           IN  /\ result.rw \in ReadWrites(DeviceImages)
               /\ result.cache \in DeviceImages \cup {Nothing}
               /\ result.ok => result.rw.m_adjData \in DeviceImages
                               /\ result.rw.m_adjDataReadIsValid
               /\ rw.m_adjDataReadIsValid \/ ~result.ok
                     => result.rw = rw /\ result.cache = cache
               /\ ~rw.m_adjDataReadIsValid /\ result.ok =>
                     /\ result.rw.m_adjData = chip.header /\ result.cache = chip.header
                     /\ chip.header \in {cache, chip.body}
               /\ rw.m_adjDataReadIsValid => result.ok
               /\ HasStored(stored[Device], chip, result.rw)
<1>1. Nothing \notin DeviceImages /\ Fresh \notin DeviceImages
    BY NoImages
<1>2. rw \in ReadWrites(DeviceImages) /\ HasStored(stored[Device], chip, rw)
    <2>1. CASE rw = m_adjReadWrite
        BY <2>1 DEF MemoryInv
    <2>2. CASE rw = NewReadWrite
        BY <2>2, NewReadWriteOK DEF MemoryInv, HasStored, NewReadWrite
    <2> QED
        BY <2>1, <2>2
<1>3. chip \in Chips(DeviceImages) /\ cache \in DeviceImages \cup {Nothing}
    BY DEF MemoryInv
<1> DEFINE result == ReadData(rw, chip, cache, read)
<1>4. /\ result.rw \in ReadWrites(DeviceImages)
      /\ result.cache \in DeviceImages \cup {Nothing}
      /\ result.ok => result.rw.m_adjData \in DeviceImages /\ result.rw.m_adjDataReadIsValid
      /\ rw.m_adjDataReadIsValid \/ ~result.ok => result.rw = rw /\ result.cache = cache
      /\ ~rw.m_adjDataReadIsValid /\ result.ok =>
            /\ result.rw.m_adjData = chip.header /\ result.cache = chip.header
            /\ chip.header \in {cache, chip.body}
      /\ rw.m_adjDataReadIsValid => result.ok
    BY <1>1, <1>2, <1>3, ReadDataGives
<1> HIDE DEF result
<1>5. HasStored(stored[Device], chip, result.rw)
    <2>1. CASE result.rw = rw
        BY <1>2, <2>1
    <2>2. CASE result.rw.m_adjData = chip.header
        BY <1>2, <2>2 DEF HasStored
    <2> QED
        BY <1>4, <2>1, <2>2
<1> QED
    BY <1>4, <1>5 DEF result

LEMMA CommandCounts ==
    ASSUME DeviceTyped, Command
    PROVE  commands' \in 0 .. MaxCommands
<1>1. commands \in 0 .. MaxCommands /\ MaxCommands \in Nat
    BY AdjustmentAssumption DEF DeviceTyped
<1> QED
    BY <1>1 DEF Command

LEMMA FaultCounts ==
    ASSUME DeviceTyped, NEW outcome, NEW good, Fault(outcome, good)
    PROVE  faults' \in 0 .. MaxFaults
<1>1. faults \in 0 .. MaxFaults /\ MaxFaults \in Nat
    BY AdjustmentAssumption DEF DeviceTyped
<1> QED
    BY <1>1 DEF Fault

LEMMA ImageCounts ==
    ASSUME DeviceTyped, images < MaxImages, images' = images + 1
    PROVE  /\ images \in Nat /\ images' \in Nat /\ images =< images'
           /\ images' \in 0 .. MaxImages
<1>1. images \in 0 .. MaxImages /\ MaxImages \in Nat
    BY AdjustmentAssumption DEF DeviceTyped
<1> QED
    BY <1>1

LEMMA StillOfLeft ==
    ASSUME DeviceTyped, NEW owners \in OwnersLeft, NEW data
    PROVE  StillOf(owners, data) \in OwnersLeft
BY DEF DeviceTyped, OwnersLeft, Owners, StillOf

LEMMA OwnersFromDocument ==
    ASSUME DeviceTyped, NEW doc
    PROVE  OwnerWithDocument(doc) \in OwnersLeft
BY DEF DeviceTyped, OwnersLeft, Owners, OwnerWithDocument

LEMMA OwnerLeft == ASSUME DeviceTyped PROVE owner \in OwnersLeft
BY DEF DeviceTyped, OwnersLeft

\* What leaves the data foreign leaves them known as such.
LEMMA ForeignKept ==
    ASSUME ForeignInv, owner' \in OwnersLeft,
           UNCHANGED <<m_serial, wrongSNR, restamped>>,
           \A x \in Serials \cup {OtherDevice} : ReadIsOf(x) =>
               /\ m_adjReadWrite'.m_adjDataReadIsValid => m_adjReadWrite'.m_adjData.serial = x
               /\ chip'.header \in {cache', chip'.body} => chip'.header.serial = x
    PROVE  ForeignInv'
<1> SUFFICES ASSUME Foreign', ~restamped'
             PROVE  wrongSNR' /\ \E x \in Serials \cup {OtherDevice} : ReadIsOf(x)'
    BY DEF ForeignInv
<1>1. PICK q \in Ranges : owner'[q] # m_serial'
    BY DEF Foreign
<1>2. Foreign
    BY <1>1 DEF Foreign, OwnersLeft
<1>3. PICK x \in Serials \cup {OtherDevice} : ReadIsOf(x)
    BY <1>2 DEF ForeignInv
<1>4. \A r \in Ranges : owner'[r] \in {x, m_serial'}
    BY <1>3 DEF ReadIsOf, OwnersLeft
<1>5. ReadIsOf(x)'
    BY <1>3, <1>4 DEF ReadIsOf
<1> QED
    BY <1>2, <1>5 DEF ForeignInv

\* An export of the device's data.
LEMMA ExportingDevice ==
    ASSUME DeviceTyped, MemoryInv, ForeignInv, NEW owners \in OwnersLeft,
           NEW data \in DataOf(Ranges), NEW write \in Writes,
           ExportAdjData(data, owners, write),
           UNCHANGED <<m_serial, wrongSNR, cache>>
    PROVE  /\ MemoryInv' /\ ForeignInv'
           /\ images' \in 0 .. MaxImages /\ faults' \in 0 .. MaxFaults
           /\ owner' \in Owners /\ restamped' \in BOOLEAN
           /\ \A s \in Sockets : stored'[s] = stored[s]
<1> DEFINE image == Image(m_serial, data, owners)
<1>1. /\ images < MaxImages /\ images' = images + 1
      /\ Fault(write, "done")
      /\ m_adjReadWrite' = WriteData(m_adjReadWrite, image)
      /\ chip' = Written(chip, image, write)
      /\ stored' = [stored EXCEPT ![Device] = CASE write = "done" -> image
                                                [] write = "torn" -> Nothing
                                                [] write = "nothing" -> @]
      /\ owner' = owners
      /\ write = "done" => (restamped' <=> \E r \in Ranges : owners[r] # m_serial)
      /\ write # "done" => restamped' = restamped
      /\ restamped' \in BOOLEAN
    BY DEF ExportAdjData, DeviceTyped
<1>2. images \in Nat /\ images' \in 0 .. MaxImages /\ faults' \in 0 .. MaxFaults
    BY <1>1, ImageCounts, FaultCounts
<1>3. /\ DeviceImages \subseteq DeviceImages'
      /\ image \in DeviceImages' \ DeviceImages /\ image.serial = m_serial
      /\ image \notin {Fresh, Torn, Nothing}
    BY <1>1, <1>2, NewImage DEF DeviceTyped, OwnersLeft
<1> HIDE DEF image
<1>4. owner' \in Owners /\ restamped' \in BOOLEAN
    BY <1>1 DEF OwnersLeft
<1>5. Device \notin Sockets
    BY AdjustmentAssumption
<1>6. \A s \in Sockets : stored'[s] = stored[s]
    BY <1>1, <1>5 DEF MemoryInv
<1>7. /\ chip \in Chips(DeviceImages') /\ chip' \in Chips(DeviceImages')
      /\ cache \in DeviceImages \cup {Nothing} /\ cache' = cache
    BY <1>1, <1>3, ImagesGrow, WrittenGives DEF MemoryInv
<1>8. /\ m_adjReadWrite' \in ReadWrites(DeviceImages')
      /\ ~m_adjReadWrite'.m_adjDataReadIsValid
    BY <1>1, <1>3, WriteDataGives
<1>9. HasStored(stored'[Device], chip', m_adjReadWrite')
    <2>1. DOMAIN stored = Sockets \cup {Device} /\ HasStored(stored[Device], chip, m_adjReadWrite)
        BY DEF MemoryInv
    <2>2. CASE write = "done"
        <3>1. stored'[Device] = image /\ chip' = [header |-> image, body |-> image]
            BY <1>1, <2>1, <2>2 DEF Written
        <3> QED
            BY <1>3, <1>8, <3>1 DEF HasStored
    <2>3. CASE write = "torn"
        <3>1. stored'[Device] = Nothing
            BY <1>1, <2>1, <2>3
        <3> QED
            BY <3>1 DEF HasStored
    <2>4. CASE write = "nothing"
        <3>1. stored'[Device] = stored[Device] /\ chip' = chip
            BY <1>1, <2>1, <2>4 DEF Written
        <3> QED
            BY <1>8, <2>1, <3>1 DEF HasStored
    <2> QED
        BY <2>2, <2>3, <2>4 DEF Writes
<1>10. MemoryInv'
    <2>1. DOMAIN stored' = Sockets \cup {Device}
        BY <1>1 DEF MemoryInv
    <2> QED
        BY <1>3, <1>7, <1>8, <1>9, <2>1 DEF MemoryInv
<1>11. ForeignInv'
    <2>1. CASE write = "done"
        BY <1>1, <2>1 DEF ForeignInv, Foreign
    <2>2. CASE write = "torn"
        <3>1. chip' = [header |-> image, body |-> Torn] /\ restamped' = restamped
            BY <1>1, <2>2 DEF Written
        <3>2. chip'.header \notin {cache', chip'.body}
            BY <1>3, <1>7, <3>1
        <3> QED
            BY <1>1, <1>8, <3>1, <3>2, ForeignKept
    <2>3. CASE write = "nothing"
        <3>1. chip' = chip /\ restamped' = restamped
            BY <1>1, <2>3 DEF Written
        <3>2. \A x \in Serials \cup {OtherDevice} : ReadIsOf(x) =>
                 (chip'.header \in {cache', chip'.body} => chip'.header.serial = x)
            BY <3>1 DEF ReadIsOf
        <3> QED
            BY <1>1, <1>8, <3>1, <3>2, ForeignKept
    <2> QED
        BY <2>1, <2>2, <2>3 DEF Writes
<1> QED
    BY <1>2, <1>4, <1>6, <1>10, <1>11

\* Reading the chip, for the check of its serial number.
LEMMA ImportingDevice ==
    ASSUME DeviceTyped, MemoryInv, NEW rw \in {m_adjReadWrite, NewReadWrite}, NEW read,
           ImportAdjData(ReadData(rw, chip, cache, read), m_serial),
           UNCHANGED <<m_serial, chip, images, stored>>
    PROVE  MemoryInv' /\ wrongSNR' \in BOOLEAN
<1> DEFINE result == ReadData(rw, chip, cache, read)
<1>1. m_adjReadWrite' = result.rw /\ cache' = result.cache /\ wrongSNR' \in BOOLEAN
    BY DEF ImportAdjData
<1>2. /\ result.rw \in ReadWrites(DeviceImages)
      /\ result.cache \in DeviceImages \cup {Nothing}
      /\ HasStored(stored[Device], chip, result.rw)
    BY ReadingDevice
<1> HIDE DEF result
<1>3. DeviceImages' = DeviceImages
    BY DEF DeviceImages
<1> QED
    BY <1>1, <1>2, <1>3 DEF MemoryInv

LEMMA RestartDevice ==
    ASSUME DeviceTyped, MemoryInv, ForeignInv, Restart
    PROVE  DeviceTyped' /\ MemoryInv' /\ ForeignInv'
<1> PICK read \in Reads :
        LET result == ReadData(NewReadWrite, chip, cache, read)
        IN  /\ Command /\ Fault(read, "all")
            /\ ImportAdjData(result, m_serial)
            /\ InjectAdjData(result, m_serial)
            /\ UNCHANGED <<m_serial, permission, chip, images, stored>>
    BY DEF Restart
<1> DEFINE result == ReadData(NewReadWrite, chip, cache, read)
           image == result.rw.m_adjData
<1>1. /\ result.ok => image \in DeviceImages /\ result.rw.m_adjDataReadIsValid
      /\ ~result.ok => result.rw = NewReadWrite /\ result.cache = cache
      /\ result.ok => /\ image = chip.header /\ result.cache = chip.header
                      /\ chip.header \in {cache, chip.body}
    BY ReadingDevice DEF NewReadWrite
<1>2. /\ m_adjReadWrite' = result.rw /\ cache' = result.cache
      /\ wrongSNR' = ~(result.ok /\ image.serial = m_serial)
    BY DEF ImportAdjData
<1>3. MemoryInv' /\ wrongSNR' \in BOOLEAN
    BY ImportingDevice
<1>4. /\ ~result.ok => /\ just' = InitialFor(Ranges)
                       /\ owner' = [r \in Ranges |-> m_serial] /\ restamped' = FALSE
      /\ result.ok => /\ just' = WithDocument(InitialFor(Ranges), image)
                      /\ owner' = OwnerIn(image, m_serial)
                      /\ restamped' <=> \E r \in DOMAIN image.owner :
                                           image.owner[r] # image.serial
      /\ restamped' \in BOOLEAN
    BY DEF InjectAdjData
<1>5. /\ commands' \in 0 .. MaxCommands /\ faults' \in 0 .. MaxFaults
      /\ UNCHANGED <<m_serial, permission, chip, images>>
    BY CommandCounts, FaultCounts
<1> HIDE DEF result
<1>6. just' \in DataOf(Ranges) /\ owner' \in Owners
    <2>0. m_serial \in Serials
        BY DEF DeviceTyped
    <2>1. CASE ~result.ok
        BY <1>4, <2>0, <2>1, InitialTyped DEF Owners
    <2>2. CASE result.ok
        <3>1. /\ \A r \in DOMAIN image.just : image.just[r] \in Datum
              /\ \A r \in DOMAIN image.just : image.owner[r] \in Serials \cup {OtherDevice}
            BY <1>1, <2>2, DeviceImageData
        <3>2. owner' \in Owners
            BY <1>4, <2>0, <2>2, <3>1 DEF Owners, OwnerIn
        <3> QED
            BY <1>4, <2>2, <3>1, <3>2, InitialTyped, WithDocumentTyped
    <2> QED
        BY <2>1, <2>2
<1>7. DeviceTyped'
    BY <1>3, <1>4, <1>5, <1>6 DEF DeviceTyped
<1>8. ForeignInv'
    <2> SUFFICES ASSUME Foreign', ~restamped'
                 PROVE  wrongSNR' /\ \E x \in Serials \cup {OtherDevice} : ReadIsOf(x)'
        BY DEF ForeignInv
    <2>1. PICK q \in Ranges : owner'[q] # m_serial
        BY <1>5 DEF Foreign
    <2>2. result.ok
        BY <1>4, <2>1
    <2>3. /\ DOMAIN image.owner = DOMAIN image.just
          /\ image.serial \in Serials \cup {OtherDevice}
        BY <1>1, <2>2, DeviceImageData
    <2>4. \A r \in DOMAIN image.just : image.owner[r] = image.serial
        BY <1>4, <2>2, <2>3
    <2>5. \A r \in Ranges : owner'[r] = IF r \in DOMAIN image.just THEN image.serial
                                                                  ELSE m_serial
        BY <1>4, <2>2, <2>4 DEF OwnerIn
    <2>6. image.serial # m_serial
        BY <2>1, <2>5
    <2>7. PICK x \in Serials \cup {OtherDevice} : x = image.serial
        BY <2>3
    <2>8. ReadIsOf(x)'
        BY <1>1, <1>2, <1>5, <2>2, <2>5, <2>6, <2>7 DEF ReadIsOf
    <2> QED
        BY <1>2, <2>6, <2>8
<1> QED
    BY <1>3, <1>7, <1>8

LEMMA FlashReadDevice ==
    ASSUME DeviceTyped, MemoryInv, ForeignInv, NEW read \in Reads, FlashRead(read)
    PROVE  DeviceTyped' /\ MemoryInv' /\ ForeignInv'
<1> DEFINE result == ReadData(m_adjReadWrite, chip, cache, read)
           image == result.rw.m_adjData
<1>1. /\ result.ok => image \in DeviceImages /\ result.rw.m_adjDataReadIsValid
      /\ m_adjReadWrite.m_adjDataReadIsValid \/ ~result.ok
            => result.rw = m_adjReadWrite /\ result.cache = cache
      /\ ~m_adjReadWrite.m_adjDataReadIsValid /\ result.ok =>
            /\ image = chip.header /\ result.cache = chip.header
            /\ chip.header \in {cache, chip.body}
      /\ m_adjReadWrite.m_adjDataReadIsValid => result.ok
    BY ReadingDevice
<1>2. /\ m_adjReadWrite' = result.rw /\ cache' = result.cache
      /\ wrongSNR' = ~(result.ok /\ image.serial = m_serial)
      /\ UNCHANGED <<m_serial, just, chip, owner, restamped, permission, images, stored>>
    BY DEF FlashRead, ImportAdjData
<1>3. MemoryInv' /\ wrongSNR' \in BOOLEAN
    BY <1>2, ImportingDevice DEF FlashRead
<1>4. commands' \in 0 .. MaxCommands /\ faults' \in 0 .. MaxFaults
    BY CommandCounts, FaultCounts DEF FlashRead
<1> HIDE DEF result
<1>5. DeviceTyped'
    BY <1>2, <1>3, <1>4 DEF DeviceTyped
<1>6. ForeignInv'
    <2> SUFFICES ASSUME Foreign, ~restamped
                 PROVE  wrongSNR' /\ \E x \in Serials \cup {OtherDevice} : ReadIsOf(x)'
        BY <1>2 DEF ForeignInv, Foreign
    <2>1. PICK x \in Serials \cup {OtherDevice} : ReadIsOf(x)
        BY DEF ForeignInv
    <2>2. result.ok => image.serial = x
        BY <1>1, <2>1 DEF ReadIsOf
    <2>3. wrongSNR' /\ x # m_serial'
        BY <1>2, <2>1, <2>2 DEF ReadIsOf
    <2>4. m_adjReadWrite'.m_adjDataReadIsValid => image.serial = x
        BY <1>1, <1>2, <2>1, <2>2 DEF ReadIsOf
    <2>5. chip.header \in {cache', chip.body} => chip.header.serial = x
        BY <1>1, <1>2, <2>1, <2>2 DEF ReadIsOf
    <2>6. ReadIsOf(x)'
        BY <1>2, <2>1, <2>3, <2>4, <2>5 DEF ReadIsOf
    <2> QED
        BY <2>3, <2>6
<1> QED
    BY <1>3, <1>5, <1>6

LEMMA WriteSerialNumberDevice ==
    ASSUME DeviceTyped, MemoryInv, ForeignInv, NEW serial \in Serials,
           WriteSerialNumber(serial)
    PROVE  DeviceTyped' /\ MemoryInv' /\ ForeignInv'
<1>1. /\ m_serial' = serial
      /\ owner' = [r \in Ranges |-> IF owner[r] = m_serial THEN serial ELSE owner[r]]
      /\ UNCHANGED <<just, wrongSNR, chip, m_adjReadWrite, cache, restamped, permission,
                     images, faults, stored>>
    BY DEF WriteSerialNumber
<1>2. commands' \in 0 .. MaxCommands
    BY CommandCounts DEF WriteSerialNumber
<1>3. DeviceImages' = DeviceImages
    BY <1>1 DEF DeviceImages
<1>4. ForeignInv'
    <2> SUFFICES ASSUME Foreign', ~restamped'
                 PROVE  wrongSNR' /\ \E x \in Serials \cup {OtherDevice} : ReadIsOf(x)'
        BY DEF ForeignInv
    <2>1. PICK q \in Ranges : owner'[q] # serial
        BY <1>1 DEF Foreign
    <2>2. owner[q] # m_serial /\ owner[q] # serial
        BY <1>1, <2>1
    <2>3. Foreign
        BY <2>2 DEF Foreign
    <2>4. PICK x \in Serials \cup {OtherDevice} : ReadIsOf(x)
        BY <1>1, <2>3 DEF ForeignInv
    <2>5. x # serial
        BY <2>2, <2>4 DEF ReadIsOf
    <2>6. \A r \in Ranges : owner'[r] \in {x, serial}
        BY <1>1, <2>4 DEF ReadIsOf
    <2>7. ReadIsOf(x)'
        BY <1>1, <2>4, <2>5, <2>6 DEF ReadIsOf
    <2> QED
        BY <1>1, <2>3, <2>7 DEF ForeignInv
<1>5. owner' \in Owners
    BY <1>1 DEF DeviceTyped, Owners
<1> QED
    BY <1>1, <1>2, <1>3, <1>4, <1>5 DEF DeviceTyped, MemoryInv

\* What leaves the chip, its serial number and the status alone: it may change
\* the data of the ranges, make them those of nobody and count an image.
LEMMA DeviceUntouched ==
    ASSUME DeviceTyped, MemoryInv, ForeignInv, Command,
           just' \in DataOf(Ranges), owner' \in OwnersLeft, permission' \in BOOLEAN,
           images' \in 0 .. MaxImages, images =< images', faults' \in 0 .. MaxFaults,
           UNCHANGED <<m_serial, wrongSNR, chip, m_adjReadWrite, cache, restamped>>,
           DOMAIN stored' = DOMAIN stored, stored'[Device] = stored[Device]
    PROVE  DeviceTyped' /\ MemoryInv' /\ ForeignInv'
<1>1. commands' \in 0 .. MaxCommands
    BY CommandCounts
<1>2. DeviceTyped'
    BY <1>1 DEF DeviceTyped, OwnersLeft
<1>3. images \in Nat /\ images' \in Nat
    BY AdjustmentAssumption DEF DeviceTyped
<1>4. MemoryInv'
    BY <1>3, ImagesCounted
<1>5. ForeignInv'
    BY ForeignKept DEF ReadIsOf
<1> QED
    BY <1>2, <1>4, <1>5

LEMMA ReadXMLTyped ==
    ASSUME DeviceTyped, NEW doc \in Documents
    PROVE  ImportXMLDocument(doc) \in DataOf(Ranges)
<1>1. WithDocument(just, doc) \in DataOf(Ranges)
    BY DataAssumption, WithDocumentTyped DEF DeviceTyped
<1> QED
    BY <1>1 DEF ImportXMLDocument, DeviceTyped

\* A step of the device: it leaves the EEPROMs of the clamps alone.
LEMMA DeviceStep ==
    ASSUME DeviceTyped, MemoryInv, ForeignInv, DeviceNext
    PROVE  /\ DeviceTyped' /\ MemoryInv' /\ ForeignInv'
           /\ flash' = flash /\ \A s \in Sockets : stored'[s] = stored[s]
           /\ clamp' \in {clamp, [s \in Sockets |-> NoClamp], ClampData(clamp, InitData),
                          ClampData(clamp, ComputeData)}
<1> DEFINE ClampsKept ==
        /\ flash' = flash /\ \A s \in Sockets : stored'[s] = stored[s]
        /\ clamp' \in {clamp, [s \in Sockets |-> NoClamp], ClampData(clamp, InitData),
                       ClampData(clamp, ComputeData)}
<1>0. /\ just \in DataOf(Ranges) /\ permission \in BOOLEAN /\ images \in 0 .. MaxImages
      /\ faults \in 0 .. MaxFaults
      /\ owner \in OwnersLeft /\ \A data : StillOf(owner, data) \in OwnersLeft
    BY OwnerLeft, StillOfLeft DEF DeviceTyped
<1>1. CASE Restart
    <2>1. ClampsKept
        BY <1>1 DEF Restart
    <2> QED
        BY <1>1, <2>1, RestartDevice
<1>2. CASE TogglePermission
    BY <1>0, <1>2, DeviceUntouched DEF TogglePermission, deviceVars, clampVars
<1>3. CASE InitAll
    <2>1. ClampsKept /\ just' \in DataOf(Ranges)
        BY <1>0, <1>3, DeviceDataTyped DEF InitAll, DeviceData, ClampData
    <2> QED
        BY <1>0, <1>3, <2>1, DeviceUntouched DEF InitAll
<1>4. CASE ComputeAll
    <2>1. ClampsKept /\ just' \in DataOf(Ranges)
        BY <1>0, <1>4, DeviceDataTyped DEF ComputeAll, DeviceData, ClampData
    <2> QED
        BY <1>0, <1>4, <2>1, DeviceUntouched DEF ComputeAll
<1>5. CASE \E serial \in Serials : WriteSerialNumber(serial)
    <2>1. ClampsKept
        BY <1>5 DEF WriteSerialNumber, clampVars
    <2> QED
        BY <1>5, <2>1, WriteSerialNumberDevice
<1>6. CASE \E read \in Reads : FlashRead(read)
    <2>1. ClampsKept
        BY <1>6 DEF FlashRead, clampVars
    <2> QED
        BY <1>6, <2>1, FlashReadDevice
<1>7. CASE \E write \in Writes : FlashWrite(write)
    <2> PICK write \in Writes : FlashWrite(write)
        BY <1>7
    <2>1. /\ Command /\ ExportAdjData(just, owner, write)
          /\ UNCHANGED <<m_serial, just, wrongSNR, cache, clampVars, permission>>
        BY DEF FlashWrite
    <2>2. /\ MemoryInv' /\ ForeignInv'
          /\ images' \in 0 .. MaxImages /\ faults' \in 0 .. MaxFaults
          /\ owner' \in Owners /\ restamped' \in BOOLEAN
          /\ \A s \in Sockets : stored'[s] = stored[s]
        BY <1>0, <2>1, ExportingDevice
    <2>3. DeviceTyped'
        BY <2>1, <2>2, CommandCounts DEF DeviceTyped
    <2> QED
        BY <2>1, <2>2, <2>3 DEF clampVars
<1>8. CASE \E write \in Writes : ResetAdjValues(write)
    <2> PICK write \in Writes : ResetAdjValues(write)
        BY <1>8
    <2> DEFINE data == DeviceData(just, InitData)
    <2>1. /\ Command /\ just' = data
          /\ ExportAdjData(data, StillOf(owner, data), write)
          /\ clamp' = ClampData(clamp, InitData)
          /\ UNCHANGED <<m_serial, wrongSNR, cache, flash, permission>>
        BY DEF ResetAdjValues, ExportAdjData, DeviceData, ClampData, StillOf
    <2>2. data \in DataOf(Ranges)
        BY <1>0, DeviceDataTyped DEF DeviceData
    <2> HIDE DEF data
    <2>3. /\ MemoryInv' /\ ForeignInv'
          /\ images' \in 0 .. MaxImages /\ faults' \in 0 .. MaxFaults
          /\ owner' \in Owners /\ restamped' \in BOOLEAN
          /\ \A s \in Sockets : stored'[s] = stored[s]
        BY <1>0, <2>1, <2>2, ExportingDevice
    <2>4. DeviceTyped'
        BY <2>1, <2>2, <2>3, CommandCounts DEF DeviceTyped
    <2> QED
        BY <2>1, <2>3, <2>4 DEF ClampData
<1>9. CASE \E r \in Ranges : WriteRange(r)
    <2> PICK r \in Ranges : WriteRange(r)
        BY <1>9
    <2>1. just[r] \in Datum
        BY <1>0 DEF DataOf
    <2>2. RangeWrites(just[r], Allowed(FALSE)) \subseteq Datum
        BY <2>1, AllowedKinds, DatumWrites
    <2>3. just' \in DataOf(Ranges)
        BY <1>0, <2>2 DEF WriteRange, DataOf
    <2>4. ClampsKept
        BY DEF WriteRange, clampVars
    <2> QED
        BY <1>0, <2>3, <2>4, DeviceUntouched DEF WriteRange
<1>10. CASE \E doc \in Documents : ReadXML(doc)
    <2> PICK doc \in Documents : ReadXML(doc)
        BY <1>10
    <2>1. just' \in DataOf(Ranges)
        BY ReadXMLTyped DEF ReadXML
    <2>2. ClampsKept
        BY DEF ReadXML, clampVars
    <2>3. owner' \in OwnersLeft
        BY OwnersFromDocument DEF ReadXML
    <2> QED
        BY <1>0, <2>1, <2>2, <2>3, DeviceUntouched DEF ReadXML
<1>11. CASE \E doc \in Documents : \E write \in Writes : ImportXML(doc, write)
    <2> PICK doc \in Documents, write \in Writes : ImportXML(doc, write)
        BY <1>11
    <2> DEFINE data == DeviceData(ImportXMLDocument(doc), ComputeData)
               owners == StillOf(OwnerWithDocument(doc), data)
    <2>0. owners \in OwnersLeft
        BY OwnersFromDocument, StillOfLeft
    <2>1. /\ Command /\ just' = data /\ ExportAdjData(data, owners, write)
          /\ clamp' = ClampData(clamp, ComputeData)
          /\ UNCHANGED <<m_serial, wrongSNR, cache, flash, permission>>
        BY DEF ImportXML, ExportAdjData, DeviceData, ClampData, StillOf
    <2>2. data \in DataOf(Ranges)
        BY ReadXMLTyped, DeviceDataTyped DEF DeviceData
    <2> HIDE DEF data, owners
    <2>3. /\ MemoryInv' /\ ForeignInv'
          /\ images' \in 0 .. MaxImages /\ faults' \in 0 .. MaxFaults
          /\ owner' \in Owners /\ restamped' \in BOOLEAN
          /\ \A s \in Sockets : stored'[s] = stored[s]
        BY <2>0, <2>1, <2>2, ExportingDevice
    <2>4. DeviceTyped'
        BY <2>1, <2>2, <2>3, CommandCounts DEF DeviceTyped
    <2> QED
        BY <2>1, <2>3, <2>4 DEF ClampData
<1> QED
    BY <1>1, <1>2, <1>3, <1>4, <1>5, <1>6, <1>7, <1>8, <1>9, <1>10, <1>11 DEF DeviceNext

-----------------------------------------------------------------------------
(* One clamp.                                                               *)

\* Data of the same ranges.
LEMMA SameRanges ==
    ASSUME NEW old \in AnyClampData, NEW new, DOMAIN new = DOMAIN old,
           new = [r \in DOMAIN old |-> new[r]], \A r \in DOMAIN old : new[r] \in Datum
    PROVE  new \in AnyClampData
<1>1. PICK t \in ClampTypes \cup {undefined} : old \in DataOf(RangesOf[t])
    BY DEF AnyClampData
<1>2. new \in DataOf(RangesOf[t])
    BY <1>1 DEF DataOf
<1> QED
    BY <1>2 DEF AnyClampData

LEMMA ClampRangesData ==
    ASSUME NEW data \in AnyClampData
    PROVE  \A r \in DOMAIN data : data[r] \in Datum
<1>1. PICK t \in ClampTypes \cup {undefined} : data \in DataOf(RangesOf[t])
    BY DEF AnyClampData
<1> QED
    BY <1>1 DEF DataOf

LEMMA ClampWithDocument ==
    ASSUME NEW data \in AnyClampData, NEW doc,
           \A r \in DOMAIN doc.just : doc.just[r] \in Datum
    PROVE  /\ WithDocument(data, doc) \in AnyClampData
           /\ DOMAIN WithDocument(data, doc) = DOMAIN data
<1> DEFINE new == WithDocument(data, doc)
<1>1. /\ DOMAIN new = DOMAIN data /\ new = [r \in DOMAIN data |-> new[r]]
      /\ \A r \in DOMAIN data : new[r] \in Datum
    BY ClampRangesData DEF WithDocument
<1> HIDE DEF new
<1>2. new \in AnyClampData
    BY <1>1, SameRanges
<1> QED
    BY <1>1, <1>2 DEF new

LEMMA NewRanges ==
    ASSUME NEW type \in ClampTypes \cup {undefined}
    PROVE  /\ InitialFor(RangesOf[type]) \in AnyClampData
           /\ DOMAIN InitialFor(RangesOf[type]) = RangesOf[type]
<1>1. InitialFor(RangesOf[type]) \in DataOf(RangesOf[type])
    BY InitialTyped
<1> QED
    BY <1>1 DEF AnyClampData, InitialFor

\* A clamp that is the same in all but its data and its serial number.
LEMMA SameClamp ==
    ASSUME NEW c, NEW d, NEW chp, NEW image, ClampOK(c, chp, image),
           d \in ClampObjects, d.type = c.type, d.listed = c.listed, d.rw = c.rw,
           DOMAIN d.just = DOMAIN c.just
    PROVE  ClampOK(d, chp, image)
BY DEF ClampOK

LEMMA ClampImageOK ==
    ASSUME images \in Nat, NEW c \in ClampObjects
    PROVE  /\ ClampImage(c) \in ClampImages /\ ClampImage(c).type = c.type
           /\ ClampImage(c) \notin {Fresh, Torn, Nothing}
<1>1. ClampImage(c) \in ClampImages /\ ClampImage(c).type = c.type
    BY DEF ClampImage, ClampImages, ClampObjects, ClampSerialNumbers
<1> QED
    BY <1>1, NoImages

LEMMA ReadingClamp ==
    ASSUME NEW chp \in Chips(ClampImages), NEW rw \in ReadWrites(ClampImages), NEW image,
           HasStored(image, chp, rw), NEW read
    PROVE  LET result == ReadData(rw, chp, Nothing, read)
           IN  /\ result.rw \in ReadWrites(ClampImages)
               /\ HasStored(image, chp, result.rw)
               /\ result.ok => /\ result.rw.m_adjData \in ClampImages
                               /\ result.rw.m_adjDataReadIsValid
                               /\ image # Nothing => result.rw.m_adjData = image
               /\ rw.m_adjDataReadIsValid => result.ok /\ result.rw = rw
<1>1. Nothing \notin ClampImages /\ Fresh \notin ClampImages
    BY NoImages
<1> DEFINE result == ReadData(rw, chp, Nothing, read)
<1>2. /\ result.rw \in ReadWrites(ClampImages)
      /\ result.ok => result.rw.m_adjData \in ClampImages /\ result.rw.m_adjDataReadIsValid
      /\ rw.m_adjDataReadIsValid \/ ~result.ok => result.rw = rw
      /\ ~rw.m_adjDataReadIsValid /\ result.ok => result.rw.m_adjData = chp.header
      /\ rw.m_adjDataReadIsValid => result.ok
    BY <1>1, ReadDataGives
<1> HIDE DEF result
<1>3. HasStored(image, chp, result.rw)
    <2>1. CASE result.rw = rw
        BY <2>1
    <2>2. CASE result.rw.m_adjData = chp.header
        BY <2>2 DEF HasStored
    <2> QED
        BY <1>2, <2>1, <2>2
<1>4. result.ok /\ image # Nothing => result.rw.m_adjData = image
    BY <1>2, <1>3 DEF HasStored
<1> QED
    BY <1>2, <1>3, <1>4 DEF result

\* The clamp c is written: what its EEPROM and the ghost are then.
LEMMA ExportingClamp ==
    ASSUME images \in Nat, NEW c \in ClampObjects, NEW chp, NEW image, NEW write \in Writes,
           chp \in Chips(ClampImages), HasStored(image, chp, NewReadWrite),
           c.listed => /\ DOMAIN c.just = RangesOf[c.type] /\ c.type # undefined
                       /\ write = "nothing" /\ image # Nothing => image.type = c.type,
           NEW next, next = CASE write = "done" -> ClampImage(c)
                              [] write = "torn" -> Nothing
                              [] write = "nothing" -> image
    PROVE  SocketOK([c EXCEPT !.rw = WriteData(@, ClampImage(c))],
                    Written(chp, ClampImage(c), write), next)
<1> DEFINE new == ClampImage(c)
           d == [c EXCEPT !.rw = WriteData(@, new)]
           chn == Written(chp, new, write)
<1>1. new \in ClampImages /\ new.type = c.type /\ new \notin {Fresh, Torn, Nothing}
    BY ClampImageOK
<1> HIDE DEF new
<1>2. d.rw \in ReadWrites(ClampImages) /\ ~d.rw.m_adjDataReadIsValid
    BY <1>1, WriteDataGives DEF ClampObjects
<1>3. /\ d \in ClampObjects /\ d.type = c.type /\ d.listed = c.listed
      /\ d.just = c.just
    BY <1>2 DEF ClampObjects
<1>4. chn \in Chips(ClampImages)
    BY <1>1, WrittenGives
<1> HIDE DEF d
<1>5. /\ HasStored(next, chn, NewReadWrite) /\ HasStored(next, chn, d.rw)
      /\ c.listed /\ next # Nothing => next.type = c.type
    <2>1. CASE write = "done"
        <3>1. next = new /\ chn = [header |-> new, body |-> new]
            BY <2>1 DEF Written, new
        <3>2. chn.header = new /\ chn.body = new
            BY <3>1
        <3> HIDE DEF chn
        <3>3. HasStored(next, chn, d.rw)
            BY <1>1, <1>2, <3>1, <3>2 DEF HasStored
        <3>4. HasStored(next, chn, NewReadWrite)
            BY <1>1, <3>1, <3>2 DEF HasStored, NewReadWrite
        <3> QED
            BY <1>1, <3>1, <3>3, <3>4
    <2>2. CASE write = "torn"
        BY <2>2 DEF HasStored
    <2>3. CASE write = "nothing"
        <3>1. next = image /\ chn = chp
            BY <2>3 DEF Written
        <3> QED
            BY <1>2, <2>3, <3>1 DEF HasStored
    <2> QED
        BY <2>1, <2>2, <2>3 DEF Writes
<1>6. SocketOK(d, chn, next)
    BY <1>3, <1>4, <1>5 DEF SocketOK, ClampOK
<1> QED
    BY <1>6 DEF d, new

LEMMA ImportedClamp ==
    ASSUME NEW c \in ClampObjects, NEW doc \in ClampDocuments, NEW ignoreType
    PROVE  LET d == ImportClampXMLDocument(c, doc, ignoreType)
           IN  /\ d \in ClampObjects /\ d.type = c.type /\ d.listed = c.listed
               /\ d.rw = c.rw /\ DOMAIN d.just = DOMAIN c.just
<1>1. c.just \in AnyClampData
    BY DEF ClampObjects
<1>2. /\ WithDocument(c.just, doc) \in AnyClampData
      /\ DOMAIN WithDocument(c.just, doc) = DOMAIN c.just
    BY <1>1, DataAssumption, ClampWithDocument
<1>3. doc.serial \in ClampSerialNumbers
    BY DEF ClampSerialNumbers
<1> QED
    BY <1>2, <1>3 DEF ImportClampXMLDocument, ClampObjects

LEMMA ImportedImage ==
    ASSUME NEW c \in ClampObjects, NEW image \in ClampImages
    PROVE  LET d == ImportClampAdjData(c, image)
           IN  /\ d \in ClampObjects /\ d.type = image.type /\ d.listed = c.listed
               /\ d.rw = c.rw /\ DOMAIN d.just = DOMAIN c.just
<1>1. c.just \in AnyClampData /\ image.just \in AnyClampData
    BY DEF ClampObjects, ClampImages
<1>2. /\ WithDocument(c.just, image) \in AnyClampData
      /\ DOMAIN WithDocument(c.just, image) = DOMAIN c.just
    BY <1>1, ClampRangesData, ClampWithDocument
<1>3. image.type \in ClampTypes \cup {undefined} /\ image.serial \in ClampSerialNumbers
    BY DEF ClampImages, ClampSerialNumbers
<1> QED
    BY <1>2, <1>3 DEF ImportClampAdjData, ClampObjects

-----------------------------------------------------------------------------
(* The steps of the clamps.                                                 *)

LEMMA OneSocket ==
    ASSUME ClampInv, NEW s \in Sockets, DOMAIN clamp' = Sockets, DOMAIN flash' = Sockets,
           \A o \in Sockets \ {s} : /\ clamp'[o] = clamp[o] /\ flash'[o] = flash[o]
                                    /\ stored'[o] = stored[o],
           SocketOK(clamp'[s], flash'[s], stored'[s])
    PROVE  ClampInv'
<1>1. \A o \in Sockets : SocketOK(clamp'[o], flash'[o], stored'[o])
    BY DEF ClampInv
<1> QED
    BY <1>1 DEF ClampInv, SocketOK, ClampOK

\* Only the clamp object at s changes.
LEMMA ClampObjectChanges ==
    ASSUME AdjInv, Command, NEW s \in Sockets, NEW new, clamp' = [clamp EXCEPT ![s] = new],
           SocketOK(new, flash[s], stored[s]), faults' \in 0 .. MaxFaults,
           UNCHANGED <<deviceVars, flash, permission, images, stored>>
    PROVE  AdjInv'
<1>1. DeviceTyped' /\ MemoryInv' /\ ForeignInv'
    <2>1. /\ just \in DataOf(Ranges) /\ permission \in BOOLEAN
          /\ images \in 0 .. MaxImages
        BY DEF AdjInv, DeviceTyped
    <2>2. owner \in OwnersLeft
        BY OwnerLeft DEF AdjInv
    <2> QED
        BY <2>1, <2>2, DeviceUntouched DEF AdjInv, deviceVars
<1>2. ClampInv'
    <2>1. /\ DOMAIN clamp' = Sockets /\ DOMAIN flash' = Sockets /\ clamp'[s] = new
          /\ \A o \in Sockets \ {s} : clamp'[o] = clamp[o]
        BY DEF AdjInv, ClampInv
    <2> QED
        BY <2>1, OneSocket DEF AdjInv
<1> QED
    BY <1>1, <1>2 DEF AdjInv

LEMMA PlugStep ==
    ASSUME AdjInv, NEW s \in Sockets, NEW read \in Reads, Plug(s, read)
    PROVE  AdjInv'
<1> DEFINE result == ReadData(NewReadWrite, flash[s], Nothing, read)
           type == TypeRead(result)
           new == [NewClamp(type) EXCEPT !.rw = result.rw]
           found == IF type = undefined THEN new
                    ELSE ImportClampAdjData(new, result.rw.m_adjData)
<1>1. /\ Command /\ Fault(read, "all") /\ clamp' = [clamp EXCEPT ![s] = found]
      /\ UNCHANGED <<deviceVars, flash, permission, images, stored>>
    BY DEF Plug
<1>2. SocketOK(NoClamp, flash[s], stored[s]) /\ flash[s] \in Chips(ClampImages)
      /\ HasStored(stored[s], flash[s], NewReadWrite)
    BY DEF AdjInv, ClampInv, SocketOK, ClampOK
<1>3. /\ result.rw \in ReadWrites(ClampImages)
      /\ HasStored(stored[s], flash[s], result.rw)
      /\ result.ok => /\ result.rw.m_adjData \in ClampImages
                      /\ stored[s] # Nothing => result.rw.m_adjData = stored[s]
    BY <1>2, NewReadWriteOK, ReadingClamp
<1> HIDE DEF result
<1>4. /\ type \in ClampTypes \cup {undefined}
      /\ type # undefined => result.ok /\ type = result.rw.m_adjData.type
    BY <1>3 DEF TypeRead, ClampImages
<1> HIDE DEF type
<1>5. /\ InitialFor(RangesOf[type]) \in AnyClampData
      /\ DOMAIN InitialFor(RangesOf[type]) = RangesOf[type]
    BY <1>4, NewRanges
<1>6. /\ new \in ClampObjects /\ new.type = type /\ new.rw = result.rw
      /\ (new.listed => type # undefined) /\ DOMAIN new.just = RangesOf[type]
    BY <1>3, <1>4, <1>5 DEF NewClamp, ClampObjects, ClampSerialNumbers
<1> HIDE DEF new
<1>7. SocketOK(found, flash[s], stored[s])
    <2>1. CASE type = undefined
        BY <1>2, <1>3, <1>6, <2>1 DEF SocketOK, ClampOK
    <2>2. CASE type # undefined
        <3> DEFINE image == result.rw.m_adjData
        <3>1. /\ image \in ClampImages /\ image.type = type
              /\ stored[s] # Nothing => image = stored[s]
            BY <1>3, <1>4, <2>2
        <3> HIDE DEF image
        <3> DEFINE d == ImportClampAdjData(new, image)
        <3>2. /\ d \in ClampObjects /\ d.type = image.type /\ d.listed = new.listed
              /\ d.rw = new.rw /\ DOMAIN d.just = DOMAIN new.just
            BY <1>6, <3>1, ImportedImage
        <3>3. found = d
            BY <2>2 DEF image
        <3> HIDE DEF d
        <3>4. /\ d.rw = result.rw /\ d.type = type /\ DOMAIN d.just = RangesOf[type]
            BY <1>6, <3>1, <3>2
        <3> QED
            BY <1>2, <1>3, <2>2, <3>1, <3>2, <3>3, <3>4 DEF SocketOK, ClampOK
    <2> QED
        BY <2>1, <2>2
<1> HIDE DEF found
<1>8. faults' \in 0 .. MaxFaults
    BY <1>1, FaultCounts DEF AdjInv
<1> QED
    BY <1>1, <1>7, <1>8, ClampObjectChanges

LEMMA UnplugStep ==
    ASSUME AdjInv, NEW s \in Sockets, Unplug(s)
    PROVE  AdjInv'
<1>1. SocketOK(NoClamp, flash[s], stored[s])
    BY DEF AdjInv, ClampInv, SocketOK, ClampOK
<1>2. faults' \in 0 .. MaxFaults
    BY DEF Unplug, AdjInv, DeviceTyped
<1> QED
    BY <1>1, <1>2, ClampObjectChanges DEF Unplug

LEMMA WriteSerialStep ==
    ASSUME AdjInv, NEW s \in Sockets, NEW serial \in ClampSerials, WriteSerial(s, serial)
    PROVE  AdjInv'
<1> DEFINE new == [clamp[s] EXCEPT !.serial = serial]
<1>1. /\ clamp[s] # NoClamp /\ SocketOK(clamp[s], flash[s], stored[s])
      /\ clamp[s] \in ClampObjects
    BY DEF WriteSerial, AdjInv, ClampInv, SocketOK, ClampOK
<1>2. /\ new \in ClampObjects /\ new.type = clamp[s].type /\ new.listed = clamp[s].listed
      /\ new.rw = clamp[s].rw /\ new.just = clamp[s].just
    BY <1>1 DEF ClampObjects, ClampSerialNumbers
<1>3. clamp' = [clamp EXCEPT ![s] = new]
    BY DEF WriteSerial
<1> HIDE DEF new
<1>4. SocketOK(new, flash[s], stored[s])
    BY <1>1, <1>2, SameClamp DEF SocketOK
<1>5. faults' \in 0 .. MaxFaults
    BY DEF WriteSerial, AdjInv, DeviceTyped
<1> QED
    BY <1>3, <1>4, <1>5, ClampObjectChanges DEF WriteSerial

LEMMA ReadClampXMLStep ==
    ASSUME AdjInv, NEW s \in Sockets, NEW doc \in ClampDocuments, ReadClampXML(s, doc)
    PROVE  AdjInv'
<1> DEFINE new == ImportClampXMLDocument(clamp[s], doc, FALSE)
<1>1. /\ clamp[s] # NoClamp /\ SocketOK(clamp[s], flash[s], stored[s])
      /\ clamp[s] \in ClampObjects
    BY DEF ReadClampXML, AdjInv, ClampInv, SocketOK, ClampOK
<1>2. /\ new \in ClampObjects /\ new.type = clamp[s].type /\ new.listed = clamp[s].listed
      /\ new.rw = clamp[s].rw /\ DOMAIN new.just = DOMAIN clamp[s].just
    BY <1>1, ImportedClamp
<1>3. clamp' = [clamp EXCEPT ![s] = new]
    BY DEF ReadClampXML
<1> HIDE DEF new
<1>4. SocketOK(new, flash[s], stored[s])
    BY <1>1, <1>2, SameClamp DEF SocketOK
<1>5. faults' \in 0 .. MaxFaults
    BY DEF ReadClampXML, AdjInv, DeviceTyped
<1> QED
    BY <1>3, <1>4, <1>5, ClampObjectChanges DEF ReadClampXML

LEMMA WriteClampRangeStep ==
    ASSUME AdjInv, NEW s \in Sockets, NEW r, WriteClampRange(s, r)
    PROVE  AdjInv'
<1> DEFINE allowed == Allowed(Always(clamp[s].type))
<1>1. PICK d \in RangeWrites(clamp[s].just[r], allowed) :
          clamp' = [clamp EXCEPT ![s].just[r] = d]
    BY DEF WriteClampRange
<1> DEFINE new == [clamp[s] EXCEPT !.just = [@ EXCEPT ![r] = d]]
<1>2. /\ clamp[s] # NoClamp /\ SocketOK(clamp[s], flash[s], stored[s])
      /\ clamp[s] \in ClampObjects /\ r \in DOMAIN clamp[s].just
    BY DEF WriteClampRange, AdjInv, ClampInv, SocketOK, ClampOK
<1>3. d \in Datum
    <2>1. allowed \in SUBSET Kinds
        BY AllowedKinds
    <2>2. clamp[s].just[r] \in Datum
        BY <1>2, ClampRangesData DEF ClampObjects
    <2> HIDE DEF allowed
    <2> QED
        BY <1>1, <2>1, <2>2, DatumWrites
<1>4. /\ [clamp[s].just EXCEPT ![r] = d] \in AnyClampData
      /\ DOMAIN [clamp[s].just EXCEPT ![r] = d] = DOMAIN clamp[s].just
    <2>1. clamp[s].just \in AnyClampData
        BY <1>2 DEF ClampObjects
    <2>2. PICK t \in ClampTypes \cup {undefined} : clamp[s].just \in DataOf(RangesOf[t])
        BY <2>1 DEF AnyClampData
    <2>3. [clamp[s].just EXCEPT ![r] = d] \in DataOf(RangesOf[t])
        BY <1>3, <2>2 DEF DataOf
    <2> QED
        BY <2>3 DEF AnyClampData
<1>5. /\ new \in ClampObjects /\ new.type = clamp[s].type /\ new.listed = clamp[s].listed
      /\ new.rw = clamp[s].rw /\ DOMAIN new.just = DOMAIN clamp[s].just
    BY <1>2, <1>4 DEF ClampObjects
<1>6. clamp' = [clamp EXCEPT ![s] = new]
    BY <1>1
<1> HIDE DEF new
<1>7. SocketOK(new, flash[s], stored[s])
    BY <1>2, <1>5, SameClamp DEF SocketOK
<1>8. faults' \in 0 .. MaxFaults
    BY DEF WriteClampRange, AdjInv, DeviceTyped
<1> QED
    BY <1>6, <1>7, <1>8, ClampObjectChanges DEF WriteClampRange

LEMMA ClampFlashReadStep ==
    ASSUME AdjInv, NEW s \in Sockets, NEW read \in Reads, NEW again \in Reads,
           ClampFlashRead(s, read, again)
    PROVE  AdjInv'
<1> DEFINE first == ReadData(clamp[s].rw, flash[s], Nothing, read)
           second == ReadData(first.rw, flash[s], Nothing, again)
           b == [clamp[s] EXCEPT !.rw = first.rw]
           c == [clamp[s] EXCEPT !.rw = second.rw]
           new == IF TypeRead(first) # clamp[s].type THEN b
                  ELSE IF second.ok THEN ImportClampAdjData(c, second.rw.m_adjData)
                  ELSE c
<1>1. /\ clamp[s] # NoClamp /\ SocketOK(clamp[s], flash[s], stored[s])
      /\ clamp[s] \in ClampObjects /\ clamp[s].rw \in ReadWrites(ClampImages)
      /\ flash[s] \in Chips(ClampImages) /\ HasStored(stored[s], flash[s], clamp[s].rw)
      /\ HasStored(stored[s], flash[s], NewReadWrite)
      /\ clamp[s].listed => /\ DOMAIN clamp[s].just = RangesOf[clamp[s].type]
                            /\ clamp[s].type # undefined
                            /\ stored[s] # Nothing => stored[s].type = clamp[s].type
    BY DEF ClampFlashRead, AdjInv, ClampInv, SocketOK, ClampOK, ClampObjects
<1>2. clamp' = [clamp EXCEPT ![s] = new] /\ faults' \in 0 .. MaxFaults
    <2>1. clamp' = [clamp EXCEPT ![s] = new]
        BY DEF ClampFlashRead
    <2>2. Cardinality({i \in 1..2 : <<read, again>>[i] # "all"}) \in Nat
        <3>1. IsFiniteSet({i \in 1..2 : <<read, again>>[i] # "all"})
            BY FS_Interval, FS_Subset
        <3> QED
            BY <3>1, FS_CardinalityType
    <2>3. /\ faults' = faults + Cardinality({i \in 1..2 : <<read, again>>[i] # "all"})
          /\ faults' <= MaxFaults
        BY DEF ClampFlashRead
    <2>4. faults \in 0 .. MaxFaults /\ MaxFaults \in Nat
        BY AdjustmentAssumption DEF AdjInv, DeviceTyped
    <2> QED
        BY <2>1, <2>2, <2>3, <2>4
<1>3. /\ first.rw \in ReadWrites(ClampImages)
      /\ HasStored(stored[s], flash[s], first.rw)
      /\ first.ok => /\ first.rw.m_adjData \in ClampImages
                     /\ first.rw.m_adjDataReadIsValid
    BY <1>1, ReadingClamp
<1> HIDE DEF first
<1>4. /\ second.rw \in ReadWrites(ClampImages)
      /\ HasStored(stored[s], flash[s], second.rw)
      /\ second.ok => second.rw.m_adjData \in ClampImages
      /\ first.ok => second.rw = first.rw
    BY <1>1, <1>3, ReadingClamp
<1> HIDE DEF second
<1>5. /\ b \in ClampObjects /\ b.type = clamp[s].type /\ b.listed = clamp[s].listed
      /\ b.just = clamp[s].just /\ b.rw = first.rw
    BY <1>1, <1>3 DEF ClampObjects
<1>6. /\ c \in ClampObjects /\ c.type = clamp[s].type /\ c.listed = clamp[s].listed
      /\ c.just = clamp[s].just /\ c.rw = second.rw
    BY <1>1, <1>4 DEF ClampObjects
<1> HIDE DEF b, c
<1>7. SocketOK(b, flash[s], stored[s]) /\ SocketOK(c, flash[s], stored[s])
    BY <1>1, <1>3, <1>4, <1>5, <1>6 DEF SocketOK, ClampOK
<1>8. SocketOK(new, flash[s], stored[s])
    <2>1. CASE TypeRead(first) # clamp[s].type
        BY <1>7, <2>1
    <2>2. CASE TypeRead(first) = clamp[s].type /\ ~second.ok
        BY <1>7, <2>2
    <2>3. CASE TypeRead(first) = clamp[s].type /\ second.ok
        <3> DEFINE image == second.rw.m_adjData
                   d == ImportClampAdjData(c, image)
        <3>1. /\ new = d /\ image \in ClampImages
            BY <1>4, <2>3
        <3>2. c.listed => image.type = c.type
            BY <1>1, <1>4, <1>6, <2>3 DEF TypeRead
        <3> HIDE DEF image
        <3>3. /\ d \in ClampObjects /\ d.type = image.type /\ d.listed = c.listed
              /\ d.rw = c.rw /\ DOMAIN d.just = DOMAIN c.just
            BY <1>6, <3>1, ImportedImage
        <3> HIDE DEF d
        <3>4. SocketOK(d, flash[s], stored[s])
            BY <1>1, <1>4, <1>6, <3>2, <3>3 DEF SocketOK, ClampOK
        <3> QED
            BY <3>1, <3>4
    <2> QED
        BY <2>1, <2>2, <2>3
<1> HIDE DEF new
<1> QED
    BY <1>2, <1>8, ClampObjectChanges DEF ClampFlashRead

\* A step that exports the clamp c at s.
LEMMA ExportClampStep ==
    ASSUME AdjInv, Command, NEW s \in Sockets, NEW c \in ClampObjects, NEW write \in Writes,
           ExportClamp(s, c, write),
           c.listed => /\ DOMAIN c.just = RangesOf[c.type] /\ c.type # undefined
                       /\ write = "nothing" /\ stored[s] # Nothing
                             => stored[s].type = c.type,
           UNCHANGED <<deviceVars, permission>>
    PROVE  AdjInv'
<1> DEFINE new == [c EXCEPT !.rw = WriteData(@, ClampImage(c))]
           chn == Written(flash[s], ClampImage(c), write)
           next == StoredBy(s, write, ClampImage(c))
<1>1. /\ images < MaxImages /\ images' = images + 1 /\ Fault(write, "done")
      /\ clamp' = [clamp EXCEPT ![s] = new] /\ flash' = [flash EXCEPT ![s] = chn]
      /\ stored' = [stored EXCEPT ![s] = next]
    BY DEF ExportClamp
<1>2. /\ DeviceTyped /\ MemoryInv /\ ForeignInv
      /\ DOMAIN clamp = Sockets /\ DOMAIN flash = Sockets
      /\ DOMAIN stored = Sockets \cup {Device}
      /\ flash[s] \in Chips(ClampImages) /\ HasStored(stored[s], flash[s], NewReadWrite)
      /\ just \in DataOf(Ranges) /\ permission \in BOOLEAN
    BY DEF AdjInv, ClampInv, SocketOK, ClampOK, MemoryInv, DeviceTyped
<1>3. /\ images \in Nat /\ images =< images' /\ images' \in 0 .. MaxImages
      /\ faults' \in 0 .. MaxFaults
    BY <1>1, <1>2, ImageCounts, FaultCounts
<1>4. SocketOK(new, chn, next)
    <2>1. next = CASE write = "done" -> ClampImage(c)
                   [] write = "torn" -> Nothing
                   [] write = "nothing" -> stored[s]
        BY DEF StoredBy
    <2> HIDE DEF next
    <2> QED
        BY <1>2, <1>3, <2>1, ExportingClamp
<1> HIDE DEF new, chn, next
<1>5. DOMAIN stored' = DOMAIN stored /\ stored'[Device] = stored[Device]
    BY <1>1, <1>2, AdjustmentAssumption
<1>6. DeviceTyped' /\ MemoryInv' /\ ForeignInv'
    BY <1>2, <1>3, <1>5, OwnerLeft, DeviceUntouched DEF deviceVars
<1>7. ClampInv'
    <2>1. /\ DOMAIN clamp' = Sockets /\ DOMAIN flash' = Sockets
          /\ clamp'[s] = new /\ flash'[s] = chn /\ stored'[s] = next
          /\ \A o \in Sockets \ {s} : /\ clamp'[o] = clamp[o] /\ flash'[o] = flash[o]
                                      /\ stored'[o] = stored[o]
        BY <1>1, <1>2
    <2> QED
        BY <1>4, <2>1, OneSocket DEF AdjInv
<1> QED
    BY <1>6, <1>7 DEF AdjInv

LEMMA WriteTypeStep ==
    ASSUME AdjInv, NEW s \in Sockets, NEW type \in ClampTypes, NEW write \in Writes,
           WriteType(s, type, write)
    PROVE  AdjInv'
<1> DEFINE new == [clamp[s] EXCEPT !.type = type, !.just = InitialFor(RangesOf[type]),
                                   !.listed = (write = "done")]
<1>1. clamp[s] \in ClampObjects
    BY DEF WriteType, AdjInv, ClampInv, SocketOK, ClampOK
<1>2. /\ InitialFor(RangesOf[type]) \in AnyClampData
      /\ DOMAIN InitialFor(RangesOf[type]) = RangesOf[type]
    BY NewRanges
<1>3. /\ new \in ClampObjects /\ new.type = type /\ DOMAIN new.just = RangesOf[type]
      /\ new.listed => write = "done"
    BY <1>1, <1>2 DEF ClampObjects
<1>4. /\ Command /\ ExportClamp(s, new, write) /\ UNCHANGED <<deviceVars, permission>>
    BY DEF WriteType, ExportClamp
<1> HIDE DEF new
<1>5. type # undefined
    BY AdjustmentAssumption
<1>6. write = "done" => write # "nothing"
    OBVIOUS
<1>7. new.listed => /\ DOMAIN new.just = RangesOf[new.type] /\ new.type # undefined
                    /\ write = "nothing" /\ stored[s] # Nothing
                          => stored[s].type = new.type
    BY <1>3, <1>5, <1>6
<1> QED
    BY <1>3, <1>4, <1>7, ExportClampStep

LEMMA ClampFlashWriteStep ==
    ASSUME AdjInv, NEW s \in Sockets, NEW write \in Writes, ClampFlashWrite(s, write)
    PROVE  AdjInv'
<1>1. /\ clamp[s] \in ClampObjects
      /\ clamp[s].listed => /\ DOMAIN clamp[s].just = RangesOf[clamp[s].type]
                            /\ clamp[s].type # undefined
                            /\ stored[s] # Nothing => stored[s].type = clamp[s].type
    BY DEF ClampFlashWrite, AdjInv, ClampInv, SocketOK, ClampOK
<1>2. Command /\ ExportClamp(s, clamp[s], write) /\ UNCHANGED <<deviceVars, permission>>
    BY DEF ClampFlashWrite, ExportClamp
<1> QED
    BY <1>1, <1>2, ExportClampStep

LEMMA ClampFlashResetStep ==
    ASSUME AdjInv, NEW s \in Sockets, NEW write \in Writes, ClampFlashReset(s, write)
    PROVE  AdjInv'
<1> DEFINE new == [clamp[s] EXCEPT !.rw = ResetData(@)]
           chn == Erased(flash[s], write)
           next == IF write = "nothing" THEN stored[s] ELSE Nothing
<1>1. /\ Command /\ Fault(write, "done") /\ clamp[s] # NoClamp
      /\ clamp' = [clamp EXCEPT ![s] = new] /\ flash' = [flash EXCEPT ![s] = chn]
      /\ stored' = [stored EXCEPT ![s] = next]
      /\ UNCHANGED <<deviceVars, permission, images>>
    BY DEF ClampFlashReset
<1>2. /\ DeviceTyped /\ MemoryInv /\ ForeignInv
      /\ DOMAIN clamp = Sockets /\ DOMAIN flash = Sockets
      /\ DOMAIN stored = Sockets \cup {Device}
      /\ flash[s] \in Chips(ClampImages) /\ HasStored(stored[s], flash[s], NewReadWrite)
      /\ just \in DataOf(Ranges) /\ permission \in BOOLEAN
      /\ clamp[s] \in ClampObjects
      /\ clamp[s].listed => /\ DOMAIN clamp[s].just = RangesOf[clamp[s].type]
                            /\ clamp[s].type # undefined
                            /\ stored[s] # Nothing => stored[s].type = clamp[s].type
    BY <1>1 DEF AdjInv, ClampInv, SocketOK, ClampOK, MemoryInv, DeviceTyped
<1>3. faults' \in 0 .. MaxFaults
    BY <1>1, <1>2, FaultCounts
<1>4. /\ new \in ClampObjects /\ new.type = clamp[s].type /\ new.listed = clamp[s].listed
      /\ new.just = clamp[s].just /\ ~new.rw.m_adjDataReadIsValid
    BY <1>2 DEF ClampObjects, ResetData, ReadWrites
<1>5. /\ chn \in Chips(ClampImages) /\ HasStored(next, chn, NewReadWrite)
      /\ HasStored(next, chn, new.rw)
    <2>1. CASE write = "nothing"
        <3>1. chn = flash[s] /\ next = stored[s]
            BY <2>1 DEF Erased
        <3> QED
            BY <1>2, <1>4, <3>1 DEF HasStored
    <2>2. CASE write # "nothing"
        <3>1. chn = ErasedChip /\ next = Nothing
            BY <2>2 DEF Erased
        <3> QED
            BY <3>1 DEF HasStored, ErasedChip, Chips
    <2> QED
        BY <2>1, <2>2
<1>6. SocketOK(new, chn, next)
    BY <1>2, <1>4, <1>5 DEF SocketOK, ClampOK
<1> HIDE DEF new, chn, next
<1>7. DeviceTyped' /\ MemoryInv' /\ ForeignInv'
    <2>1. DOMAIN stored' = DOMAIN stored /\ stored'[Device] = stored[Device]
        BY <1>1, <1>2, AdjustmentAssumption
    <2>2. images' \in 0 .. MaxImages /\ images =< images'
        BY <1>1, <1>2, AdjustmentAssumption DEF DeviceTyped
    <2> QED
        BY <1>1, <1>2, <1>3, <2>1, <2>2, OwnerLeft, DeviceUntouched DEF deviceVars
<1>8. ClampInv'
    <2>1. /\ DOMAIN clamp' = Sockets /\ DOMAIN flash' = Sockets
          /\ clamp'[s] = new /\ flash'[s] = chn /\ stored'[s] = next
          /\ \A o \in Sockets \ {s} : /\ clamp'[o] = clamp[o] /\ flash'[o] = flash[o]
                                      /\ stored'[o] = stored[o]
        BY <1>1, <1>2
    <2> QED
        BY <1>6, <2>1, OneSocket DEF AdjInv
<1> QED
    BY <1>7, <1>8 DEF AdjInv

LEMMA WriteAllClampsStep ==
    ASSUME AdjInv, NEW tried \in SUBSET Sockets, NEW failing \in Sockets,
           NEW write \in Writes, WriteAllClamps(tried, failing, write)
    PROVE  AdjInv'
<1> DEFINE outcome(o) == IF o = failing THEN write ELSE "done"
           written(o) == [clamp[o] EXCEPT !.rw = WriteData(@, ClampImage(clamp[o]))]
           chn(o) == Written(flash[o], ClampImage(clamp[o]), outcome(o))
           next(o) == StoredBy(o, outcome(o), ClampImage(clamp[o]))
<1>1. /\ Command /\ images < MaxImages /\ images' = images + 1 /\ Fault(write, "done")
      /\ tried \subseteq Plugged(clamp)
      /\ clamp' = [o \in Sockets |-> IF o \in tried THEN written(o) ELSE clamp[o]]
      /\ flash' = [o \in Sockets |-> IF o \in tried THEN chn(o) ELSE flash[o]]
      /\ stored' = [o \in DOMAIN stored |-> IF o \in tried THEN next(o) ELSE stored[o]]
      /\ UNCHANGED <<deviceVars, permission>>
    BY DEF WriteAllClamps
<1>2. /\ DeviceTyped /\ MemoryInv /\ ForeignInv
      /\ DOMAIN stored = Sockets \cup {Device}
      /\ just \in DataOf(Ranges) /\ permission \in BOOLEAN
    BY DEF AdjInv, MemoryInv, DeviceTyped
<1>3. /\ images \in Nat /\ images =< images' /\ images' \in 0 .. MaxImages
      /\ faults' \in 0 .. MaxFaults
    BY <1>1, <1>2, ImageCounts, FaultCounts
<1>4. ASSUME NEW o \in tried
      PROVE  SocketOK(written(o), chn(o), next(o))
    <2>1. o \in Sockets /\ clamp[o] # NoClamp
        BY <1>1 DEF Plugged
    <2>2. /\ clamp[o] \in ClampObjects
          /\ flash[o] \in Chips(ClampImages) /\ HasStored(stored[o], flash[o], NewReadWrite)
          /\ clamp[o].listed => /\ DOMAIN clamp[o].just = RangesOf[clamp[o].type]
                                /\ clamp[o].type # undefined
                                /\ stored[o] # Nothing => stored[o].type = clamp[o].type
        BY <2>1 DEF AdjInv, ClampInv, SocketOK, ClampOK
    <2>3. outcome(o) \in Writes
        BY DEF Writes
    <2>4. next(o) = CASE outcome(o) = "done" -> ClampImage(clamp[o])
                      [] outcome(o) = "torn" -> Nothing
                      [] outcome(o) = "nothing" -> stored[o]
        BY DEF StoredBy
    <2> HIDE DEF outcome, next
    <2> QED
        BY <1>3, <2>2, <2>3, <2>4, ExportingClamp
<1> HIDE DEF written, chn, next
<1>5. DeviceTyped' /\ MemoryInv' /\ ForeignInv'
    <2>1. Device \notin tried
        BY AdjustmentAssumption
    <2>2. DOMAIN stored' = DOMAIN stored /\ stored'[Device] = stored[Device]
        BY <1>1, <1>2, <2>1
    <2> QED
        BY <1>1, <1>2, <1>3, <2>2, OwnerLeft, DeviceUntouched DEF deviceVars
<1>6. ClampInv'
    <2>1. ASSUME NEW o \in Sockets
          PROVE  SocketOK(clamp'[o], flash'[o], stored'[o])
        <3>1. CASE o \in tried
            <4>1. clamp'[o] = written(o) /\ flash'[o] = chn(o) /\ stored'[o] = next(o)
                BY <1>1, <1>2, <3>1
            <4> QED
                BY <1>4, <3>1, <4>1
        <3>2. CASE o \notin tried
            <4>1. clamp'[o] = clamp[o] /\ flash'[o] = flash[o] /\ stored'[o] = stored[o]
                BY <1>1, <1>2, <3>2
            <4> QED
                BY <4>1 DEF AdjInv, ClampInv
        <3> QED
            BY <3>1, <3>2
    <2>2. DOMAIN clamp' = Sockets /\ DOMAIN flash' = Sockets
        BY <1>1
    <2> QED
        BY <2>1, <2>2 DEF ClampInv, SocketOK, ClampOK
<1> QED
    BY <1>5, <1>6 DEF AdjInv

\* An operation on the data of all channels, at one socket.
LEMMA ClampDataOK ==
    ASSUME NEW clamps, NEW s \in Sockets, NEW chp, NEW image,
           ClampOK(clamps[s], chp, image)
    PROVE  /\ ClampOK(ClampData(clamps, InitData)[s], chp, image)
           /\ ClampOK(ClampData(clamps, ComputeData)[s], chp, image)
<1>1. CASE s \notin Listed(clamps)
    BY <1>1 DEF ClampData
<1>2. CASE s \in Listed(clamps)
    <2> DEFINE c == clamps[s]
               allowed == Allowed(Always(c.type))
               initial == [r \in DOMAIN c.just |-> InitData(c.just[r], allowed)]
               computed == [r \in DOMAIN c.just |-> ComputeData(c.just[r], allowed)]
    <2>1. c # NoClamp /\ c \in ClampObjects /\ c.just \in AnyClampData
        BY <1>2 DEF Listed, Plugged, ClampOK, ClampObjects
    <2>2. \A r \in DOMAIN c.just : c.just[r] \in Datum
        BY <2>1, ClampRangesData
    <2>3. /\ ClampData(clamps, InitData)[s] = [c EXCEPT !.just = initial]
          /\ ClampData(clamps, ComputeData)[s] = [c EXCEPT !.just = computed]
        BY <1>2 DEF ClampData
    <2>4. allowed \in SUBSET Kinds
        BY AllowedKinds
    <2> HIDE DEF allowed
    <2>5. /\ initial \in AnyClampData /\ DOMAIN initial = DOMAIN c.just
          /\ computed \in AnyClampData /\ DOMAIN computed = DOMAIN c.just
        <3>1. /\ DOMAIN initial = DOMAIN c.just /\ DOMAIN computed = DOMAIN c.just
              /\ initial = [r \in DOMAIN c.just |-> initial[r]]
              /\ computed = [r \in DOMAIN c.just |-> computed[r]]
            OBVIOUS
        <3>2. \A r \in DOMAIN c.just : initial[r] \in Datum /\ computed[r] \in Datum
            BY <2>2, <2>4, DatumWrites
        <3> HIDE DEF initial, computed
        <3> QED
            BY <2>1, <3>1, <3>2, SameRanges
    <2> HIDE DEF initial, computed
    <2>6. ClampOK([c EXCEPT !.just = initial], chp, image)
        <3> DEFINE d == [c EXCEPT !.just = initial]
        <3>1. /\ d \in ClampObjects /\ d.type = c.type /\ d.listed = c.listed
              /\ d.rw = c.rw /\ DOMAIN d.just = DOMAIN c.just
            BY <2>1, <2>5 DEF ClampObjects
        <3> HIDE DEF d
        <3>2. ClampOK(d, chp, image)
            BY <2>1, <3>1, SameClamp
        <3> QED
            BY <3>2 DEF d
    <2>7. ClampOK([c EXCEPT !.just = computed], chp, image)
        <3> DEFINE d == [c EXCEPT !.just = computed]
        <3>1. /\ d \in ClampObjects /\ d.type = c.type /\ d.listed = c.listed
              /\ d.rw = c.rw /\ DOMAIN d.just = DOMAIN c.just
            BY <2>1, <2>5 DEF ClampObjects
        <3> HIDE DEF d
        <3>2. ClampOK(d, chp, image)
            BY <2>1, <3>1, SameClamp
        <3> QED
            BY <3>2 DEF d
    <2> HIDE DEF c
    <2>8. /\ ClampData(clamps, InitData)[s] = [c EXCEPT !.just = initial]
          /\ ClampData(clamps, ComputeData)[s] = [c EXCEPT !.just = computed]
        BY <2>3
    <2> QED
        BY <2>6, <2>7, <2>8 DEF ClampData
<1> QED
    BY <1>1, <1>2 DEF ClampData

LEMMA ImportClampXmlsStep ==
    ASSUME AdjInv, NEW doc \in ClampDocuments, NEW single, NEW write \in Writes,
           ImportClampXmls(doc, single, write)
    PROVE  AdjInv'
<1>1. PICK s \in ClampsFor(doc, single) :
         LET ignoreType == clamp[s].serial # doc.serial
             imported == [clamp EXCEPT
                 ![s] = ImportClampXMLDocument(@, doc, ignoreType)]
             computed == ClampData(imported, ComputeData)
             c == computed[s]
         IN  /\ images < MaxImages /\ images' = images + 1
             /\ Fault(write, "done")
             /\ clamp' = [computed EXCEPT ![s].rw = WriteData(@, ClampImage(c))]
             /\ flash' = [flash EXCEPT ![s] = Written(@, ClampImage(c), write)]
             /\ stored' = [stored EXCEPT ![s] = StoredBy(s, write, ClampImage(c))]
    BY DEF ImportClampXmls, ClampData
<1> DEFINE ignoreType == clamp[s].serial # doc.serial
           import == ImportClampXMLDocument(clamp[s], doc, ignoreType)
           imported == [clamp EXCEPT ![s] = import]
           computed == ClampData(imported, ComputeData)
           c == computed[s]
           new == [c EXCEPT !.rw = WriteData(@, ClampImage(c))]
           chn == Written(flash[s], ClampImage(c), write)
           next == StoredBy(s, write, ClampImage(c))
<1>2. s \in Sockets /\ clamp[s] # NoClamp
    <2>1. ClampsFor(doc, single) \subseteq Plugged(clamp)
        BY DEF ClampsFor
    <2> QED
        BY <1>1, <2>1 DEF Plugged
<1>3. /\ images < MaxImages /\ images' = images + 1 /\ Fault(write, "done")
      /\ clamp' = [computed EXCEPT ![s] = new]
      /\ flash' = [flash EXCEPT ![s] = chn] /\ stored' = [stored EXCEPT ![s] = next]
      /\ DOMAIN computed = Sockets
    BY <1>1 DEF ClampData
<1>4. /\ Command /\ just' \in DataOf(Ranges)
      /\ owner' = StillOf(owner, just')
      /\ UNCHANGED <<m_serial, wrongSNR, chip, m_adjReadWrite, cache, restamped, permission>>
    BY DeviceDataTyped DEF ImportClampXmls, DeviceData, AdjInv, DeviceTyped
<1>5. /\ DeviceTyped /\ MemoryInv /\ ForeignInv
      /\ DOMAIN clamp = Sockets /\ DOMAIN flash = Sockets
      /\ DOMAIN stored = Sockets \cup {Device} /\ permission \in BOOLEAN
      /\ flash[s] \in Chips(ClampImages) /\ HasStored(stored[s], flash[s], NewReadWrite)
      /\ clamp[s] \in ClampObjects /\ SocketOK(clamp[s], flash[s], stored[s])
    BY <1>2 DEF AdjInv, ClampInv, SocketOK, ClampOK, MemoryInv, DeviceTyped
<1>6. /\ images \in Nat /\ images =< images' /\ images' \in 0 .. MaxImages
      /\ faults' \in 0 .. MaxFaults
    BY <1>3, <1>5, ImageCounts, FaultCounts
<1>7. ClampOK(import, flash[s], stored[s])
    <2>1. /\ import \in ClampObjects /\ import.type = clamp[s].type
          /\ import.listed = clamp[s].listed /\ import.rw = clamp[s].rw
          /\ DOMAIN import.just = DOMAIN clamp[s].just
        BY <1>5, ImportedClamp
    <2> HIDE DEF import
    <2> QED
        BY <1>2, <1>5, <2>1, SameClamp DEF SocketOK
<1> HIDE DEF import
<1>8. /\ imported[s] = import
      /\ \A o \in Sockets \ {s} : imported[o] = clamp[o]
    BY <1>2, <1>5
<1> HIDE DEF imported
<1>9. ClampOK(c, flash[s], stored[s])
    BY <1>2, <1>7, <1>8, ClampDataOK DEF ClampData
<1>10. \A o \in Sockets \ {s} : SocketOK(computed[o], flash[o], stored[o])
    <2>1. ASSUME NEW o \in Sockets \ {s}
          PROVE  SocketOK(computed[o], flash[o], stored[o])
        <3>1. imported[o] = clamp[o] /\ SocketOK(clamp[o], flash[o], stored[o])
            BY <1>8 DEF AdjInv, ClampInv
        <3>2. CASE clamp[o] = NoClamp
            <4>1. computed[o] = clamp[o]
                BY <3>1, <3>2 DEF ClampData, Listed, Plugged
            <4> HIDE DEF computed
            <4> QED
                BY <3>1, <4>1
        <3>3. CASE clamp[o] # NoClamp
            <4>1. ClampOK(computed[o], flash[o], stored[o])
                BY <3>1, <3>3, ClampDataOK DEF ClampData, SocketOK
            <4> HIDE DEF computed
            <4> QED
                BY <3>1, <4>1 DEF SocketOK
        <3> QED
            BY <3>2, <3>3
    <2> HIDE DEF computed
    <2> QED
        BY <2>1
<1> HIDE DEF computed
<1>11. SocketOK(new, chn, next)
    <2>1. next = CASE write = "done" -> ClampImage(c)
                   [] write = "torn" -> Nothing
                   [] write = "nothing" -> stored[s]
        BY DEF StoredBy
    <2>2. /\ c \in ClampObjects
          /\ c.listed => /\ DOMAIN c.just = RangesOf[c.type] /\ c.type # undefined
                         /\ stored[s] # Nothing => stored[s].type = c.type
        BY <1>9 DEF ClampOK
    <2> HIDE DEF next
    <2> QED
        BY <1>5, <1>6, <2>1, <2>2, ExportingClamp
<1> HIDE DEF c, new, chn, next
<1>12. DeviceTyped' /\ MemoryInv' /\ ForeignInv'
    <2>1. DOMAIN stored' = DOMAIN stored /\ stored'[Device] = stored[Device]
        BY <1>2, <1>3, <1>5, AdjustmentAssumption
    <2>2. owner' \in OwnersLeft
        BY <1>4, <1>5, OwnerLeft, StillOfLeft
    <2> QED
        BY <1>4, <1>5, <1>6, <2>1, <2>2, DeviceUntouched
<1>13. ClampInv'
    <2>1. /\ DOMAIN clamp' = Sockets /\ DOMAIN flash' = Sockets
          /\ clamp'[s] = new /\ flash'[s] = chn /\ stored'[s] = next
          /\ \A o \in Sockets \ {s} : /\ clamp'[o] = computed[o] /\ flash'[o] = flash[o]
                                      /\ stored'[o] = stored[o]
        BY <1>2, <1>3, <1>5
    <2>2. \A o \in Sockets : SocketOK(clamp'[o], flash'[o], stored'[o])
        BY <1>10, <1>11, <2>1
    <2> QED
        BY <2>1, <2>2 DEF ClampInv, SocketOK, ClampOK
<1> QED
    BY <1>12, <1>13 DEF AdjInv

-----------------------------------------------------------------------------
(* The specification.                                                       *)

LEMMA AdjInvInit == Init => AdjInv
<1> SUFFICES ASSUME Init
             PROVE  AdjInv
    OBVIOUS
<1>0. PICK image \in FirstImages :
        LET first == Written(ErasedChip, image, "done")
            result == ReadData(NewReadWrite, first, Nothing, "all")
        IN  /\ chip = first /\ m_adjReadWrite = result.rw
            /\ cache = result.cache
            /\ wrongSNR = (image.serial # m_serial)
            /\ just = WithDocument(InitialFor(Ranges), image)
            /\ owner = OwnerIn(image, m_serial)
    BY DEF Init
<1>1. /\ image \in DeviceImages /\ image \notin {Fresh, Torn, Nothing}
      /\ image.serial \in Serials \cup {OtherDevice}
      /\ \A r \in DOMAIN image.just : image.just[r] \in Datum
      /\ image.owner = [r \in DOMAIN image.just |-> image.serial]
    BY DataAssumption DEF DeviceImages
<1>2. /\ chip = [header |-> image, body |-> image]
      /\ wrongSNR \in BOOLEAN /\ (image.serial # m_serial => wrongSNR)
      /\ just = WithDocument(InitialFor(Ranges), image)
      /\ owner = [r \in Ranges |-> IF r \in DOMAIN image.just THEN image.serial
                                                             ELSE m_serial]
    BY <1>0, <1>1 DEF Written, OwnerIn
<1>3. /\ m_adjReadWrite = [m_adjData |-> image, m_adjDataReadIsValid |-> TRUE]
      /\ cache = image
    <2> DEFINE result == ReadData(NewReadWrite, chip, Nothing, "all")
    <2>1. m_adjReadWrite = result.rw /\ cache = result.cache
        BY <1>0
    <2>2. chip.header = image /\ chip.body = image
        BY <1>2
    <2>3. result = [ok |-> TRUE, cache |-> image,
                    rw |-> [m_adjData |-> image, m_adjDataReadIsValid |-> TRUE]]
        <3>1. ~NewReadWrite.m_adjDataReadIsValid
            BY DEF NewReadWrite
        <3>2. ~ReadFromCache(chip, Nothing)
            BY <1>1, <2>2 DEF ReadFromCache
        <3>3. ReadSizeAndChecksum(chip, "all") /\ ReadFromChip(chip, "all")
            BY <1>1, <2>2 DEF ReadSizeAndChecksum, ReadFromChip
        <3> QED
            BY <2>2, <3>1, <3>2, <3>3 DEF ReadData
    <2> HIDE DEF result
    <2> QED
        BY <2>1, <2>3
<1>4. /\ m_serial \in Serials /\ permission \in BOOLEAN
      /\ clamp = [s \in Sockets |-> NoClamp] /\ flash = [s \in Sockets |-> ErasedChip]
      /\ images = 0 /\ faults = 0 /\ commands = 0 /\ restamped = FALSE
      /\ stored = [s \in Sockets \cup {Device} |-> Nothing]
    BY DEF Init
<1>5. DeviceTyped
    <2>1. just \in DataOf(Ranges)
        BY <1>1, <1>2, InitialTyped, WithDocumentTyped
    <2> QED
        <3>1. owner \in Owners
            BY <1>1, <1>2, <1>4 DEF Owners
        <3>2. 0 \in 0 .. MaxImages /\ 0 \in 0 .. MaxFaults /\ 0 \in 0 .. MaxCommands
            BY AdjustmentAssumption
        <3> QED
            BY <1>2, <1>4, <2>1, <3>1, <3>2 DEF DeviceTyped
<1>6. MemoryInv
    <2>1. chip \in Chips(DeviceImages) /\ m_adjReadWrite \in ReadWrites(DeviceImages)
        BY <1>1, <1>2, <1>3 DEF Chips, ReadWrites
    <2>2. DOMAIN stored = Sockets \cup {Device} /\ stored[Device] = Nothing
        BY <1>4
    <2> QED
        BY <1>1, <1>3, <2>1, <2>2 DEF MemoryInv, HasStored
<1>7. ForeignInv
    <2>1. chip.header = image /\ m_adjReadWrite.m_adjData = image
        BY <1>2, <1>3
    <2>2. CASE image.serial = m_serial
        BY <1>2, <2>2 DEF ForeignInv, Foreign
    <2>3. CASE image.serial # m_serial
        BY <1>1, <1>2, <2>1, <2>3 DEF ForeignInv, ReadIsOf
    <2> QED
        BY <2>2, <2>3
<1>8. ClampInv
    BY <1>4 DEF ClampInv, SocketOK, Chips, ErasedChip, HasStored
<1> QED
    BY <1>5, <1>6, <1>7, <1>8 DEF AdjInv

LEMMA DeviceNextStep ==
    ASSUME AdjInv, DeviceNext
    PROVE  AdjInv'
<1>1. /\ DeviceTyped' /\ MemoryInv' /\ ForeignInv'
      /\ flash' = flash /\ \A s \in Sockets : stored'[s] = stored[s]
      /\ clamp' \in {clamp, [s \in Sockets |-> NoClamp], ClampData(clamp, InitData),
                     ClampData(clamp, ComputeData)}
    BY DeviceStep DEF AdjInv, ClampData
<1>2. DOMAIN clamp' = Sockets /\ DOMAIN flash' = Sockets
    BY <1>1 DEF AdjInv, ClampInv, ClampData
<1>3. ASSUME NEW s \in Sockets
      PROVE  SocketOK(clamp'[s], flash'[s], stored'[s])
    <2>1. flash'[s] = flash[s] /\ stored'[s] = stored[s]
        BY <1>1
    <2>2. SocketOK(clamp[s], flash[s], stored[s])
        BY DEF AdjInv, ClampInv
    <2>3. CASE clamp' = clamp \/ clamp' = [o \in Sockets |-> NoClamp]
        BY <2>1, <2>2, <2>3 DEF SocketOK
    <2>4. CASE /\ clamp' \in {ClampData(clamp, InitData), ClampData(clamp, ComputeData)}
               /\ clamp[s] = NoClamp
        <3>1. clamp'[s] = clamp[s]
            BY <2>4 DEF ClampData, Listed, Plugged
        <3> QED
            BY <2>1, <2>2, <3>1
    <2>5. CASE /\ clamp' \in {ClampData(clamp, InitData), ClampData(clamp, ComputeData)}
               /\ clamp[s] # NoClamp
        <3>1. ClampOK(clamp'[s], flash[s], stored[s])
            <4>1. ClampOK(clamp[s], flash[s], stored[s])
                BY <2>2, <2>5 DEF SocketOK
            <4> QED
                BY <2>5, <4>1, ClampDataOK DEF ClampData
        <3> QED
            BY <2>1, <2>2, <3>1 DEF SocketOK
    <2> QED
        BY <1>1, <2>3, <2>4, <2>5 DEF ClampData
<1>4. ClampInv'
    BY <1>2, <1>3 DEF ClampInv, SocketOK, ClampOK
<1> QED
    BY <1>1, <1>4 DEF AdjInv

LEMMA ClampNextStep ==
    ASSUME AdjInv, ClampNext
    PROVE  AdjInv'
<1> PICK s \in Sockets :
        \/ Unplug(s)
        \/ \E read \in Reads : Plug(s, read)
        \/ \E read, again \in Reads : ClampFlashRead(s, read, again)
        \/ \E serial \in ClampSerials : WriteSerial(s, serial)
        \/ \E write \in Writes :
              \/ \E type \in ClampTypes : WriteType(s, type, write)
              \/ ClampFlashWrite(s, write) \/ ClampFlashReset(s, write)
              \/ \E tried \in SUBSET Sockets : WriteAllClamps(tried, s, write)
        \/ \E r \in UNION {RangesOf[type] : type \in ClampTypes} : WriteClampRange(s, r)
        \/ \E doc \in ClampDocuments : ReadClampXML(s, doc)
    BY DEF ClampNext
<1>1. CASE \/ Unplug(s)
           \/ \E serial \in ClampSerials : WriteSerial(s, serial)
           \/ \E r \in UNION {RangesOf[type] : type \in ClampTypes} : WriteClampRange(s, r)
           \/ \E doc \in ClampDocuments : ReadClampXML(s, doc)
    BY <1>1, UnplugStep, WriteSerialStep, WriteClampRangeStep, ReadClampXMLStep
<1>2. CASE \/ \E read \in Reads : Plug(s, read)
           \/ \E read, again \in Reads : ClampFlashRead(s, read, again)
    BY <1>2, PlugStep, ClampFlashReadStep
<1>3. CASE \E write \in Writes :
              \/ \E type \in ClampTypes : WriteType(s, type, write)
              \/ ClampFlashWrite(s, write) \/ ClampFlashReset(s, write)
    BY <1>3, WriteTypeStep, ClampFlashWriteStep, ClampFlashResetStep
<1>4. CASE \E write \in Writes, tried \in SUBSET Sockets : WriteAllClamps(tried, s, write)
    BY <1>4, WriteAllClampsStep
<1> QED
    BY <1>1, <1>2, <1>3, <1>4

LEMMA AdjInvNext == AdjInv /\ [Next]_vars => AdjInv'
<1> SUFFICES ASSUME AdjInv, [Next]_vars
             PROVE  AdjInv'
    OBVIOUS
<1>1. CASE DeviceNext
    BY <1>1, DeviceNextStep
<1>2. CASE ClampNext
    BY <1>2, ClampNextStep
<1>3. CASE DocumentsNext
    BY <1>3, ImportClampXmlsStep DEF DocumentsNext
<1>4. CASE UNCHANGED vars
    <2>1. DeviceImages' = DeviceImages
        BY <1>4 DEF DeviceImages, vars
    <2>2. /\ UNCHANGED <<m_serial, just, wrongSNR, chip, m_adjReadWrite, cache, owner>>
          /\ UNCHANGED <<restamped, clamp, flash, permission, images, faults, commands, stored>>
        BY <1>4 DEF vars, deviceVars, clampVars
    <2>3. DeviceTyped' /\ MemoryInv' /\ ForeignInv'
        BY <2>1, <2>2 DEF AdjInv, DeviceTyped, MemoryInv, ForeignInv, Foreign, ReadIsOf
    <2>4. ClampInv'
        BY <2>2 DEF AdjInv, ClampInv, SocketOK, ClampOK
    <2> QED
        BY <2>3, <2>4 DEF AdjInv
<1> QED
    BY <1>1, <1>2, <1>3, <1>4 DEF Next

LEMMA AdjInvAlways == Spec => []AdjInv
BY AdjInvInit, AdjInvNext, PTL DEF Spec

\* No step makes data appear that was not created: not a document, an image of
\* another device or a change of the type of a clamp.
THEOREM AdjTypeCorrect == Spec => []AdjTypeOK
<1>1. AdjInv => AdjTypeOK
    BY DEF AdjInv, DeviceTyped, ClampInv, SocketOK, ClampOK, ClampObjects, AdjTypeOK, Plugged
<1> QED
    BY <1>1, AdjInvAlways, PTL

\* What an export reported as written is what every later read gives, of the
\* device and of each clamp, however many writes failed and services restarted
\* since: the object that reads is not valid after an export until it has read
\* again, and a file of an earlier image never passes for the header.
THEOREM AckedIsReadBackAlways == Spec => []AckedIsReadBack
<1>1. AdjInv => AckedIsReadBack
    <2> SUFFICES ASSUME AdjInv
                 PROVE  AckedIsReadBack
        OBVIOUS
    <2>1. \A image, chp, rw :
              HasStored(image, chp, rw) => HasStored(image, chp, NewReadWrite)
        BY DEF HasStored, NewReadWrite
    <2>2. stored[Device] # Nothing =>
             /\ ReadsBack(m_adjReadWrite, chip, cache, stored[Device])
             /\ ReadsBack(NewReadWrite, chip, cache, stored[Device])
        BY <2>1, StoredIsRead DEF AdjInv, MemoryInv
    <2>3. ASSUME NEW s \in Sockets, stored[s] # Nothing
          PROVE  /\ ReadsBack(NewReadWrite, flash[s], Nothing, stored[s])
                 /\ clamp[s] # NoClamp =>
                       ReadsBack(clamp[s].rw, flash[s], Nothing, stored[s])
        BY <2>3, StoredIsRead DEF AdjInv, ClampInv, SocketOK, ClampOK
    <2> QED
        BY <2>2, <2>3 DEF AckedIsReadBack
<1> QED
    BY <1>1, AdjInvAlways, PTL

\* While a range has data of another device the status says wrong serial number,
\* unless an export has put them under the device's own: every image that can be
\* read is then still for the other device, whatever failed and restarted since.
THEOREM ForeignDataIsToldAlways == Spec => []ForeignDataIsTold
<1>1. AdjInv => ForeignDataIsTold
    BY DEF AdjInv, ForeignInv, ForeignDataIsTold, Adjusted
<1> QED
    BY <1>1, AdjInvAlways, PTL

\* A clamp whose ranges joined those of the channels has the ranges of its type
\* and that type in its EEPROM, whatever failed and was imported since.
THEOREM ListedAsStoredAlways == Spec => []ListedAsStored
<1>1. AdjInv => ListedAsStored
    BY DEF AdjInv, ClampInv, SocketOK, ClampOK, ListedAsStored, Listed, Plugged
<1> QED
    BY <1>1, AdjInvAlways, PTL
=============================================================================
