-------------------------- MODULE AdjustmentMemory --------------------------
(***************************************************************************)
(* The EEPROM that keeps adjustment data, the object that reads and writes *)
(* it (AdjustmentEepromReadWrite) and the file that caches what was read.  *)
(*                                                                         *)
(* A stored image begins with its own size and checksum: the header.  An   *)
(* image is identified by its stamp, so a header is the image it was made  *)
(* for, and data are valid when they are the image of the header (the      *)
(* checksum read last, m_checksum, is the one of that header).  A write    *)
(* goes page by page, the header first: one that breaks off leaves the     *)
(* header of the new image before data that are neither.                   *)
(***************************************************************************)
EXTENDS Naturals

CONSTANTS
    Fresh,     \* an erased header, its size is larger than the chip
    Torn,      \* data that are no image
    Nothing    \* no cache file, or none that passes its own checksum

ASSUME MemoryAssumption == Nothing # Fresh

ErasedChip == [header |-> Fresh, body |-> Torn]

\* How far an access to the chip gets before the I2C bus gives up.
Reads == {"none", "header", "all"}
Writes == {"nothing", "torn", "done"}

NewReadWrite == [m_adjDataReadIsValid |-> FALSE, m_adjData |-> Torn]

ReadSizeAndChecksum(chip, read) == read # "none" /\ chip.header # Fresh

\* Mutant. The file is taken when it passes its own checksum.
ReadFromCache_OwnChecksum(chip, cache) == cache # Nothing

ReadFromCache(chip, cache) == cache = chip.header

ReadFromChip(chip, read) == read = "all" /\ chip.body = chip.header

\* readDataCached; readData is the same without a cache.  The result has the
\* object, the cache and whether the data are valid.
ReadData(rw, chip, cache, read) ==
    LET image == IF ReadFromCache(chip, cache) THEN cache ELSE chip.body
        valid == /\ ReadSizeAndChecksum(chip, read)
                 /\ ReadFromCache(chip, cache) \/ ReadFromChip(chip, read)
    IN  IF rw.m_adjDataReadIsValid
          THEN [ok |-> TRUE, rw |-> rw, cache |-> cache]
        ELSE IF valid
          THEN [ok |-> TRUE, cache |-> image,
                rw |-> [m_adjData |-> image, m_adjDataReadIsValid |-> TRUE]]
        ELSE [ok |-> FALSE, rw |-> rw, cache |-> cache]

\* setData and writeData: whatever becomes of it, the next read reads again.
WriteData(rw, image) ==
    [m_adjDataReadIsValid |-> FALSE, m_adjData |-> image]

ResetData(rw) == [rw EXCEPT !.m_adjDataReadIsValid = FALSE]

\* What a write of the image, or of erased bytes, leaves in the chip.
Written(chip, image, write) ==
    CASE write = "nothing" -> chip
      [] write = "torn" -> [header |-> image, body |-> Torn]
      [] write = "done" -> [header |-> image, body |-> image]

Erased(chip, write) == IF write = "nothing" THEN chip ELSE ErasedChip
=============================================================================
