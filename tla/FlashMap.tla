------------------------------ MODULE FlashMap ------------------------------
(***************************************************************************)
(* The MCU's flash driver, can/boot/flash_map.c, over one image slot, with *)
(* the two library calls under it (HAL_FLASH_Program, HAL_FLASHEx_Erase)   *)
(* modelled by what they can leave behind.                                 *)
(*                                                                         *)
(* Addresses and lengths are bytes, as in the code, but a slot is looked   *)
(* at one program unit at a time: an area maps the offset of each unit to  *)
(* its content.  A content is a member of Data, or Erased (all 0xFF), or   *)
(* Torn (what a failed program or erase leaves: neither blank nor sent).   *)
(***************************************************************************)
EXTENDS Integers

CONSTANTS
  ProgramUnit,  \* FLASH_PROGRAM_UNIT: 16 bytes in the product
  PageSize,     \* FLASH_PAGE_SIZE: 8 KiB in the product
  SlotSize,     \* FLASH_AREA_IMAGE_x_SIZE: 128 KiB in the product
  Data,         \* contents of a unit somebody may write, other than 0xFF..FF
  Erased,
  Torn

ASSUME FlashGeometry ==
  /\ ProgramUnit \in Nat \ {0}
  /\ PageSize \in Nat \ {0}
  /\ SlotSize \in Nat \ {0}
  /\ SlotSize % PageSize = 0
  /\ PageSize % ProgramUnit = 0

ASSUME FlashContents ==
  /\ Erased \notin Data
  /\ Torn \notin Data
  /\ Erased # Torn

Cells == Data \cup {Erased, Torn}

\* The offsets of the program units of a slot.
UnitOffsets == {off \in 0 .. SlotSize - 1 : off % ProgramUnit = 0}

Areas == [UnitOffsets -> Cells]

BlankArea == [off \in UnitOffsets |-> Erased]

\* The relative offsets of the units that a buffer of len bytes starts.
UnitsOf(len) == {off \in 0 .. len - 1 : off % ProgramUnit = 0}

\* A buffer handed to flash_area_write: its length, and its content by unit.
\* A last unit that is not whole has a content too; the driver never uses it.
Buffers(lengths) ==
  UNION {[length : {len}, data : [UnitsOf(len) -> Data \cup {Erased}]] : len \in lengths}

----------------------------------------------------------------------------
\* flash_area_get_sector: the start of the page that holds an offset.
flash_sector_off(off) == (off \div PageSize) * PageSize

InPage(off, page) == page <= off /\ off < page + PageSize

\* flash_area_erase of one page when HAL_FLASHEx_Erase answers HAL_OK.
ErasedPage(area, page) ==
  [off \in UnitOffsets |-> IF InPage(off, page) THEN Erased ELSE area[off]]

\* What may be left of the page when it does not: some units torn, some blank, some as they were.
HalfErasedPages(area, page) ==
  LET units == {off \in UnitOffsets : InPage(off, page)}
  IN  {[off \in UnitOffsets |->
          IF off \in torn THEN Torn ELSE IF off \in blank THEN Erased ELSE area[off]] :
         torn \in SUBSET units, blank \in SUBSET units}

----------------------------------------------------------------------------
\* Unit `off` of the area is given a content other than 0xFF by the buffer written at `base`.
Programs(buffer, base, off) ==
  /\ base <= off /\ off < base + buffer.length
  /\ buffer.data[off - base] # Erased

\* The area once the loop of flash_area_write has dealt with the units below `end`.
WrittenBelow(area, base, buffer, end) ==
  [off \in UnitOffsets |->
     IF off < end /\ Programs(buffer, base, off) THEN buffer.data[off - base] ELSE area[off]]

\* Fault: a destination is not read back before it is programmed.
Faulty_NoBlankCheck(area, base, buffer, end) == TRUE

\* The units below `end` that the buffer programs were all blank: the loop gets there.
BlankBelow(area, base, buffer, end) ==
  \A off \in UnitOffsets :
    off < end /\ Programs(buffer, base, off) => area[off] = Erased

\* The checks flash_area_write makes before it touches the flash.
WriteFits(base, buffer) ==
  /\ buffer.length # 0
  /\ base + buffer.length <= SlotSize
  /\ base % ProgramUnit = 0
  /\ buffer.length % ProgramUnit = 0

\* flash_area_write answers 0: every unit it had to program was blank and took its content.
WriteSucceeds(area, base, buffer) ==
  /\ WriteFits(base, buffer)
  /\ BlankBelow(area, base, buffer, base + buffer.length)

Written(area, base, buffer) == WrittenBelow(area, base, buffer, base + buffer.length)

\* The areas flash_area_write may leave when it answers -1.  A refused request leaves the
\* area alone, and so may HAL_FLASH_Unlock; otherwise the units before the one that failed
\* are programmed, and that one is as it was (it was not blank) or torn (the program failed).
WriteFailures(area, base, buffer) ==
  {area} \cup
  IF ~ WriteFits(base, buffer) THEN {}
  ELSE UNION {LET done == WrittenBelow(area, base, buffer, stop)
              IN  {done} \cup IF area[stop] = Erased THEN {[done EXCEPT ![stop] = Torn]} ELSE {} :
                stop \in {off \in UnitOffsets :
                            Programs(buffer, base, off) /\ BlankBelow(area, base, buffer, off)}}
============================================================================
