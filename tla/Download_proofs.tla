--------------------------- MODULE Download_proofs ---------------------------
(***************************************************************************)
(* Proofs about Download, for every geometry of the flash, every set of    *)
(* images and every caller.                                                *)
(***************************************************************************)
EXTENDS Download, TLAPS

\* A session that owns a slot owns the one that does not run, on a node that is alive.
SessionOwnsInactive ==
  session.state \in {"PREPARING", "READY", "TRANSFERRING", "COMPLETE"} =>
    alive /\ session.target \in Slots \ {running}

\* A node that is alive trusts its bootloader's record.
RecordIsTrue == alive => activeSlot = running

\* The erase job leaves a blank slot behind it.
ErasedBehindJob ==
  session.state = "PREPARING" =>
    \A off \in UnitOffsets : off < job.offset => flash[session.target][off] = Erased

\* A session that takes no blocks yet has counted none.
NothingReceived == session.state \in {"PREPARING", "READY"} => session.received = 0

IInv ==
  /\ TypeOK
  /\ RunningImagePreserved
  /\ PreparedSlotIsBlank
  /\ JobMatchesSession
  /\ ReceivedWithinImage
  /\ SessionOwnsInactive
  /\ RecordIsTrue
  /\ ErasedBehindJob
  /\ NothingReceived

----------------------------------------------------------------------------
(* Arithmetic of offsets *)

\* The page an offset lies on starts at or below it.
LEMMA SectorBelow ==
  ASSUME NEW off \in Nat
  PROVE  flash_sector_off(off) \in Nat /\ flash_sector_off(off) <= off
<1>1. PageSize \in Nat \ {0}
  BY FlashGeometry
<1>2. (off \div PageSize) \in Nat
  BY <1>1
<1>3. PageSize * (off \div PageSize) <= off
  BY <1>1
<1>4. (off \div PageSize) * PageSize = PageSize * (off \div PageSize)
  BY <1>1, <1>2
<1>5. (off \div PageSize) * PageSize \in Nat
  BY <1>1, <1>2
<1> QED
  BY <1>3, <1>4, <1>5 DEF flash_sector_off

\* An offset on a unit is a multiple of the unit: the form the arithmetic below needs.
LEMMA UnitMultiple ==
  ASSUME NEW x \in Nat, x % ProgramUnit = 0
  PROVE  \E p \in Nat : x = ProgramUnit * p
<1>1. ProgramUnit \in Nat \ {0}
  BY FlashGeometry
<1>2. x \div ProgramUnit \in Nat
  BY <1>1
<1>3. x = ProgramUnit * (x \div ProgramUnit)
  BY <1>1
<1> QED
  BY <1>2, <1>3, Zenon

\* Two units less than a unit apart are one.
LEMMA SameUnit ==
  ASSUME NEW x \in Nat, NEW y \in Nat, x % ProgramUnit = 0, y % ProgramUnit = 0,
         x <= y, y < x + ProgramUnit
  PROVE  x = y
<1>1. ProgramUnit \in Nat \ {0}
  BY FlashGeometry
<1>2. PICK p \in Nat : x = ProgramUnit * p
  BY UnitMultiple
<1>3. PICK q \in Nat : y = ProgramUnit * q
  BY UnitMultiple
<1>4. ~ p < q
  <2>1. SUFFICES ASSUME p + 1 <= q PROVE FALSE
    OBVIOUS
  <2>2. ProgramUnit * (p + 1) <= ProgramUnit * q
    BY <1>1, <2>1
  <2> QED
    BY <1>1, <1>2, <1>3, <2>2
<1>5. ~ q < p
  <2>1. SUFFICES ASSUME q + 1 <= p PROVE FALSE
    OBVIOUS
  <2>2. ProgramUnit * (q + 1) <= ProgramUnit * p
    BY <1>1, <2>1
  <2> QED
    BY <1>1, <1>2, <1>3, <2>2
<1> QED
  BY <1>2, <1>3, <1>4, <1>5

\* Whole units add up to whole units: a session that counts whole blocks stays on a unit.
LEMMA SumOfUnits ==
  ASSUME NEW x \in Nat, NEW y \in Nat, x % ProgramUnit = 0, y % ProgramUnit = 0
  PROVE  (x + y) % ProgramUnit = 0
<1>1. ProgramUnit \in Nat \ {0}
  BY FlashGeometry
<1>2. PICK p \in Nat : x = ProgramUnit * p
  BY UnitMultiple
<1>3. PICK q \in Nat : y = ProgramUnit * q
  BY UnitMultiple
<1>4. x + y = ProgramUnit * (p + q)
  BY <1>1, <1>2, <1>3
<1>5. p + q \in Nat
  OBVIOUS
<1>6. (ProgramUnit * (p + q)) % ProgramUnit = 0
  BY <1>1, <1>5
<1> QED
  BY <1>4, <1>6

----------------------------------------------------------------------------
(* What the flash driver leaves behind *)

\* Erasing a page leaves an area.
LEMMA ErasedPageIsArea ==
  ASSUME NEW area \in Areas, NEW page \in Nat
  PROVE  ErasedPage(area, page) \in Areas
  BY DEF ErasedPage, Areas, Cells

\* A page erase that fails leaves an area too.
LEMMA HalfErasedIsArea ==
  ASSUME NEW area \in Areas, NEW page \in Nat, NEW left \in HalfErasedPages(area, page)
  PROVE  left \in Areas
  BY DEF HalfErasedPages, Areas, Cells

\* A buffer gives the units it programs contents that the flash can hold.
LEMMA ProgramsCell ==
  ASSUME NEW lengths \in SUBSET Nat, NEW buffer \in Buffers(lengths), NEW base \in Nat,
         base % ProgramUnit = 0, NEW off \in UnitOffsets, Programs(buffer, base, off)
  PROVE  buffer.data[off - base] \in Data
<1>1. PICK len \in lengths : buffer \in [length : {len}, data : [UnitsOf(len) -> Data \cup {Erased}]]
  BY DEF Buffers
<1>2. buffer.length = len /\ buffer.data \in [UnitsOf(len) -> Data \cup {Erased}] /\ len \in Nat
  BY <1>1
<1>3. ProgramUnit \in Nat \ {0}
  BY FlashGeometry
<1>4. off \in Nat /\ off % ProgramUnit = 0
  BY FlashGeometry DEF UnitOffsets
<1>5. off - base \in 0 .. len - 1
  BY <1>2, <1>4 DEF Programs
<1>6. (off - base) % ProgramUnit = 0
  <2>1. PICK p \in Nat : off = ProgramUnit * p
    BY <1>4, UnitMultiple
  <2>2. PICK q \in Nat : base = ProgramUnit * q
    BY UnitMultiple
  <2>3. off - base = ProgramUnit * (p - q)
    BY <1>3, <2>1, <2>2
  <2>4. p - q \in Int
    OBVIOUS
  <2>5. (ProgramUnit * (p - q)) % ProgramUnit = 0
    BY <1>3, <2>4
  <2> QED
    BY <2>3, <2>5
<1>7. off - base \in UnitsOf(len)
  BY <1>5, <1>6 DEF UnitsOf
<1> QED
  BY <1>2, <1>7 DEF Programs

\* So does the write loop of flash_area_write, wherever it stops.
LEMMA WrittenIsArea ==
  ASSUME NEW lengths \in SUBSET Nat, NEW buffer \in Buffers(lengths), NEW base \in Nat,
         base % ProgramUnit = 0, NEW area \in Areas, NEW end
  PROVE  WrittenBelow(area, base, buffer, end) \in Areas
  BY ProgramsCell DEF WrittenBelow, Areas, Cells

\* Whatever a write leaves behind when it fails is an area.
LEMMA WriteFailureIsArea ==
  ASSUME NEW lengths \in SUBSET Nat, NEW buffer \in Buffers(lengths), NEW base \in Nat,
         NEW area \in Areas, NEW left \in WriteFailures(area, base, buffer)
  PROVE  left \in Areas
<1>1. CASE left = area
  BY <1>1
<1>2. CASE left # area
  <2>1. base % ProgramUnit = 0
    BY <1>2 DEF WriteFailures, WriteFits
  <2>2. PICK stop \in UnitOffsets :
          \/ left = WrittenBelow(area, base, buffer, stop)
          \/ left = [WrittenBelow(area, base, buffer, stop) EXCEPT ![stop] = Torn]
    BY <1>2 DEF WriteFailures
  <2>3. WrittenBelow(area, base, buffer, stop) \in Areas
    BY <2>1, WrittenIsArea
  <2> QED
    BY <2>2, <2>3 DEF Areas, Cells
<1> QED
  BY <1>1, <1>2

\* The confirm field is one unit: writing it leaves the others alone, even when it fails.
LEMMA ConfirmBufferIsUnit ==
  /\ ConfirmBuffer \in Buffers({ProgramUnit})
  /\ {ProgramUnit} \in SUBSET Nat
  /\ ConfirmOffset \in UnitOffsets /\ ConfirmOffset \in Nat /\ ConfirmOffset % ProgramUnit = 0
  /\ \A off \in UnitOffsets : Programs(ConfirmBuffer, ConfirmOffset, off) => off = ConfirmOffset
<1>1. ProgramUnit \in Nat \ {0}
  BY FlashGeometry
<1>2. ConfirmOffset \in UnitOffsets /\ ConfirmOffset \in Nat /\ ConfirmOffset % ProgramUnit = 0
  BY DownloadConstants DEF UnitOffsets
<1>3. UnitsOf(ProgramUnit) = {0}
  <2>1. ASSUME NEW off \in UnitsOf(ProgramUnit) PROVE off = 0
    <3>1. off \in Nat /\ off < ProgramUnit /\ off % ProgramUnit = 0
      BY <1>1 DEF UnitsOf
    <3>2. 0 % ProgramUnit = 0
      BY <1>1
    <3> QED
      BY <1>1, <3>1, <3>2, SameUnit
  <2>2. 0 \in UnitsOf(ProgramUnit)
    BY <1>1 DEF UnitsOf
  <2> QED
    BY <2>1, <2>2
<1>4. ConfirmBuffer \in Buffers({ProgramUnit})
  BY <1>1, <1>3, DownloadConstants DEF ConfirmBuffer, Buffers
<1>5. ASSUME NEW off \in UnitOffsets, Programs(ConfirmBuffer, ConfirmOffset, off)
      PROVE  off = ConfirmOffset
  <2>1. off \in Nat /\ off % ProgramUnit = 0
    BY <1>1, FlashGeometry DEF UnitOffsets
  <2>2. ConfirmOffset <= off /\ off < ConfirmOffset + ProgramUnit
    BY <1>5 DEF Programs, ConfirmBuffer
  <2> QED
    BY <1>2, <2>1, <2>2, SameUnit
<1> QED
  BY <1>1, <1>2, <1>4, <1>5

\* Writing the confirm field touches that unit only, whether the write succeeds or fails.
LEMMA ConfirmWriteIsLocal ==
  ASSUME NEW area \in Areas,
         NEW left \in {Written(area, ConfirmOffset, ConfirmBuffer)}
                      \cup WriteFailures(area, ConfirmOffset, ConfirmBuffer)
  PROVE  left \in Areas /\ \A off \in UnitOffsets \ {ConfirmOffset} : left[off] = area[off]
<1>1. \A end : WrittenBelow(area, ConfirmOffset, ConfirmBuffer, end) \in Areas
  BY ConfirmBufferIsUnit, WrittenIsArea
<1>2. \A end : \A off \in UnitOffsets \ {ConfirmOffset} :
        WrittenBelow(area, ConfirmOffset, ConfirmBuffer, end)[off] = area[off]
  BY ConfirmBufferIsUnit DEF WrittenBelow
<1>3. CASE left = Written(area, ConfirmOffset, ConfirmBuffer)
  BY <1>1, <1>2, <1>3 DEF Written
<1>4. CASE left \in WriteFailures(area, ConfirmOffset, ConfirmBuffer)
  <2>1. left \in Areas
    BY <1>4, ConfirmBufferIsUnit, WriteFailureIsArea
  <2>2. CASE left = area
    BY <2>1, <2>2
  <2>3. CASE left # area
    <3>1. PICK stop \in UnitOffsets :
            /\ Programs(ConfirmBuffer, ConfirmOffset, stop)
            /\ \/ left = WrittenBelow(area, ConfirmOffset, ConfirmBuffer, stop)
               \/ left = [WrittenBelow(area, ConfirmOffset, ConfirmBuffer, stop)
                            EXCEPT ![stop] = Torn]
      BY <1>4, <2>3 DEF WriteFailures
    <3>2. stop = ConfirmOffset
      BY <3>1, ConfirmBufferIsUnit
    <3> QED
      BY <1>1, <1>2, <2>1, <3>1, <3>2 DEF Areas
  <2> QED
    BY <2>2, <2>3
<1> QED
  BY <1>3, <1>4

\* MCUboot's verdict does not depend on the confirm field.
LEMMA BootableIgnoresConfirm ==
  ASSUME NEW area \in Areas, NEW left \in Areas, Bootable(area),
         \A off \in UnitOffsets \ {ConfirmOffset} : left[off] = area[off]
  PROVE  Bootable(left)
<1>1. [left EXCEPT ![ConfirmOffset] = Erased] = [area EXCEPT ![ConfirmOffset] = Erased]
  BY ConfirmBufferIsUnit DEF Areas
<1> QED
  BY <1>1 DEF Bootable

----------------------------------------------------------------------------
(* The invariant: one lemma per action *)

\* What main() leaves when the OTA thread starts: the image that runs, confirmed.
LEMMA ConfirmedImage ==
  ASSUME Init
  PROVE  /\ flash \in [Slots -> Areas] /\ running \in Slots
         /\ Bootable(flash[running]) /\ flash[running][ConfirmOffset] = ConfirmField
<1>1. PICK installed \in [Slots -> Images \cup {BlankArea}] :
        /\ Bootable(installed[running])
        /\ flash = [installed EXCEPT ![running][ConfirmOffset] = ConfirmField]
  BY DEF Init
<1>2. running \in Slots
  BY DEF Init
<1>3. BlankArea \in Areas /\ Images \subseteq Areas
  BY DownloadConstants DEF BlankArea, Areas, Cells
<1>4. installed \in [Slots -> Areas] /\ installed[running] \in Areas
  BY <1>1, <1>2, <1>3
<1> DEFINE area == [installed[running] EXCEPT ![ConfirmOffset] = ConfirmField]
<1>5. area \in Areas /\ area[ConfirmOffset] = ConfirmField
        /\ \A off \in UnitOffsets \ {ConfirmOffset} : area[off] = installed[running][off]
  BY <1>4, DownloadConstants DEF Areas, Cells
<1>6. flash \in [Slots -> Areas] /\ flash[running] = area
  <2>1. flash = [installed EXCEPT ![running] = area]
    BY <1>1
  <2> HIDE DEF area
  <2> QED
    BY <1>2, <1>4, <1>5, <2>1
<1>7. Bootable(area)
  BY <1>1, <1>4, <1>5, BootableIgnoresConfirm
<1> QED
  BY <1>2, <1>5, <1>6, <1>7

\* The state main() leaves when the OTA thread starts.
LEMMA InitInv == Init => IInv
<1> SUFFICES ASSUME Init PROVE IInv
  OBVIOUS
<1>1. flash \in [Slots -> Areas] /\ Bootable(flash[running])
  BY ConfirmedImage
<1>2. TypeOK
  BY <1>1, FlashGeometry, DownloadConstants
  DEF Init, TypeOK, IdleSession, IdleJob, Slots, SLOT_A, SLOT_B, SLOT_INVALID, NoArea
<1> QED
  BY <1>1, <1>2 DEF Init, IInv, RunningImagePreserved, PreparedSlotIsBlank, JobMatchesSession,
              ReceivedWithinImage, SessionOwnsInactive, RecordIsTrue, ErasedBehindJob,
              NothingReceived, IdleSession, IdleJob

\* A session that is idle or failed, with no job, is always in order.
LEMMA AtRest ==
  ASSUME IInv, flash' \in [Slots -> Areas], UNCHANGED <<running, activeSlot>>,
         alive' \in BOOLEAN, alive' => alive, flash'[running] = flash[running], session' \in {IdleSession, FailedSession},
         job' = IdleJob
  PROVE  IInv'
<1>1. TypeOK'
  BY FlashGeometry, DownloadConstants
  DEF IInv, TypeOK, IdleSession, FailedSession, IdleJob, Slots, SLOT_A, SLOT_B, SLOT_INVALID, NoArea
<1>2. session'.state \in {"IDLE", "PREPARATION_FAILED"} /\ job'.area = NoArea
  BY DEF IdleSession, FailedSession, IdleJob
<1> QED
  BY <1>1, <1>2
  DEF IInv, RunningImagePreserved, PreparedSlotIsBlank, JobMatchesSession, ReceivedWithinImage,
      SessionOwnsInactive, RecordIsTrue, ErasedBehindJob, NothingReceived,
      Bootable

\* Download_Abort keeps the invariant.
LEMMA AbortInv == IInv /\ Download_Abort => IInv'
  BY AtRest DEF Download_Abort, IInv, TypeOK

\* A preparation that starts on the slot that does not run is in order.
LEMMA PreparationStarts ==
  ASSUME IInv, alive, UNCHANGED <<flash, running, activeSlot, alive>>,
         NEW slot, slot = BootObservation_GetInactiveSlot,
         session' = [state |-> "PREPARING", target |-> slot, bsc |-> 1, received |-> 0, size |-> 0],
         job' = [area |-> slot, offset |-> 0]
  PROVE  IInv'
<1>1. slot \in Slots \ {running}
  BY DEF IInv, RecordIsTrue, TypeOK, BootObservation_GetInactiveSlot, Slots, SLOT_A, SLOT_B,
         SLOT_INVALID
<1>2. TypeOK'
  BY <1>1, FlashGeometry, DownloadConstants DEF IInv, TypeOK
<1>3. ErasedBehindJob'
  BY FlashGeometry DEF ErasedBehindJob, UnitOffsets
<1> QED
  BY <1>1, <1>2, <1>3
  DEF IInv, RunningImagePreserved, PreparedSlotIsBlank, JobMatchesSession,
      ReceivedWithinImage, SessionOwnsInactive, RecordIsTrue, NothingReceived, Bootable

\* Download_Prepare keeps the invariant: it picks the slot that does not run.
LEMMA PrepareInv == IInv /\ Download_Prepare => IInv'
<1> SUFFICES ASSUME IInv, Download_Prepare PROVE IInv'
  OBVIOUS
<1> DEFINE slot == BootObservation_GetInactiveSlot
<1>1. UNCHANGED <<flash, running, activeSlot, alive>> /\ alive /\ activeSlot = running
  BY DEF Download_Prepare, IInv, RecordIsTrue
<1>2. slot \in Slots \ {running}
  BY <1>1 DEF IInv, TypeOK, BootObservation_GetInactiveSlot, Slots, SLOT_A, SLOT_B, SLOT_INVALID
<1>3. CASE session.state \notin {"IDLE", "PREPARATION_FAILED"}
  <2>1. UNCHANGED vars
    BY <1>1, <1>3 DEF Download_Prepare, PrepareOutcome, vars
  <2> QED
    BY <2>1 DEF vars, IInv, TypeOK, RunningImagePreserved, PreparedSlotIsBlank, JobMatchesSession,
                ReceivedWithinImage, SessionOwnsInactive, RecordIsTrue, ErasedBehindJob, NothingReceived,
      Bootable
<1>4. CASE session.state \in {"IDLE", "PREPARATION_FAILED"}
  <2>1. job.area = NoArea
    BY <1>4 DEF IInv, JobMatchesSession
  <2>2. EraseJob_CanStart(job, slot) /\ slot # SLOT_INVALID
    BY <1>2, <2>1 DEF EraseJob_CanStart, Slots, SLOT_A, SLOT_B, SLOT_INVALID
  <2>3. /\ session' = [IdleSession EXCEPT !.state = "PREPARING", !.target = slot]
        /\ job' = StartedJob(slot)
    BY <1>4, <2>2 DEF Download_Prepare, PrepareOutcome
  <2>4. /\ session' = [state |-> "PREPARING", target |-> slot, bsc |-> 1, received |-> 0, size |-> 0]
        /\ job' = [area |-> slot, offset |-> 0]
    BY <2>3 DEF IdleSession, StartedJob
  <2> QED
    BY <1>1, <2>4, PreparationStarts
<1> QED
  BY <1>3, <1>4

\* A poll that erases a page keeps the invariant: the blank part of the slot grows by it.
LEMMA PollErasesInv == IInv /\ Download_Poll /\ PollErases => IInv'
<1> SUFFICES ASSUME IInv, Download_Poll, PollErases PROVE IInv'
  OBVIOUS
<1> DEFINE page == flash_sector_off(job.offset)
           next == NextEraseOffset(job)
           target == session.target
<1>1. /\ session.state = "PREPARING" /\ alive
      /\ UNCHANGED <<running, activeSlot, alive>>
      /\ job.area = target /\ target \in Slots \ {running} /\ activeSlot = running
      /\ flash \in [Slots -> Areas] /\ job.offset \in Nat /\ job.offset < SlotSize
  BY FlashGeometry
  DEF Download_Poll, PollErases, IInv, TypeOK, JobMatchesSession, SessionOwnsInactive, RecordIsTrue
<1>2. page \in Nat /\ page <= job.offset
  BY <1>1, SectorBelow
<1>3. next = page + PageSize /\ next \in Nat
  BY <1>2, FlashGeometry DEF NextEraseOffset
<1>4. /\ flash' = [flash EXCEPT ![target] = ErasedPage(flash[target], page)]
      /\ flash[target] \in Areas /\ ErasedPage(flash[target], page) \in Areas
  BY <1>1, <1>2, ErasedPageIsArea DEF PollErases
<1>5. flash' \in [Slots -> Areas] /\ flash'[running] = flash[running]
      /\ flash'[target] = ErasedPage(flash[target], page)
  BY <1>1, <1>4 DEF IInv, TypeOK
<1>6. \A off \in UnitOffsets : off < next => flash'[target][off] = Erased
  <2>1. SUFFICES ASSUME NEW off \in UnitOffsets, off < next PROVE flash'[target][off] = Erased
    OBVIOUS
  <2>2. off \in Nat
    BY FlashGeometry DEF UnitOffsets
  <2>3. flash'[target][off] = IF InPage(off, page) THEN Erased ELSE flash[target][off]
    BY <1>5 DEF ErasedPage
  <2>4. CASE off < page
    BY <1>1, <1>2, <2>2, <2>3, <2>4 DEF IInv, ErasedBehindJob
  <2>5. CASE page <= off
    BY <1>3, <2>1, <2>2, <2>3, <2>5 DEF InPage
  <2> QED
    BY <1>2, <2>2, <2>4, <2>5
<1>7. CASE next < SlotSize
  <2>1. session' = session /\ job' = [job EXCEPT !.offset = next]
    BY <1>7 DEF PollErases
  <2>2. TypeOK' /\ job'.offset = next /\ job'.area = job.area
    BY <1>1, <1>3, <1>5, <1>7, <2>1, FlashGeometry DEF IInv, TypeOK
  <2> QED
    BY <1>1, <1>5, <1>6, <2>1, <2>2
    DEF IInv, RunningImagePreserved, PreparedSlotIsBlank, JobMatchesSession,
        ReceivedWithinImage, SessionOwnsInactive, RecordIsTrue, ErasedBehindJob, NothingReceived,
      Bootable
<1>8. CASE ~ next < SlotSize
  <2>1. BootObservation_GetInactiveSlot = target
    BY <1>1 DEF IInv, TypeOK, BootObservation_GetInactiveSlot, Slots, SLOT_A, SLOT_B
  <2>2. session' = [session EXCEPT !.state = "READY"] /\ job' = IdleJob
    BY <1>8, <2>1 DEF PollErases
  <2>3. flash'[target] = BlankArea
    <3>1. \A off \in UnitOffsets : flash'[target][off] = Erased
      BY <1>3, <1>6, <1>8, FlashGeometry DEF UnitOffsets
    <3>2. flash'[target] \in Areas
      BY <1>4, <1>5
    <3> QED
      BY <3>1, <3>2 DEF Areas, BlankArea
  <2>4. TypeOK'
    BY <1>1, <1>5, <2>2, FlashGeometry DEF IInv, TypeOK, IdleJob
  <2>5. session'.state = "READY" /\ session'.target = target /\ job'.area = NoArea
        /\ session'.received = session.received
    BY <2>2 DEF IInv, TypeOK, IdleJob
  <2> QED
    BY <1>1, <1>5, <2>3, <2>4, <2>5
    DEF IInv, RunningImagePreserved, PreparedSlotIsBlank, JobMatchesSession,
        ReceivedWithinImage, SessionOwnsInactive, RecordIsTrue, ErasedBehindJob, NothingReceived,
      Bootable
<1> QED
  BY <1>7, <1>8

\* A poll that fails keeps the invariant: the damage is in the slot that does not run.
LEMMA PollFailsInv == IInv /\ Download_Poll /\ PollFails => IInv'
<1> SUFFICES ASSUME IInv, Download_Poll, PollFails PROVE IInv'
  OBVIOUS
<1>1. /\ UNCHANGED <<running, activeSlot, alive>>
      /\ job.area = session.target /\ session.target \in Slots \ {running}
      /\ flash \in [Slots -> Areas] /\ job.offset \in Nat /\ running \in Slots
      /\ alive \in BOOLEAN
  BY FlashGeometry
  DEF Download_Poll, IInv, TypeOK, JobMatchesSession, SessionOwnsInactive
<1>2. CASE flash' = flash
  BY <1>1, <1>2, AtRest DEF PollFails
<1>3. CASE flash' # flash
  <2>1. PICK left \in HalfErasedPages(flash[job.area], flash_sector_off(job.offset)) :
          flash' = [flash EXCEPT ![job.area] = left]
    BY <1>3 DEF PollFails
  <2>2. left \in Areas
    BY <1>1, SectorBelow, HalfErasedIsArea
  <2>3. flash' \in [Slots -> Areas] /\ flash'[running] = flash[running]
    BY <1>1, <2>1, <2>2
  <2> QED
    BY <1>1, <2>3, AtRest DEF PollFails
<1> QED
  BY <1>2, <1>3

\* Download_Poll keeps the invariant.
LEMMA PollInv == IInv /\ Download_Poll => IInv'
  BY PollErasesInv, PollFailsInv DEF Download_Poll

\* Download_Begin keeps the invariant.
LEMMA BeginInv ==
  ASSUME NEW size \in Sizes
  PROVE  IInv /\ Download_Begin(size) => IInv'
<1> SUFFICES ASSUME IInv, Download_Begin(size) PROVE IInv'
  OBVIOUS
<1>1. session.state = "READY" /\ size \in 0 .. SlotSize
  BY FlashGeometry, DownloadConstants DEF Download_Begin, BeginResult, IInv, TypeOK
<1>2. /\ session' = [session EXCEPT !.state = "TRANSFERRING", !.size = size]
      /\ UNCHANGED <<flash, running, activeSlot, alive, job>>
  BY DEF Download_Begin, BegunSession
<1>3. TypeOK' /\ session'.state = "TRANSFERRING" /\ session'.size = size
      /\ session'.received = session.received /\ session'.target = session.target
  BY <1>1, <1>2 DEF IInv, TypeOK
<1>4. session.received = 0
  BY <1>1 DEF IInv, NothingReceived
<1>5. 0 % ProgramUnit = 0
  BY FlashGeometry
<1> QED
  BY <1>1, <1>2, <1>3, <1>4, <1>5
  DEF IInv, RunningImagePreserved, PreparedSlotIsBlank, JobMatchesSession, ReceivedWithinImage,
      SessionOwnsInactive, RecordIsTrue, ErasedBehindJob, NothingReceived, Bootable

\* Download_Transfer keeps the invariant, whether the flash takes the block or not.
LEMMA TransferInv ==
  ASSUME NEW bsc, NEW buffer \in Buffers(Lengths)
  PROVE  IInv /\ Download_Transfer(bsc, buffer) => IInv'
<1> SUFFICES ASSUME IInv, Download_Transfer(bsc, buffer) PROVE IInv'
  OBVIOUS
<1> DEFINE target == session.target
<1>0. buffer.length \in Nat /\ session.received \in Nat /\ session.size \in Nat
  BY FlashGeometry, DownloadConstants DEF Buffers, IInv, TypeOK
<1>1. /\ session.state = "TRANSFERRING"
      /\ buffer.length <= session.size - session.received
      /\ UNCHANGED <<running, activeSlot, alive, job>>
  BY <1>0 DEF Download_Transfer, TransferCheck
<1>2. /\ target \in Slots \ {running} /\ running \in Slots /\ flash \in [Slots -> Areas]
      /\ session.received \in Nat /\ session.size \in 0 .. SlotSize
      /\ session.received % ProgramUnit = 0 /\ flash[target] \in Areas
  BY <1>1, FlashGeometry DEF IInv, TypeOK, SessionOwnsInactive, ReceivedWithinImage
<1>3. Lengths \in SUBSET Nat /\ buffer.length \in Nat
  BY <1>0, DownloadConstants
<1>4. CASE BlockIsWritten(buffer)
  <2>1. /\ buffer.length % ProgramUnit = 0
        /\ flash' = [flash EXCEPT ![target] = Written(flash[target], session.received, buffer)]
        /\ session' = [session EXCEPT !.received = @ + buffer.length,
                                      !.bsc = (@ + 1) % BscModulus]
    BY <1>4 DEF BlockIsWritten, WriteSucceeds, WriteFits, AdvancedSession
  <2>2. Written(flash[target], session.received, buffer) \in Areas
    BY <1>2, <1>3, WrittenIsArea DEF Written
  <2>3. flash' \in [Slots -> Areas] /\ flash'[running] = flash[running]
    BY <1>2, <2>1, <2>2
  <2>4. (session.bsc + 1) % BscModulus \in 0 .. BscModulus - 1
    BY DownloadConstants DEF IInv, TypeOK
  <2>5. session.received + buffer.length \in 0 .. SlotSize
        /\ session.received + buffer.length <= session.size
    BY <1>1, <1>2, <1>3, FlashGeometry
  <2>6. TypeOK' /\ session'.state = "TRANSFERRING" /\ session'.target = target
        /\ session'.received = session.received + buffer.length /\ session'.size = session.size
    BY <1>1, <2>1, <2>3, <2>4, <2>5 DEF IInv, TypeOK
  <2>7. session'.received % ProgramUnit = 0
    BY <1>2, <1>3, <2>1, <2>6, SumOfUnits
  <2> QED
    BY <1>1, <1>2, <2>3, <2>5, <2>6, <2>7
    DEF IInv, RunningImagePreserved, PreparedSlotIsBlank, JobMatchesSession, ReceivedWithinImage,
        SessionOwnsInactive, RecordIsTrue, ErasedBehindJob, NothingReceived, Bootable
<1>5. CASE BlockFails(buffer)
  <2>1. PICK left \in WriteFailures(flash[target], session.received, buffer) :
          flash' = [flash EXCEPT ![target] = left]
    BY <1>5 DEF BlockFails
  <2>2. left \in Areas
    BY <1>2, <1>3, WriteFailureIsArea
  <2>3. flash' \in [Slots -> Areas] /\ flash'[running] = flash[running]
    BY <1>2, <2>1, <2>2
  <2>4. session' = session
    BY <1>5 DEF BlockFails
  <2>5. TypeOK'
    BY <1>1, <2>3, <2>4 DEF IInv, TypeOK
  <2> QED
    BY <1>1, <1>2, <2>3, <2>4, <2>5
    DEF IInv, RunningImagePreserved, PreparedSlotIsBlank, JobMatchesSession, ReceivedWithinImage,
        SessionOwnsInactive, RecordIsTrue, ErasedBehindJob, NothingReceived, Bootable
<1> QED
  BY <1>4, <1>5 DEF Download_Transfer

\* Download_Exit keeps the invariant.
LEMMA ExitInv == IInv /\ Download_Exit => IInv'
<1> SUFFICES ASSUME IInv, Download_Exit PROVE IInv'
  OBVIOUS
<1>1. /\ session.state = "TRANSFERRING" /\ session.received = session.size
      /\ session' = [session EXCEPT !.state = "COMPLETE"]
      /\ UNCHANGED <<flash, running, activeSlot, alive, job>>
  BY DEF Download_Exit, ExitAccepted
<1>2. TypeOK' /\ session'.state = "COMPLETE" /\ session'.target = session.target
      /\ session'.received = session.received /\ session'.size = session.size
  BY <1>1 DEF IInv, TypeOK
<1> QED
  BY <1>1, <1>2
  DEF IInv, RunningImagePreserved, PreparedSlotIsBlank, JobMatchesSession, ReceivedWithinImage,
      SessionOwnsInactive, RecordIsTrue, ErasedBehindJob, NothingReceived, Bootable

\* A confirmation, taken or not, leaves a slot that MCUboot would start one it would start.
LEMMA ConfirmInv ==
  ASSUME IInv, NEW slot \in Slots, Bootable(flash[slot]), NEW ok \in BOOLEAN,
         ImageConfirm_WriteConfirm(slot, ok)
  PROVE  flash' \in [Slots -> Areas] /\ Bootable(flash'[slot])
<1>1. flash \in [Slots -> Areas] /\ flash[slot] \in Areas
  BY DEF IInv, TypeOK
<1>2. CASE flash' = flash
  BY <1>1, <1>2
<1>3. CASE flash' # flash
  <2>1. PICK left \in {Written(flash[slot], ConfirmOffset, ConfirmBuffer)}
                      \cup WriteFailures(flash[slot], ConfirmOffset, ConfirmBuffer) :
          flash' = [flash EXCEPT ![slot] = left]
    BY <1>3 DEF ImageConfirm_WriteConfirm
  <2>2. left \in Areas /\ \A off \in UnitOffsets \ {ConfirmOffset} : left[off] = flash[slot][off]
    BY <1>1, ConfirmWriteIsLocal
  <2>3. Bootable(left)
    BY <1>1, <2>2, BootableIgnoresConfirm
  <2> QED
    BY <1>1, <2>1, <2>2, <2>3
<1> QED
  BY <1>2, <1>3

\* A reset keeps the invariant, whatever image starts and however the confirmation goes.
LEMMA BootInv == IInv /\ Boot => IInv'
<1> SUFFICES ASSUME IInv, Boot PROVE IInv'
  OBVIOUS
<1>1. /\ running' \in Slots /\ Bootable(flash[running'])
      /\ activeSlot' \in {running', SLOT_INVALID}
      /\ session' = IdleSession /\ job' = IdleJob
  BY DEF Boot
<1>2. /\ flash' \in [Slots -> Areas] /\ Bootable(flash'[running']) /\ alive' \in BOOLEAN
      /\ alive' => activeSlot' = running'
  <2>1. CASE flash' = flash /\ alive' = FALSE
    BY <1>1, <2>1 DEF IInv, TypeOK
  <2>2. CASE activeSlot' \in Slots /\ alive' \in BOOLEAN
             /\ ImageConfirm_WriteConfirm(activeSlot', alive')
    <3>1. activeSlot' = running'
      BY <1>1, <2>2 DEF Slots, SLOT_A, SLOT_B, SLOT_INVALID
    <3> QED
      BY <1>1, <2>2, <3>1, ConfirmInv
  <2> QED
    BY <2>1, <2>2 DEF Boot
<1>3. TypeOK'
  BY <1>1, <1>2, FlashGeometry, DownloadConstants
  DEF TypeOK, IdleSession, IdleJob, Slots, SLOT_A, SLOT_B, SLOT_INVALID, NoArea
<1> QED
  BY <1>1, <1>2, <1>3
  DEF IInv, RunningImagePreserved, PreparedSlotIsBlank, JobMatchesSession, ReceivedWithinImage,
      SessionOwnsInactive, RecordIsTrue, ErasedBehindJob, NothingReceived, Bootable,
      IdleSession, IdleJob

\* Every step keeps the invariant.
LEMMA StepInv == IInv /\ [Next]_vars => IInv'
<1> SUFFICES ASSUME IInv, [Next]_vars PROVE IInv'
  OBVIOUS
<1>1. CASE Download_Abort
  BY <1>1, AbortInv
<1>2. CASE Download_Prepare
  BY <1>2, PrepareInv
<1>3. CASE Download_Poll
  BY <1>3, PollInv
<1>4. ASSUME NEW size \in Sizes, Download_Begin(size) PROVE IInv'
  BY <1>4, BeginInv
<1>5. ASSUME NEW bsc \in 0 .. BscModulus - 1, NEW buffer \in Buffers(Lengths),
             Download_Transfer(bsc, buffer)
      PROVE  IInv'
  BY <1>5, TransferInv
<1>6. CASE Download_Exit
  BY <1>6, ExitInv
<1>7. CASE Boot
  BY <1>7, BootInv
<1>8. CASE UNCHANGED vars
  BY <1>8 DEF vars, IInv, TypeOK, RunningImagePreserved, PreparedSlotIsBlank, JobMatchesSession,
              ReceivedWithinImage, SessionOwnsInactive, RecordIsTrue, ErasedBehindJob,
              NothingReceived, Bootable
<1> QED
  BY <1>1, <1>2, <1>3, <1>4, <1>5, <1>6, <1>7, <1>8 DEF Next

\* The invariant holds in every behaviour.
LEMMA Invariance == Spec => []IInv
  BY InitInv, StepInv, PTL DEF Spec

----------------------------------------------------------------------------
(* What a step may do to the flash *)

\* flash_area_write, whether it succeeds or fails, changes only units that were blank.
LEMMA WriteTakesBlankUnits ==
  ASSUME NEW area \in Areas, NEW base \in Nat, NEW buffer, buffer.length \in Nat,
         NEW off \in UnitOffsets,
         NEW left, left[off] # area[off],
         \/ WriteSucceeds(area, base, buffer) /\ left = Written(area, base, buffer)
         \/ left \in WriteFailures(area, base, buffer)
  PROVE  area[off] = Erased
<1>1. ASSUME NEW end, BlankBelow(area, base, buffer, end),
             WrittenBelow(area, base, buffer, end)[off] # area[off]
      PROVE  area[off] = Erased
  BY <1>1 DEF WrittenBelow, BlankBelow
<1>2. CASE WriteSucceeds(area, base, buffer) /\ left = Written(area, base, buffer)
  BY <1>1, <1>2 DEF WriteSucceeds, Written
<1>3. CASE left \in WriteFailures(area, base, buffer)
  <2>1. left # area
    OBVIOUS
  <2>2. PICK stop \in UnitOffsets :
          /\ BlankBelow(area, base, buffer, stop)
          /\ \/ left = WrittenBelow(area, base, buffer, stop)
             \/ /\ area[stop] = Erased
                /\ left = [WrittenBelow(area, base, buffer, stop) EXCEPT ![stop] = Torn]
    BY <1>3, <2>1 DEF WriteFailures
  <2>3. CASE off = stop /\ area[stop] = Erased
    BY <2>3
  <2>4. CASE left[off] = WrittenBelow(area, base, buffer, stop)[off]
    BY <1>1, <2>2, <2>4
  <2>5. DOMAIN WrittenBelow(area, base, buffer, stop) = UnitOffsets
    BY DEF WrittenBelow
  <2> QED
    BY <2>2, <2>3, <2>4, <2>5
<1> QED
  BY <1>2, <1>3

\* The change that ProgrammedOnce allows.
MayChange(slot, off) ==
  \/ flash[slot][off] = Erased
  \/ /\ session.state = "PREPARING" /\ session.target = slot
     /\ InPage(off, flash_sector_off(job.offset))

\* A poll changes only units of the page its job stands on.
LEMMA PollChanges ==
  ASSUME IInv, Download_Poll, NEW slot \in Slots, NEW off \in UnitOffsets,
         flash[slot][off] # flash'[slot][off]
  PROVE  MayChange(slot, off)
<1> DEFINE page == flash_sector_off(job.offset)
<1>1. session.state = "PREPARING" /\ job.area = session.target /\ job.area \in Slots
      /\ flash \in [Slots -> Areas]
  BY DEF Download_Poll, IInv, TypeOK, JobMatchesSession, SessionOwnsInactive
<1>2. PICK left : /\ flash' = [flash EXCEPT ![job.area] = left]
                  /\ left \in {ErasedPage(flash[job.area], page)}
                              \cup HalfErasedPages(flash[job.area], page)
  BY <1>1 DEF Download_Poll, PollErases, PollFails
<1>3. slot = job.area /\ left[off] # flash[slot][off]
  BY <1>1, <1>2
<1>4. ~ InPage(off, page) => left[off] = flash[slot][off]
  BY <1>2, <1>3 DEF ErasedPage, HalfErasedPages
<1> QED
  BY <1>1, <1>3, <1>4 DEF MayChange

\* A transfer changes only units that were blank.
LEMMA TransferChanges ==
  ASSUME IInv, NEW bsc, NEW buffer \in Buffers(Lengths), Download_Transfer(bsc, buffer),
         NEW slot \in Slots, NEW off \in UnitOffsets, flash[slot][off] # flash'[slot][off]
  PROVE  MayChange(slot, off)
<1> DEFINE target == session.target
           area == flash[target]
<1>1. target \in Slots /\ flash \in [Slots -> Areas] /\ session.received \in Nat
      /\ buffer.length \in Nat
  BY FlashGeometry, DownloadConstants
  DEF Download_Transfer, TransferCheck, IInv, TypeOK, SessionOwnsInactive, Buffers
<1>2. PICK left :
        /\ flash' = [flash EXCEPT ![target] = left]
        /\ \/ /\ WriteSucceeds(area, session.received, buffer)
              /\ left = Written(area, session.received, buffer)
           \/ left \in WriteFailures(area, session.received, buffer)
  BY DEF Download_Transfer, BlockIsWritten, BlockFails
<1>3. slot = target /\ left[off] # area[off] /\ area \in Areas
  BY <1>1, <1>2
<1>4. area[off] = Erased
  BY <1>1, <1>2, <1>3, WriteTakesBlankUnits
<1> QED
  BY <1>3, <1>4 DEF MayChange

\* The confirmation at start-up changes only a field that was blank.
LEMMA BootChanges ==
  ASSUME IInv, Boot, NEW slot \in Slots, NEW off \in UnitOffsets,
         flash[slot][off] # flash'[slot][off]
  PROVE  MayChange(slot, off)
<1>1. activeSlot' \in Slots /\ alive' \in BOOLEAN
      /\ ImageConfirm_WriteConfirm(activeSlot', alive')
  BY DEF Boot
<1>2. flash \in [Slots -> Areas]
  BY DEF IInv, TypeOK
<1> DEFINE area == flash[activeSlot']
<1>3. area[ConfirmOffset] = Erased
  BY <1>1 DEF ImageConfirm_WriteConfirm
<1>4. PICK left \in {Written(area, ConfirmOffset, ConfirmBuffer)}
                    \cup WriteFailures(area, ConfirmOffset, ConfirmBuffer) :
        flash' = [flash EXCEPT ![activeSlot'] = left]
  BY <1>1 DEF ImageConfirm_WriteConfirm
<1>5. slot = activeSlot' /\ left[off] # area[off]
  BY <1>1, <1>2, <1>4
<1>6. off = ConfirmOffset
  BY <1>1, <1>2, <1>4, <1>5, ConfirmWriteIsLocal
<1> QED
  BY <1>3, <1>5, <1>6 DEF MayChange

\* No step changes a unit in any other way.
LEMMA StepChanges ==
  IInv /\ [Next]_vars =>
    [\A slot \in Slots, off \in UnitOffsets :
       flash[slot][off] # flash'[slot][off] => MayChange(slot, off)]_vars
<1> SUFFICES ASSUME IInv, Next, NEW slot \in Slots, NEW off \in UnitOffsets,
                    flash[slot][off] # flash'[slot][off]
             PROVE  MayChange(slot, off)
  BY Zenon
<1>1. flash' # flash
  OBVIOUS
<1>2. CASE Download_Poll
  BY <1>2, PollChanges
<1>3. ASSUME NEW bsc \in 0 .. BscModulus - 1, NEW buffer \in Buffers(Lengths),
             Download_Transfer(bsc, buffer)
      PROVE  MayChange(slot, off)
  BY <1>3, TransferChanges
<1>4. CASE Boot
  BY <1>4, BootChanges
<1> QED
  BY <1>1, <1>2, <1>3, <1>4 DEF Next, Download_Abort, Download_Prepare, Download_Begin, Download_Exit

----------------------------------------------------------------------------
(* The slot that runs *)

\* What erases and programs leaves the slot that runs alone.
LEMMA RunningSlotKept ==
  ASSUME IInv,
         \/ Download_Poll
         \/ \E bsc, buffer : Download_Transfer(bsc, buffer)
  PROVE  flash'[running] = flash[running] /\ UNCHANGED <<running, activeSlot, alive>>
<1>1. flash \in [Slots -> Areas] /\ running \in Slots
  BY DEF IInv, TypeOK
<1>2. CASE Download_Poll
  <2>1. job.area # running
    BY <1>2 DEF Download_Poll, IInv, JobMatchesSession, SessionOwnsInactive
  <2>2. flash' = flash \/ \E left : flash' = [flash EXCEPT ![job.area] = left]
    BY <1>2 DEF Download_Poll, PollErases, PollFails
  <2> QED
    BY <1>1, <1>2, <2>1, <2>2 DEF Download_Poll
<1>3. ASSUME NEW bsc, NEW buffer, Download_Transfer(bsc, buffer)
      PROVE  flash'[running] = flash[running] /\ UNCHANGED <<running, activeSlot, alive>>
  <2>1. session.target # running
    BY <1>3 DEF Download_Transfer, TransferCheck, IInv, SessionOwnsInactive
  <2>2. \E left : flash' = [flash EXCEPT ![session.target] = left]
    BY <1>3 DEF Download_Transfer, BlockIsWritten, BlockFails
  <2> QED
    BY <1>1, <1>3, <2>1, <2>2 DEF Download_Transfer
<1> QED
  BY <1>2, <1>3

\* A reset after which the node is alive has confirmed the image it runs, and no reset changes
\* anything but the confirm field.
LEMMA BootConfirms ==
  ASSUME IInv, Boot
  PROVE  /\ ServesConfirmed'
         /\ \A slot \in Slots, off \in UnitOffsets \ {ConfirmOffset} :
              flash'[slot][off] = flash[slot][off]
<1>1. flash \in [Slots -> Areas] /\ running' \in Slots
  BY DEF IInv, TypeOK, Boot
<1>2. CASE flash' = flash /\ alive' = FALSE
  BY <1>2 DEF ServesConfirmed
<1>3. CASE /\ activeSlot' \in Slots /\ alive' \in BOOLEAN
           /\ ImageConfirm_WriteConfirm(activeSlot', alive')
  <2>1. activeSlot' = running'
    BY <1>3 DEF Boot, Slots, SLOT_A, SLOT_B, SLOT_INVALID
  <2> DEFINE area == flash[running']
  <2>2. CASE flash' = flash
    <3>1. alive' => area[ConfirmOffset] = ConfirmField
      <4> SUFFICES ASSUME alive', area[ConfirmOffset] # ConfirmField PROVE FALSE
        OBVIOUS
      <4>1. area = Written(area, ConfirmOffset, ConfirmBuffer) /\ area[ConfirmOffset] = Erased
        BY <1>1, <1>3, <2>1, <2>2 DEF ImageConfirm_WriteConfirm
      <4>2. Written(area, ConfirmOffset, ConfirmBuffer)[ConfirmOffset] = ConfirmField
        BY ConfirmBufferIsUnit, FlashGeometry, DownloadConstants, FlashContents
        DEF Written, WrittenBelow, Programs, ConfirmBuffer
      <4> QED
        BY <4>1, <4>2
    <3> QED
      BY <2>2, <3>1 DEF ServesConfirmed
  <2>3. CASE flash' # flash
    <3>1. PICK left \in {Written(area, ConfirmOffset, ConfirmBuffer)}
                        \cup WriteFailures(area, ConfirmOffset, ConfirmBuffer) :
            /\ flash' = [flash EXCEPT ![running'] = left]
            /\ alive' => left = Written(area, ConfirmOffset, ConfirmBuffer)
      BY <1>3, <2>1, <2>3 DEF ImageConfirm_WriteConfirm
    <3>2. Written(area, ConfirmOffset, ConfirmBuffer)[ConfirmOffset] = ConfirmField
      BY ConfirmBufferIsUnit, FlashGeometry, DownloadConstants, FlashContents
      DEF Written, WrittenBelow, Programs, ConfirmBuffer
    <3>3. flash'[running'] = left
      BY <1>1, <3>1
    <3>4. \A off \in UnitOffsets \ {ConfirmOffset} : left[off] = area[off]
      BY <1>1, <3>1, ConfirmWriteIsLocal
    <3> QED
      BY <1>1, <3>1, <3>2, <3>3, <3>4 DEF ServesConfirmed
  <2> QED
    BY <2>2, <2>3
<1> QED
  BY <1>2, <1>3 DEF Boot

LEMMA ServesConfirmedKept == IInv /\ ServesConfirmed /\ [Next]_vars => ServesConfirmed'
<1> SUFFICES ASSUME IInv, ServesConfirmed, [Next]_vars PROVE ServesConfirmed'
  OBVIOUS
<1>1. CASE Boot
  BY <1>1, BootConfirms
<1>2. CASE \/ Download_Poll
           \/ \E bsc, buffer : Download_Transfer(bsc, buffer)
  BY <1>2, RunningSlotKept DEF ServesConfirmed
<1>3. CASE UNCHANGED <<flash, running, alive>>
  BY <1>3 DEF ServesConfirmed
<1> QED
  BY <1>1, <1>2, <1>3, Zenon
  DEF Next, vars, Download_Abort, Download_Prepare, Download_Begin, Download_Exit

----------------------------------------------------------------------------
(* The theorems *)

\* The state of download.c and erase_job.c keeps its types: no counter or offset leaves its range.
THEOREM TypeCorrect == Spec => []TypeOK
  BY Invariance, PTL DEF IInv

\* No call of download.h, no failing flash and no reset takes away the image that runs.
THEOREM RunningImageSafe == Spec => []RunningImagePreserved
  BY Invariance, PTL DEF IInv

\* When the session is READY, the slot that does not run is blank from end to end.
THEOREM PreparationComplete == Spec => []PreparedSlotIsBlank
  BY Invariance, PTL DEF IInv

\* There is an erase job exactly while a session is in preparation, and it is that session's.
THEOREM JobOwned == Spec => []JobMatchesSession
  BY Invariance, PTL DEF IInv

\* A session counts whole units of its image, and is complete only when it counted all of it.
THEOREM NoPartialImage == Spec => []ReceivedWithinImage
  BY Invariance, PTL DEF IInv

\* A node that is alive runs an image whose confirm field is set: MCUboot does not take it back.
THEOREM ConfirmedServes == Spec => []ServesConfirmed
<1>1. Init => ServesConfirmed
  BY ConfirmedImage DEF ServesConfirmed
<1> QED
  BY <1>1, Invariance, ServesConfirmedKept, PTL DEF Spec

\* Between two erasures by the erase job, a unit of flash is programmed at most once.
THEOREM NothingOverwritten == Spec => ProgrammedOnce
<1>1. IInv /\ [Next]_vars =>
        [\A slot \in Slots, off \in UnitOffsets :
           flash[slot][off] # flash'[slot][off] =>
             \/ flash[slot][off] = Erased
             \/ /\ session.state = "PREPARING" /\ session.target = slot
                /\ InPage(off, flash_sector_off(job.offset))]_vars
  BY StepChanges DEF MayChange
<1> QED
  BY <1>1, Invariance, PTL DEF Spec, ProgrammedOnce
============================================================================
