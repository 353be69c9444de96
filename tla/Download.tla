------------------------------ MODULE Download ------------------------------
(***************************************************************************)
(* The MCU's download session: can/download/download.c and erase_job.c on  *)
(* top of the flash driver, with the two boot modules they depend on,      *)
(* can/boot/boot_observation.c (which slot runs) and image_confirm.c (what *)
(* the application writes at start-up).                                    *)
(*                                                                         *)
(* Everything here runs on the OTA thread, one call at a time, so an       *)
(* action is a whole call.  The caller is free: the actions may come in    *)
(* any order, as the functions of download.h may.  Power may fail or the   *)
(* watchdog bite between two calls; inside a flash operation it leaves     *)
(* what a failed operation may leave, so Boot after a failure stands for   *)
(* that too.                                                               *)
(***************************************************************************)
EXTENDS FlashMap

CONSTANTS
  BscModulus,      \* block sequence counters are a uint8_t: 256 in the product
  MaxPayload,      \* DOWNLOAD_MAX_TRANSFER_PAYLOAD: 256 in the product
  Lengths,         \* the payload lengths the caller may hand over
  Sizes,           \* the image sizes the caller may ask for
  ConfirmField,    \* BOOT_IMAGE_CONFIRM_FLAG_SET followed by 0xFF
  Images           \* the slot contents MCUboot accepts, unconfirmed

ConfirmOffset == SlotSize - 2 * ProgramUnit   \* BOOT_IMAGE_CONFIRM_OFFSET

ASSUME DownloadConstants ==
  /\ BscModulus \in Nat /\ BscModulus > 1
  /\ MaxPayload \in Nat
  /\ Lengths \subseteq Nat
  /\ Sizes \subseteq Nat
  /\ ConfirmField \in Data
  /\ ConfirmOffset \in UnitOffsets
  /\ Images \subseteq Areas
  /\ \A image \in Images : image[ConfirmOffset] = Erased

SLOT_A == 0
SLOT_B == 1
SLOT_INVALID == 255
Slots == {SLOT_A, SLOT_B}

NoArea == SLOT_INVALID  \* the NULL area of an idle erase job

VARIABLES
  flash,       \* what each image slot holds
  running,     \* the slot whose image the CPU executes
  activeSlot,  \* the bootloader's active-slot record; SLOT_INVALID when it does not verify
  alive,       \* FALSE in Error_Handler, which only the watchdog ends
  session,     \* s_download
  job          \* s_erase_job

vars == <<flash, running, activeSlot, alive, session, job>>

\* The area holds an image MCUboot accepts: its digest leaves the confirm field out.
Bootable(area) == [area EXCEPT ![ConfirmOffset] = Erased] \in Images

----------------------------------------------------------------------------
(* boot_observation.c *)

\* Fault: the active slot is handed out.
Faulty_GetInactiveSlot == activeSlot

BootObservation_GetInactiveSlot ==
  CASE activeSlot = SLOT_A -> SLOT_B
    [] activeSlot = SLOT_B -> SLOT_A
    [] OTHER -> SLOT_INVALID

----------------------------------------------------------------------------
(* erase_job.c *)

IdleJob == [area |-> NoArea, offset |-> 0]

StartedJob(slot) == [area |-> slot, offset |-> 0]

EraseJob_CanStart(j, slot) == j.area = NoArea /\ slot \in Slots

\* Faults: a page is skipped; the offset starts over at the end of the slot.
Faulty_SkipsPage(j) == flash_sector_off(j.offset) + 2 * PageSize
Faulty_StartsOver(j) == (flash_sector_off(j.offset) + PageSize) % SlotSize

\* The offset after the page the job stands on.
NextEraseOffset(j) == flash_sector_off(j.offset) + PageSize

----------------------------------------------------------------------------
(* download.c *)

IdleSession ==
  [state |-> "IDLE", target |-> SLOT_INVALID, bsc |-> 1, received |-> 0, size |-> 0]

FailedSession == [IdleSession EXCEPT !.state = "PREPARATION_FAILED"]

\* Download_Prepare on a session and a job: the session and job it leaves, and its result.
PrepareOutcome(s, j) ==
  LET slot == BootObservation_GetInactiveSlot
      Answer(result, s2, j2) == [result |-> result, session |-> s2, job |-> j2]
  IN  IF s.state \notin {"IDLE", "PREPARATION_FAILED"} THEN Answer("SEQUENCE_ERROR", s, j)
      ELSE IF slot = SLOT_INVALID THEN Answer("REJECTED", IdleSession, j)
      ELSE IF ~ EraseJob_CanStart(j, slot) THEN Answer("PROGRAMMING_FAILURE", IdleSession, j)
      ELSE Answer("OK", [IdleSession EXCEPT !.state = "PREPARING", !.target = slot],
                  StartedJob(slot))

\* Download_Begin: the result for an image of the given size.
BeginResult(s, size) ==
  CASE size = 0 -> "OUT_OF_RANGE"
    [] size # 0 /\ s.state = "PREPARATION_FAILED" -> "PROGRAMMING_FAILURE"
    [] size # 0 /\ s.state = "COMPLETE" -> "SEQUENCE_ERROR"
    [] size # 0 /\ s.state \in {"IDLE", "PREPARING", "TRANSFERRING"} -> "NOT_READY"
    [] size # 0 /\ s.state = "READY" /\ size > SlotSize -> "OUT_OF_RANGE"
    [] size # 0 /\ s.state = "READY" /\ size <= SlotSize -> "OK"

BegunSession(s, size) == [s EXCEPT !.state = "TRANSFERRING", !.size = size]

\* Download_Transfer up to the flash write: its refusals, and "OK" to go on.
TransferCheck(s, bsc, length) ==
  IF s.state # "TRANSFERRING" THEN "SEQUENCE_ERROR"
  ELSE IF length = 0 \/ length > MaxPayload THEN "INCORRECT_LENGTH"
  ELSE IF bsc # s.bsc THEN "WRONG_BLOCK_SEQUENCE"
  ELSE IF s.received = s.size THEN "SEQUENCE_ERROR"
  ELSE IF length > s.size - s.received THEN "TRANSFER_SUSPENDED"
  ELSE "OK"

\* Fault: the cast of the counter to uint8_t is lost.
Faulty_WideCounter(s, length) == [s EXCEPT !.received = @ + length, !.bsc = @ + 1]

\* The session after a block of the given length is in the flash.
AdvancedSession(s, length) ==
  [s EXCEPT !.received = @ + length, !.bsc = (@ + 1) % BscModulus]

ExitAccepted(s) == s.state = "TRANSFERRING" /\ s.received = s.size

----------------------------------------------------------------------------
\* The OTA thread starts when main() has confirmed the image that runs.
Init ==
  /\ running \in Slots
  /\ \E installed \in [Slots -> Images \cup {BlankArea}] :
       /\ Bootable(installed[running])
       /\ flash = [installed EXCEPT ![running][ConfirmOffset] = ConfirmField]
  /\ activeSlot = running
  /\ alive = TRUE
  /\ session = IdleSession
  /\ job = IdleJob

\* Fault: the session is dropped and its erase job forgotten.
Faulty_Abort ==
  /\ alive
  /\ session' = IdleSession
  /\ UNCHANGED <<flash, running, activeSlot, alive, job>>

Download_Abort ==
  /\ alive
  /\ session' = IdleSession
  /\ job' = IdleJob
  /\ UNCHANGED <<flash, running, activeSlot, alive>>

Download_Prepare ==
  /\ alive
  /\ LET outcome == PrepareOutcome(session, job)
     IN  session' = outcome.session /\ job' = outcome.job
  /\ UNCHANGED <<flash, running, activeSlot, alive>>

\* A poll whose page is erased: EraseJob_Poll answers PENDING, or COMPLETE on the last page.
PollErases ==
  /\ job.area # NoArea /\ job.offset < SlotSize
  /\ flash' = [flash EXCEPT ![job.area] = ErasedPage(@, flash_sector_off(job.offset))]
  /\ IF NextEraseOffset(job) < SlotSize
     THEN /\ job' = [job EXCEPT !.offset = NextEraseOffset(job)]
          /\ session' = session
     ELSE /\ job' = IdleJob
          /\ session' = IF session.target = BootObservation_GetInactiveSlot
                        THEN [session EXCEPT !.state = "READY"]
                        ELSE FailedSession

\* A poll that fails: no job, no such page, or a page the flash did not erase.
PollFails ==
  /\ IF job.area # NoArea /\ job.offset < SlotSize
     THEN \E left \in HalfErasedPages(flash[job.area], flash_sector_off(job.offset)) :
            flash' = [flash EXCEPT ![job.area] = left]
     ELSE flash' = flash
  /\ job' = IdleJob
  /\ session' = FailedSession

Download_Poll ==
  /\ alive
  /\ session.state = "PREPARING"
  /\ PollErases \/ PollFails
  /\ UNCHANGED <<running, activeSlot, alive>>

Download_Begin(size) ==
  /\ alive
  /\ BeginResult(session, size) = "OK"
  /\ session' = BegunSession(session, size)
  /\ UNCHANGED <<flash, running, activeSlot, alive, job>>

\* flash_area_write takes the whole block.
BlockIsWritten(buffer) ==
  /\ WriteSucceeds(flash[session.target], session.received, buffer)
  /\ flash' = [flash EXCEPT ![session.target] = Written(@, session.received, buffer)]
  /\ session' = AdvancedSession(session, buffer.length)

\* flash_area_write answers -1: the session stays as it was, the flash need not.
BlockFails(buffer) ==
  /\ \E left \in WriteFailures(flash[session.target], session.received, buffer) :
       flash' = [flash EXCEPT ![session.target] = left]
  /\ session' = session

Download_Transfer(bsc, buffer) ==
  /\ alive
  /\ TransferCheck(session, bsc, buffer.length) = "OK"
  /\ BlockIsWritten(buffer) \/ BlockFails(buffer)
  /\ UNCHANGED <<running, activeSlot, alive, job>>

Download_Exit ==
  /\ alive
  /\ ExitAccepted(session)
  /\ session' = [session EXCEPT !.state = "COMPLETE"]
  /\ UNCHANGED <<flash, running, activeSlot, alive, job>>

----------------------------------------------------------------------------
(* image_confirm.c and the start of main() *)

\* ImageConfirm_WriteConfirm for the recorded slot: the confirm field is already there, or
\* it is blank and the write takes it or fails.
ConfirmBuffer == [length |-> ProgramUnit, data |-> [off \in {0} |-> ConfirmField]]

ImageConfirm_WriteConfirm(slot, ok) ==
  LET field == flash[slot][ConfirmOffset]
  IN  \/ ok /\ field = ConfirmField /\ flash' = flash
      \/ ~ ok /\ field \notin {ConfirmField, Erased} /\ flash' = flash
      \/ /\ ok /\ field = Erased
         /\ flash' = [flash EXCEPT ![slot] = Written(@, ConfirmOffset, ConfirmBuffer)]
      \/ /\ ~ ok /\ field = Erased
         /\ \E left \in WriteFailures(flash[slot], ConfirmOffset, ConfirmBuffer) :
              flash' = [flash EXCEPT ![slot] = left]

\* A reset, whatever its cause.  MCUboot (external) starts a slot whose image it accepts and
\* records it.  main() then confirms the recorded image, or enters Error_Handler: a check
\* before that fails, no slot is recorded, or the confirmation is not in the flash.
Boot ==
  /\ \E slot \in Slots : Bootable(flash[slot]) /\ running' = slot
  /\ activeSlot' \in {running', SLOT_INVALID}
  /\ \/ flash' = flash /\ alive' = FALSE
     \/ activeSlot' \in Slots /\ alive' \in BOOLEAN
                             /\ ImageConfirm_WriteConfirm(activeSlot', alive')
  /\ session' = IdleSession
  /\ job' = IdleJob

Next ==
  \/ Download_Abort
  \/ Download_Prepare
  \/ Download_Poll
  \/ \E size \in Sizes : Download_Begin(size)
  \/ \E bsc \in 0 .. BscModulus - 1, buffer \in Buffers(Lengths) : Download_Transfer(bsc, buffer)
  \/ Download_Exit
  \/ Boot

\* The OTA thread polls once per loop; nothing obliges the caller to go on.
Spec == Init /\ [][Next]_vars /\ WF_vars(Download_Poll)

----------------------------------------------------------------------------
(* Properties *)

\* The types of the C objects: the enumerations, the uint8_t counter that wraps, and offsets
\* that stay inside a slot.
TypeOK ==
  /\ flash \in [Slots -> Areas]
  /\ running \in Slots
  /\ activeSlot \in Slots \cup {SLOT_INVALID}
  /\ alive \in BOOLEAN
  /\ session \in [state : {"IDLE", "PREPARING", "READY", "TRANSFERRING", "COMPLETE",
                           "PREPARATION_FAILED"},
                  target : Slots \cup {SLOT_INVALID},
                  bsc : 0 .. BscModulus - 1,
                  received : 0 .. SlotSize,
                  size : 0 .. SlotSize]
  /\ job \in [area : Slots \cup {NoArea}, offset : 0 .. SlotSize - 1]

\* Whatever the caller asks for and wherever the flash fails, the image that runs stays one
\* that MCUboot will start again: an update cannot brick the node.
RunningImagePreserved == Bootable(flash[running])

\* The image of a node that is alive keeps its confirm field, whatever is erased, programmed or
\* restarted: MCUboot would take back an image that lost it.
ServesConfirmed == alive => flash[running][ConfirmOffset] = ConfirmField

\* READY, the state Download_Begin insists on, is reached only with the whole of the slot that
\* does not run blank, however many polls, aborts and failures came before.
PreparedSlotIsBlank ==
  session.state = "READY" =>
    session.target \in Slots \ {running} /\ flash[session.target] = BlankArea

\* The erase job and the session never disagree: a job left over by an aborted session would
\* refuse every later preparation, or erase under a transfer.
JobMatchesSession ==
  job.area = IF session.state = "PREPARING" THEN session.target ELSE NoArea

\* The byte count stays within the image and on program units, so a complete session is a
\* whole number of units: no tail of an image is ever acknowledged without being programmed.
ReceivedWithinImage ==
  session.state \in {"TRANSFERRING", "COMPLETE"} =>
    /\ session.received <= session.size
    /\ session.received % ProgramUnit = 0
    /\ session.state = "COMPLETE" => session.received = session.size

\* A unit that is not blank changes only when the erase job of a session in preparation takes
\* its page: nothing is programmed over, which the flash of this MCU does not allow.
ProgrammedOnce ==
  [][\A slot \in Slots, off \in UnitOffsets :
       flash[slot][off] # flash'[slot][off] =>
         \/ flash[slot][off] = Erased
         \/ /\ session.state = "PREPARING" /\ session.target = slot
            /\ InPage(off, flash_sector_off(job.offset))]_vars

\* A page is erased on every poll of the OTA thread, so a preparation ends, well or badly.
PreparationEnds == session.state = "PREPARING" ~> session.state # "PREPARING"
============================================================================
