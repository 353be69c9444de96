------------------------- MODULE OtaSystem_proofs -------------------------
(***************************************************************************)
(* The properties of OtaSystem, for every geometry, package and number of  *)
(* answers.                                                                *)
(*                                                                         *)
(* U carries what is proved of the node alone.  Its invariant and Core,    *)
(* what is under way on the channel and for which request, are kept by     *)
(* every step; each property then follows from Core and an invariant of    *)
(* its own: Level, Stranded, SnapshotIsTrue, Progress.                     *)
(***************************************************************************)
EXTENDS OtaSystem, SequenceTheorems, TLAPS

U == INSTANCE UdsServer_proofs

LEMMA NodeAssumptions == U!ServerConstants /\ U!SeedBound
BY NodeConstants
   DEF U!ServerConstants, U!SeedBound, M!SeedBound, M!D!FlashGeometry, U!D!FlashGeometry,
       M!D!FlashContents, U!D!FlashContents, M!D!DownloadConstants, U!D!DownloadConstants,
       M!D!ConfirmOffset, U!D!ConfirmOffset, M!D!UnitOffsets, U!D!UnitOffsets, M!D!Areas,
       U!D!Areas, M!D!Cells, U!D!Cells

LEMMA Constants ==
  /\ U!ServerConstants /\ U!SeedBound
  /\ U!P!FlashGeometry /\ U!P!FlashContents /\ U!P!DownloadConstants
  /\ ProgramUnit \in Nat \ {0} /\ SlotSize \in Nat \ {0}
  /\ BscModulus \in Nat /\ 1 < BscModulus
  /\ Lengths \subseteq Nat /\ Sizes \subseteq Nat
  /\ ConfirmField \in Data /\ Erased \notin Data
  /\ M!D!ConfirmOffset \in M!D!UnitOffsets
<1>1. U!ServerConstants /\ U!SeedBound
  BY NodeAssumptions
<1>2. U!P!FlashGeometry /\ U!P!FlashContents /\ U!P!DownloadConstants
  BY <1>1, U!Constants
<1> QED
  BY <1>1, <1>2, NodeConstants
  DEF M!D!FlashGeometry, M!D!FlashContents, M!D!DownloadConstants

LEMMA Same_Init ==
  M!Init => U!Init
BY Zenon
  DEF M!Init, U!Init, M!D!Init, U!D!Init, M!D!Slots, U!D!Slots, M!D!SLOT_A, U!D!SLOT_A,
      M!D!SLOT_B, U!D!SLOT_B, M!D!BlankArea, U!D!BlankArea, M!D!UnitOffsets, U!D!UnitOffsets,
      M!D!Bootable, U!D!Bootable, M!D!ConfirmOffset, U!D!ConfirmOffset, M!D!IdleSession,
      U!D!IdleSession, M!D!SLOT_INVALID, U!D!SLOT_INVALID, M!D!IdleJob, U!D!IdleJob, M!D!NoArea,
      U!D!NoArea, M!SecurityAccess_InitialState, U!SecurityAccess_InitialState,
      M!LockedSecurity, U!LockedSecurity, M!ZeroSeed, U!ZeroSeed, M!InitialServer,
      U!InitialServer, M!NoReply, U!NoReply

LEMMA Same_DiagnosticSessionControl ==
  ASSUME NEW type PROVE M!DiagnosticSessionControl(type) => U!DiagnosticSessionControl(type)
BY Zenon
  DEF M!DiagnosticSessionControl, U!DiagnosticSessionControl, M!Hears, U!Hears, M!Serve,
      U!Serve, M!Reply, U!Reply, M!ZeroSeed, U!ZeroSeed, M!SecurityAccess_ClearUnlock,
      U!SecurityAccess_ClearUnlock, M!LockedSecurity, U!LockedSecurity, M!secVars, U!secVars,
      M!D!Download_Abort, U!D!Download_Abort, M!D!IdleSession, U!D!IdleSession,
      M!D!SLOT_INVALID, U!D!SLOT_INVALID, M!D!IdleJob, U!D!IdleJob, M!D!NoArea, U!D!NoArea,
      M!downloadVars, U!downloadVars

LEMMA Same_EcuReset ==
  ASSUME NEW type PROVE M!EcuReset(type) => U!EcuReset(type)
BY Zenon
  DEF M!EcuReset, U!EcuReset, M!Hears, U!Hears, M!SubfunctionAccess, U!SubfunctionAccess,
      M!require_programming_and_unlock, U!require_programming_and_unlock, M!Serve, U!Serve,
      M!Reply, U!Reply, M!ZeroSeed, U!ZeroSeed, M!downloadVars, U!downloadVars, M!secVars,
      U!secVars

LEMMA Same_RequestSeed ==
  M!RequestSeed => U!RequestSeed
BY Zenon
  DEF M!RequestSeed, U!RequestSeed, M!Hears, U!Hears, M!Serve, U!Serve, M!Reply, U!Reply,
      M!ZeroSeed, U!ZeroSeed, M!secVars, U!secVars, M!SeedDelayCode, U!SeedDelayCode,
      M!SecurityAccess_DrawSeed, U!SecurityAccess_DrawSeed, M!SecurityAccess_NoEntropy,
      U!SecurityAccess_NoEntropy, M!downloadVars, U!downloadVars

LEMMA Same_SendKey ==
  ASSUME NEW token PROVE M!SendKey(token) => U!SendKey(token)
BY Zenon
  DEF M!SendKey, U!SendKey, M!Hears, U!Hears, M!Serve, U!Serve, M!Reply, U!Reply, M!ZeroSeed,
      U!ZeroSeed, M!SeedDelayCode, U!SeedDelayCode, M!secVars, U!secVars,
      M!SecurityAccess_SubmitKey, U!SecurityAccess_SubmitKey, M!TriedState, U!TriedState,
      M!SubmitKeyResult, U!SubmitKeyResult, M!downloadVars, U!downloadVars

LEMMA Same_StartEraseMemory ==
  M!StartEraseMemory => U!StartEraseMemory
BY Zenon
  DEF M!StartEraseMemory, U!StartEraseMemory, M!Hears, U!Hears, M!D!PrepareOutcome,
      U!D!PrepareOutcome, M!D!BootObservation_GetInactiveSlot,
      U!D!BootObservation_GetInactiveSlot, M!D!SLOT_A, U!D!SLOT_A, M!D!SLOT_B, U!D!SLOT_B,
      M!D!SLOT_INVALID, U!D!SLOT_INVALID, M!D!IdleSession, U!D!IdleSession,
      M!D!EraseJob_CanStart, U!D!EraseJob_CanStart, M!D!NoArea, U!D!NoArea, M!D!Slots,
      U!D!Slots, M!D!StartedJob, U!D!StartedJob, M!D!IdleJob, U!D!IdleJob, M!SubfunctionAccess,
      U!SubfunctionAccess, M!require_programming_and_unlock, U!require_programming_and_unlock,
      M!Serve, U!Serve, M!Reply, U!Reply, M!ZeroSeed, U!ZeroSeed, M!download_result_to_nrc,
      U!download_result_to_nrc, M!secVars, U!secVars

LEMMA Same_EraseMemoryResults ==
  M!EraseMemoryResults => U!EraseMemoryResults
BY Zenon
  DEF M!EraseMemoryResults, U!EraseMemoryResults, M!Hears, U!Hears, M!Serve, U!Serve, M!Reply,
      U!Reply, M!ZeroSeed, U!ZeroSeed, M!SubfunctionAccess, U!SubfunctionAccess,
      M!require_programming_and_unlock, U!require_programming_and_unlock, M!RoutineResultCode,
      U!RoutineResultCode, M!downloadVars, U!downloadVars, M!secVars, U!secVars

LEMMA Same_RequestDownload ==
  ASSUME NEW size PROVE M!RequestDownload(size) => U!RequestDownload(size)
BY Zenon
  DEF M!RequestDownload, U!RequestDownload, M!Hears, U!Hears, M!RequestDownloadCode,
      U!RequestDownloadCode, M!ServiceAccess, U!ServiceAccess, M!require_programming_and_unlock,
      U!require_programming_and_unlock, M!download_result_to_nrc, U!download_result_to_nrc,
      M!D!BeginResult, U!D!BeginResult, M!Serve, U!Serve, M!BeginTransfer, U!BeginTransfer,
      M!Reply, U!Reply, M!ZeroSeed, U!ZeroSeed, M!D!Download_Begin, U!D!Download_Begin,
      M!D!BegunSession, U!D!BegunSession, M!downloadVars, U!downloadVars, M!secVars, U!secVars

LEMMA Same_TransferDataRefused ==
  ASSUME NEW bsc, NEW length
  PROVE  M!TransferDataRefused(bsc, length) => U!TransferDataRefused(bsc, length)
BY Zenon
  DEF M!TransferDataRefused, U!TransferDataRefused, M!Hears, U!Hears, M!TransferDataCode,
      U!TransferDataCode, M!ServiceAccess, U!ServiceAccess, M!require_programming_and_unlock,
      U!require_programming_and_unlock, M!download_result_to_nrc, U!download_result_to_nrc,
      M!D!TransferCheck, U!D!TransferCheck, M!Serve, U!Serve, M!ResetTransfer, U!ResetTransfer,
      M!Reply, U!Reply, M!ZeroSeed, U!ZeroSeed, M!downloadVars, U!downloadVars, M!secVars,
      U!secVars

LEMMA Same_TransferDataTaken ==
  ASSUME NEW bsc, NEW buffer
  PROVE  M!TransferDataTaken(bsc, buffer) => U!TransferDataTaken(bsc, buffer)
BY Zenon
  DEF M!TransferDataTaken, U!TransferDataTaken, M!Hears, U!Hears, M!TransferDataCode,
      U!TransferDataCode, M!ServiceAccess, U!ServiceAccess, M!require_programming_and_unlock,
      U!require_programming_and_unlock, M!download_result_to_nrc, U!download_result_to_nrc,
      M!D!TransferCheck, U!D!TransferCheck, M!D!BlockIsWritten, U!D!BlockIsWritten,
      M!D!WriteSucceeds, U!D!WriteSucceeds, M!D!WriteFits, U!D!WriteFits, M!D!BlankBelow,
      U!D!BlankBelow, M!D!UnitOffsets, U!D!UnitOffsets, M!D!Programs, U!D!Programs, M!D!Written,
      U!D!Written, M!D!WrittenBelow, U!D!WrittenBelow, M!D!AdvancedSession, U!D!AdvancedSession,
      M!Serve, U!Serve, M!CountedBlock, U!CountedBlock, M!Reply, U!Reply, M!ZeroSeed,
      U!ZeroSeed, M!D!BlockFails, U!D!BlockFails, M!D!WriteFailures, U!D!WriteFailures,
      M!ResetTransfer, U!ResetTransfer, M!secVars, U!secVars

LEMMA Same_RequestTransferExit ==
  M!RequestTransferExit => U!RequestTransferExit
BY Zenon
  DEF M!RequestTransferExit, U!RequestTransferExit, M!Hears, U!Hears, M!Serve, U!Serve,
      M!ResetTransfer, U!ResetTransfer, M!Reply, U!Reply, M!ZeroSeed, U!ZeroSeed,
      M!TransferExitCode, U!TransferExitCode, M!ServiceAccess, U!ServiceAccess,
      M!require_programming_and_unlock, U!require_programming_and_unlock, M!D!ExitAccepted,
      U!D!ExitAccepted, M!D!Download_Exit, U!D!Download_Exit, M!downloadVars, U!downloadVars,
      M!secVars, U!secVars

LEMMA Same_OtherRequest ==
  M!OtherRequest => U!OtherRequest
BY Zenon
  DEF M!OtherRequest, U!OtherRequest, M!Hears, U!Hears, M!Serve, U!Serve, M!Reply, U!Reply,
      M!ZeroSeed, U!ZeroSeed, M!downloadVars, U!downloadVars, M!secVars, U!secVars

LEMMA Same_SendResponse ==
  M!SendResponse => U!SendResponse
BY Zenon
  DEF M!SendResponse, U!SendResponse, M!NoReply, U!NoReply, M!ZeroSeed, U!ZeroSeed,
      M!downloadVars, U!downloadVars, M!secVars, U!secVars

LEMMA Same_SeedDelayPasses ==
  M!SeedDelayPasses => U!SeedDelayPasses
BY Zenon
  DEF M!SeedDelayPasses, U!SeedDelayPasses, M!downloadVars, U!downloadVars, M!secVars, U!secVars

LEMMA Same_SessionTimeout ==
  M!SessionTimeout => U!SessionTimeout
BY Zenon
  DEF M!SessionTimeout, U!SessionTimeout, M!SecurityAccess_ClearUnlock,
      U!SecurityAccess_ClearUnlock, M!LockedSecurity, U!LockedSecurity, M!ZeroSeed, U!ZeroSeed,
      M!D!Download_Abort, U!D!Download_Abort, M!D!IdleSession, U!D!IdleSession,
      M!D!SLOT_INVALID, U!D!SLOT_INVALID, M!D!IdleJob, U!D!IdleJob, M!D!NoArea, U!D!NoArea

LEMMA Same_DoScheduledReset ==
  M!DoScheduledReset => U!DoScheduledReset
BY Zenon
  DEF M!DoScheduledReset, U!DoScheduledReset, M!downloadVars, U!downloadVars, M!secVars,
      U!secVars

LEMMA Same_Restart ==
  M!Restart => U!Restart
BY Zenon
  DEF M!Restart, U!Restart, M!D!Boot, U!D!Boot, M!D!Slots, U!D!Slots, M!D!SLOT_A, U!D!SLOT_A,
      M!D!SLOT_B, U!D!SLOT_B, M!D!Bootable, U!D!Bootable, M!D!ConfirmOffset, U!D!ConfirmOffset,
      M!D!SLOT_INVALID, U!D!SLOT_INVALID, M!D!ImageConfirm_WriteConfirm,
      U!D!ImageConfirm_WriteConfirm, M!D!Written, U!D!Written, M!D!WrittenBelow,
      U!D!WrittenBelow, M!D!UnitOffsets, U!D!UnitOffsets, M!D!Programs, U!D!Programs,
      M!D!ConfirmBuffer, U!D!ConfirmBuffer, M!D!WriteFailures, U!D!WriteFailures, M!D!WriteFits,
      U!D!WriteFits, M!D!BlankBelow, U!D!BlankBelow, M!D!IdleSession, U!D!IdleSession,
      M!D!IdleJob, U!D!IdleJob, M!D!NoArea, U!D!NoArea, M!SecurityAccess_ClearUnlock,
      U!SecurityAccess_ClearUnlock, M!LockedSecurity, U!LockedSecurity, M!ZeroSeed, U!ZeroSeed,
      M!InitialServer, U!InitialServer, M!NoReply, U!NoReply

LEMMA Same_Download_Poll == M!Download_Poll => U!Download_Poll
<1>1. M!D!BootObservation_GetInactiveSlot = U!D!BootObservation_GetInactiveSlot
  BY DEF M!D!BootObservation_GetInactiveSlot, U!D!BootObservation_GetInactiveSlot, M!D!SLOT_A,
         U!D!SLOT_A, M!D!SLOT_B, U!D!SLOT_B, M!D!SLOT_INVALID, U!D!SLOT_INVALID
<1>2. M!D!FailedSession = U!D!FailedSession /\ M!D!IdleJob = U!D!IdleJob /\ M!D!NoArea = U!D!NoArea
  BY DEF M!D!FailedSession, U!D!FailedSession, M!D!IdleSession, U!D!IdleSession,
         M!D!SLOT_INVALID, U!D!SLOT_INVALID, M!D!IdleJob, U!D!IdleJob, M!D!NoArea, U!D!NoArea,
         M!D!SLOT_INVALID, U!D!SLOT_INVALID
<1>3. \A area, off : M!D!ErasedPage(area, M!D!flash_sector_off(off))
                     = U!D!ErasedPage(area, U!D!flash_sector_off(off))
  BY DEF M!D!ErasedPage, U!D!ErasedPage, M!D!UnitOffsets, U!D!UnitOffsets, M!D!InPage,
         U!D!InPage, M!D!flash_sector_off, U!D!flash_sector_off
<1>4. M!D!NextEraseOffset(job) = U!D!NextEraseOffset(job)
  BY DEF M!D!NextEraseOffset, U!D!NextEraseOffset, M!D!flash_sector_off, U!D!flash_sector_off
<1>5. M!D!PollErases => U!D!PollErases
  BY <1>1, <1>2, <1>3, <1>4 DEF M!D!PollErases, U!D!PollErases
<1>a. \A area, off : M!D!HalfErasedPages(area, M!D!flash_sector_off(off))
                     = U!D!HalfErasedPages(area, U!D!flash_sector_off(off))
  BY DEF M!D!HalfErasedPages, U!D!HalfErasedPages, M!D!UnitOffsets, U!D!UnitOffsets, M!D!InPage,
         U!D!InPage, M!D!flash_sector_off, U!D!flash_sector_off
<1>6. M!D!PollFails => U!D!PollFails
  BY <1>2, <1>a DEF M!D!PollFails, U!D!PollFails
<1> QED
  BY <1>5, <1>6, Zenon
  DEF M!Download_Poll, U!Download_Poll, M!D!Download_Poll, U!D!Download_Poll, M!secVars,
      U!secVars

----------------------------------------------------------------------------
(* The channel: its types *)

Steps == {"idle", "snapshot", "session", "seed", "key", "erase", "results", "download", "tester",
          "block", "exit", "reset", "attempt", "reconnect"}

\* The steps that find nothing of a request before theirs.
Strict == {"session", "seed", "key", "erase", "results", "download", "tester", "block", "exit",
           "reset"}

Fields == {"step", "confirmed", "package", "phase", "round", "did", "seen", "slow", "first",
           "target", "token", "tested", "offset", "bsc"}

Payloads == UNION {[M!D!UnitsOf(len) -> Data \cup {Erased}] : len \in Lengths}

Services ==
  {NoService, <<"0x10", "PRGS">>, <<"0x27", "seed">>, <<"0x27", "key">>, <<"0x31", "start">>,
   <<"0x31", "results">>, <<"0x34", "download">>, <<"0x3E", "tester">>, <<"0x36", "block">>,
   <<"0x37", "exit">>, <<"0x11", "HR">>}
  \cup {<<"0x22", DIDs[d]>> : d \in 1 .. 4}

Refusals ==
  {"SubFunctionNotSupported", "SubFunctionNotSupportedInActiveSession",
   "ServiceNotSupportedInActiveSession", "SecurityAccessDenied", "ConditionsNotCorrect",
   "RequestSequenceError", "RequestOutOfRange", "GeneralProgrammingFailure",
   "IncorrectMessageLengthOrInvalidFormat", "TransferDataSuspended", "WrongBlockSequenceCounter",
   "UploadDownloadNotAccepted", "RequiredTimeDelayNotExpired", "ExceedNumberOfAttempts",
   "InvalidKey"}

Messages == [service : Services, code : Refusals \cup {"OK"}, number : Nat, size : Nat,
             data : {<<>>} \cup M!D!Areas \cup Payloads, late : BOOLEAN]

GatewayTypes ==
  /\ DOMAIN gw = Fields
  /\ gw.step \in Steps /\ gw.confirmed \in BOOLEAN /\ gw.phase \in {"before", "after"}
  /\ gw.round \in {1, 2} /\ gw.did \in 1 .. 4 /\ gw.slow \in BOOLEAN
  /\ DOMAIN gw.seen = {"slot", "version", "confirmed"}
  /\ gw.token \in Nat /\ gw.offset \in Nat /\ gw.bsc \in 0 .. BscModulus - 1
  /\ Working => gw.package \in Packages /\ ~ gw.confirmed

ChannelTypes ==
  /\ connected \in BOOLEAN
  /\ call \in Messages /\ inbox \in Messages /\ serving \in Messages
  /\ answers \in Seq(Messages)

\* Where the job is in its reads and in its image.
Position ==
  /\ gw.step # "snapshot" => gw.round = 1 /\ gw.did = 1 /\ ~ gw.slow
  /\ gw.step \notin {"block", "tester", "exit", "reset"} => gw.offset = 0
  /\ gw.step \in {"block", "tester", "exit"} =>
       /\ gw.offset <= gw.package.size /\ gw.package.size <= SlotSize
       /\ gw.offset % ProgramUnit = 0
  /\ gw.step \in {"block", "tester"} => gw.offset < gw.package.size
  /\ gw.step = "exit" => gw.offset = gw.package.size

----------------------------------------------------------------------------
(* Messages and sequences of them *)

LEMMA EmptyMessage == None \in Messages /\ Empty(None) /\ ~ None.late
BY DEF None, Messages, Services, Empty, NoService

LEMMA BelatedMessage ==
  ASSUME NEW m \in Messages
  PROVE  /\ Belated(m) \in Messages
         /\ Belated(m).service = m.service /\ Belated(m).code = m.code
         /\ Belated(m).number = m.number /\ Belated(m).size = m.size /\ Belated(m).data = m.data
         /\ Empty(Belated(m)) <=> Empty(m)
         /\ Empty(m) => Belated(m) = m
         /\ ~ Empty(m) => Belated(m).late
BY DEF Belated, Messages, Empty

LEMMA Sequences ==
  ASSUME NEW s \in Seq(Messages)
  PROVE  /\ Len(s) \in Nat /\ DOMAIN s = 1 .. Len(s)
         /\ \A i \in DOMAIN s : s[i] \in Messages
         /\ s = <<>> <=> Len(s) = 0
         /\ BelatedAll(s) \in Seq(Messages) /\ Len(BelatedAll(s)) = Len(s)
         /\ \A i \in DOMAIN s : BelatedAll(s)[i] = Belated(s[i])
<1>1. Len(s) \in Nat /\ DOMAIN s = 1 .. Len(s) /\ \A i \in DOMAIN s : s[i] \in Messages
  OBVIOUS
<1>2. s = <<>> <=> Len(s) = 0
  BY EmptySeq
<1>3. \A i \in DOMAIN s : Belated(s[i]) \in Messages
  BY <1>1, BelatedMessage
<1>4. BelatedAll(s) \in [1 .. Len(s) -> Messages]
  BY <1>1, <1>3 DEF BelatedAll
<1>5. BelatedAll(s) \in Seq(Messages) /\ Len(BelatedAll(s)) = Len(s)
  BY <1>1, <1>4
<1> QED
  BY <1>1, <1>2, <1>5 DEF BelatedAll

LEMMA TailOf ==
  ASSUME NEW s \in Seq(Messages), s # <<>>
  PROVE  /\ Tail(s) \in Seq(Messages) /\ Len(Tail(s)) = Len(s) - 1 /\ Len(s) >= 1
         /\ Head(s) = s[1] /\ Head(s) \in Messages /\ 1 \in DOMAIN s
         /\ \A i \in DOMAIN Tail(s) : i + 1 \in DOMAIN s /\ Tail(s)[i] = s[i + 1]
<1>1. Len(s) \in Nat /\ Len(s) # 0 /\ DOMAIN s = 1 .. Len(s)
  BY Sequences
<1> QED
  BY <1>1

LEMMA AppendOf ==
  ASSUME NEW s \in Seq(Messages), NEW m \in Messages
  PROVE  /\ Append(s, m) \in Seq(Messages) /\ Len(Append(s, m)) = Len(s) + 1
         /\ Append(s, m) # <<>>
         /\ \A i \in DOMAIN s : Append(s, m)[i] = s[i]
         /\ Append(s, m)[Len(s) + 1] = m
         /\ DOMAIN Append(s, m) = 1 .. Len(s) + 1
OBVIOUS

LEMMA DrainedAnswers ==
  ASSUME answers \in Seq(Messages)
  PROVE  /\ Drained \in Seq(Messages)
         /\ answers = <<>> => Drained = <<>>
         /\ answers # <<>> =>
              /\ Len(Drained) = Len(answers) - 1
              /\ \A i \in DOMAIN Drained : i + 1 \in DOMAIN answers /\ Drained[i] = answers[i + 1]
BY TailOf DEF Drained

LEMMA Names ==
  /\ DIDs[1] = "FACTORY_IDENTITY" /\ DIDs[2] = "ACTIVE_SLOT" /\ DIDs[3] = "APP_VERSION"
  /\ DIDs[4] = "CONFIRM_RESULT" /\ Len(DIDs) = 4
BY DEF DIDs

LEMMA RequestIs ==
  ASSUME NEW service \in Services, NEW number \in Nat, NEW size \in Nat,
         NEW data \in {<<>>} \cup M!D!Areas \cup Payloads,
         NEW r, r = Request(service, number, size, data)
  PROVE  /\ r \in Messages
         /\ r.service = service /\ r.number = number /\ r.size = size /\ r.data = data
         /\ ~ r.late
<1>1. /\ r.service = service /\ r.code = "OK" /\ r.number = number /\ r.size = size
      /\ r.data = data /\ r.late = FALSE
  BY DEF Request, None
<1>2. r = [service |-> r.service, code |-> r.code, number |-> r.number, size |-> r.size,
           data |-> r.data, late |-> r.late]
  BY DEF Request, None
<1> QED
  BY <1>1, <1>2 DEF Messages

LEMMA SomeServices ==
  /\ <<"0x10", "PRGS">> \in Services /\ <<"0x27", "seed">> \in Services
  /\ <<"0x27", "key">> \in Services /\ <<"0x31", "start">> \in Services
  /\ <<"0x31", "results">> \in Services /\ <<"0x34", "download">> \in Services
  /\ <<"0x3E", "tester">> \in Services /\ <<"0x36", "block">> \in Services
  /\ <<"0x37", "exit">> \in Services /\ <<"0x11", "HR">> \in Services
  /\ \A d \in 1 .. 4 : <<"0x22", DIDs[d]>> \in Services
BY DEF Services

----------------------------------------------------------------------------
(* What the job asks *)

\* A request of the client as the node finds it.
Requests(m) ==
  /\ m.service[1] = "0x34" => m.size \in Sizes
  /\ m.service[1] = "0x36" =>
       m.size \in Lengths /\ m.data \in [M!D!UnitsOf(m.size) -> Data \cup {Erased}]

\* Whole units from a unit on are on a unit.
LEMMA SumOfUnits ==
  ASSUME NEW x \in Nat, NEW y \in Nat, x % ProgramUnit = 0, y % ProgramUnit = 0
  PROVE  (x + y) % ProgramUnit = 0
BY Constants, U!P!SumOfUnits

LEMMA Packed ==
  ASSUME GatewayTypes, Working
  PROVE  /\ gw.package \in Packages /\ gw.package.size \in Nat \ {0} /\ gw.package.size \in Sizes
         /\ gw.package.image \in [M!D!UnitOffsets -> Data \cup {Erased}]
         /\ gw.package.image[M!D!ConfirmOffset] = Erased
         /\ \A off \in M!D!UnitOffsets : gw.package.size <= off => gw.package.image[off] = Erased
BY PackageContents, Constants DEF GatewayTypes

LEMMA BlockFits ==
  ASSUME GatewayTypes, Position, gw.step \in {"block", "tester"}
  PROVE  /\ Chunk \in Nat \ {0} /\ Chunk \in Lengths /\ gw.offset + Chunk <= gw.package.size
         /\ ChunkData \in [M!D!UnitsOf(Chunk) -> Data \cup {Erased}]
         /\ \A off \in M!D!UnitsOf(Chunk) :
              /\ gw.offset + off \in M!D!UnitOffsets
              /\ ChunkData[off] = gw.package.image[gw.offset + off]
<1>1. /\ gw.offset \in Nat /\ gw.package.size \in Nat /\ gw.offset < gw.package.size
      /\ gw.package.size <= SlotSize /\ gw.offset % ProgramUnit = 0
  BY Packed DEF GatewayTypes, Position, Working
<1>2. Chunk \in Nat \ {0} /\ Chunk \in Lengths /\ gw.offset + Chunk <= gw.package.size
  <2>1. Chunk \in Nat \ {0} /\ Chunk <= TRANSFER_BLOCK_PAYLOAD
          /\ gw.offset + Chunk <= gw.package.size
    BY <1>1, BlockPayloads DEF Chunk
  <2>2. Chunk \in 1 .. TRANSFER_BLOCK_PAYLOAD
    BY <2>1, BlockPayloads
  <2> QED
    BY <2>1, <2>2, BlockPayloads
<1>3. ASSUME NEW off \in M!D!UnitsOf(Chunk)
      PROVE  gw.offset + off \in M!D!UnitOffsets
  <2>1. off \in Nat /\ off < Chunk /\ off % ProgramUnit = 0
    BY <1>2 DEF M!D!UnitsOf
  <2>2. (gw.offset + off) % ProgramUnit = 0
    BY <1>1, <2>1, SumOfUnits
  <2> QED
    BY <1>1, <1>2, <2>1, <2>2, Constants DEF M!D!UnitOffsets
<1>4. ChunkData = [off \in M!D!UnitsOf(Chunk) |-> gw.package.image[gw.offset + off]]
  BY DEF ChunkData, M!D!UnitsOf
<1>5. gw.package.image \in [M!D!UnitOffsets -> Data \cup {Erased}]
  BY Packed DEF Working
<1> QED
  BY <1>2, <1>3, <1>4, <1>5

\* The service of every step.
StepService ==
  CASE gw.step = "snapshot" -> <<"0x22", DIDs[gw.did]>>
    [] gw.step = "session"  -> <<"0x10", "PRGS">>
    [] gw.step = "seed"     -> <<"0x27", "seed">>
    [] gw.step = "key"      -> <<"0x27", "key">>
    [] gw.step = "erase"    -> <<"0x31", "start">>
    [] gw.step = "results"  -> <<"0x31", "results">>
    [] gw.step = "download" -> <<"0x34", "download">>
    [] gw.step = "tester"   -> <<"0x3E", "tester">>
    [] gw.step = "block"    -> <<"0x36", "block">>
    [] gw.step = "exit"     -> <<"0x37", "exit">>
    [] gw.step = "reset"    -> <<"0x11", "HR">>

LEMMA AskedIs ==
  ASSUME GatewayTypes, Position, Asking
  PROVE  /\ StepRequest \in Messages /\ ~ Empty(StepRequest) /\ ~ StepRequest.late
         /\ StepRequest.service = StepService /\ Requests(StepRequest)
         /\ gw.step = "block" => /\ StepRequest.number = gw.bsc /\ StepRequest.size = Chunk
                                 /\ StepRequest.data = ChunkData
         /\ gw.step = "download" => StepRequest.size = gw.package.size
<1>1. gw.token \in Nat /\ gw.bsc \in Nat /\ 0 \in Nat /\ gw.did \in 1 .. 4 /\ gw.step \in Steps
      /\ gw.package.size \in Nat /\ gw.package.size \in Sizes
  BY Packed, Constants DEF GatewayTypes, Asking
<1>2. CASE gw.step = "snapshot"
  <2>1. /\ StepRequest = Request(<<"0x22", DIDs[gw.did]>>, 0, 0, <<>>)
        /\ StepService = <<"0x22", DIDs[gw.did]>>
    BY <1>2 DEF StepRequest, StepService
  <2>2. /\ StepRequest \in Messages /\ StepRequest.service = <<"0x22", DIDs[gw.did]>>
        /\ ~ StepRequest.late
    <3>1. <<"0x22", DIDs[gw.did]>> \in Services
      BY <1>1, SomeServices
    <3>2. <<>> \in {<<>>} \cup M!D!Areas \cup Payloads
      OBVIOUS
    <3> QED
      BY <1>1, <2>1, <3>1, <3>2, RequestIs
  <2>3. StepRequest.service[1] = "0x22"
    BY <2>2
  <2> QED
    BY <1>2, <2>1, <2>2, <2>3 DEF Empty, NoService, Requests
<1>3. CASE gw.step = "download"
  <2>1. StepRequest = Request(<<"0x34", "download">>, 0, gw.package.size, <<>>)
          /\ StepService = <<"0x34", "download">>
    BY <1>3 DEF StepRequest, StepService
  <2> QED
    BY <1>1, <1>3, <2>1, RequestIs, SomeServices DEF Empty, NoService, Requests
<1>4. CASE gw.step = "block"
  <2>1. StepRequest = Request(<<"0x36", "block">>, gw.bsc, Chunk, ChunkData)
          /\ StepService = <<"0x36", "block">>
    BY <1>4 DEF StepRequest, StepService
  <2>2. Chunk \in Nat /\ ChunkData \in Payloads /\ Chunk \in Lengths
        /\ ChunkData \in [M!D!UnitsOf(Chunk) -> Data \cup {Erased}]
    BY <1>4, BlockFits DEF Payloads
  <2>3. ChunkData \in {<<>>} \cup M!D!Areas \cup Payloads
    BY <2>2
  <2>4. /\ StepRequest \in Messages
        /\ StepRequest.service = <<"0x36", "block">> /\ StepRequest.number = gw.bsc
        /\ StepRequest.size = Chunk /\ StepRequest.data = ChunkData /\ ~ StepRequest.late
    <3>1. <<"0x36", "block">> \in Services
      BY SomeServices
    <3> HIDE DEF Payloads
    <3> QED
      BY <1>1, <2>1, <2>2, <2>3, <3>1, RequestIs
  <2>5. Requests(StepRequest)
    BY <2>2, <2>4 DEF Requests
  <2> QED
    BY <1>4, <2>1, <2>4, <2>5 DEF Empty, NoService
<1>5. CASE gw.step = "key"
  <2>1. StepRequest = Request(<<"0x27", "key">>, gw.token, 0, <<>>)
          /\ StepService = <<"0x27", "key">>
    BY <1>5 DEF StepRequest, StepService
  <2> QED
    BY <1>1, <1>5, <2>1, RequestIs, SomeServices DEF Empty, NoService, Requests
<1>6. CASE gw.step \in {"session", "seed", "erase", "results", "tester", "exit", "reset"}
  <2>1. PICK s \in Services :
          /\ StepRequest = Request(s, 0, 0, <<>>) /\ StepService = s
          /\ s[1] \notin {"0x34", "0x36", "none"}
    BY <1>6, SomeServices DEF StepRequest, StepService
  <2>2. StepRequest \in Messages /\ StepRequest.service = s /\ ~ StepRequest.late
    <3>1. <<>> \in {<<>>} \cup M!D!Areas \cup Payloads
      OBVIOUS
    <3> QED
      BY <1>1, <2>1, <3>1, RequestIs
  <2> QED
    BY <1>6, <2>1, <2>2 DEF Empty, NoService, Requests
<1> QED
  BY <1>1, <1>2, <1>3, <1>4, <1>5, <1>6 DEF Asking, Working, Steps

----------------------------------------------------------------------------
(* The node: its invariant is kept by whatever this client asks *)

\* The node's own invariant, and the confirmation of the image it serves from.
NodeInv ==
  /\ U!ServerInv
  /\ alive => flash[running][M!D!ConfirmOffset] = ConfirmField

LEMMA NodeStates ==
  ASSUME NodeInv
  PROVE  /\ flash \in [M!D!Slots -> M!D!Areas] /\ running \in M!D!Slots
         /\ alive => activeSlot = running
         /\ server \in U!ServerRecords
         /\ session.received \in Nat /\ session.size \in Nat
         /\ session.target \in M!D!Slots \cup {M!D!SLOT_INVALID}
         /\ session.state \in {"IDLE", "PREPARING", "READY", "TRANSFERRING", "COMPLETE",
                               "PREPARATION_FAILED"}
         /\ session.state \in {"READY", "TRANSFERRING", "COMPLETE"} =>
              session.target \in M!D!Slots \ {running}
<1>1. U!P!TypeOK /\ U!P!RecordIsTrue /\ U!P!SessionOwnsInactive
  BY DEF NodeInv, U!ServerInv, U!P!IInv
<1>2. U!P!Slots = M!D!Slots /\ U!P!Areas = M!D!Areas /\ U!P!SLOT_INVALID = M!D!SLOT_INVALID
  BY DEF U!P!Slots, M!D!Slots, U!P!SLOT_A, M!D!SLOT_A, U!P!SLOT_B, M!D!SLOT_B,
         U!P!Areas, M!D!Areas, U!P!Cells, M!D!Cells, U!P!UnitOffsets, M!D!UnitOffsets,
         U!P!SLOT_INVALID, M!D!SLOT_INVALID
<1>3. server \in U!ServerRecords
  BY DEF NodeInv, U!ServerInv, U!ServerTypes
<1>4. 0 .. SlotSize \subseteq Nat
  BY Constants
<1> QED
  BY <1>1, <1>2, <1>3, <1>4 DEF U!P!TypeOK, U!P!RecordIsTrue, U!P!SessionOwnsInactive

\* Nothing but the node's own start touches what a node that is alive runs.
LEMMA ConfirmKept ==
  ASSUME NodeInv, U!ServerInv', flash'[running] = flash[running], UNCHANGED <<running, alive>>
  PROVE  NodeInv'
BY DEF NodeInv, M!D!ConfirmOffset

\* Which handler of the server a request of this client comes to.
LEMMA HandlerOf ==
  ASSUME NEW m, m.service \in Services, Handle(m)
  PROVE  \/ m.service[1] = "0x22" /\ U!OtherRequest
         \/ m.service = <<"0x3E", "tester">> /\ U!OtherRequest
         \/ m.service = <<"0x10", "PRGS">> /\ U!DiagnosticSessionControl("PRGS")
         \/ m.service = <<"0x11", "HR">> /\ U!EcuReset("HR")
         \/ m.service = <<"0x27", "seed">> /\ U!RequestSeed
         \/ m.service = <<"0x27", "key">> /\ U!SendKey(m.number)
         \/ m.service = <<"0x31", "start">> /\ U!StartEraseMemory
         \/ m.service = <<"0x31", "results">> /\ U!EraseMemoryResults
         \/ m.service = <<"0x34", "download">> /\ U!RequestDownload(m.size)
         \/ m.service = <<"0x36", "block">> /\ U!TransferDataRefused(m.number, m.size)
         \/ /\ m.service = <<"0x36", "block">>
            /\ U!TransferDataTaken(m.number, [length |-> m.size, data |-> m.data])
         \/ m.service = <<"0x37", "exit">> /\ U!RequestTransferExit
<1> DEFINE s == m.service
           block == [length |-> m.size, data |-> m.data]
<1>1. \/ s = NoService \/ s = <<"0x10", "PRGS">> \/ s = <<"0x27", "seed">>
      \/ s = <<"0x27", "key">> \/ s = <<"0x31", "start">> \/ s = <<"0x31", "results">>
      \/ s = <<"0x34", "download">> \/ s = <<"0x3E", "tester">> \/ s = <<"0x36", "block">>
      \/ s = <<"0x37", "exit">> \/ s = <<"0x11", "HR">> \/ s[1] = "0x22"
  BY DEF Services
<1>2. \/ s[1] = "0x22" /\ M!OtherRequest
      \/ s = <<"0x3E", "tester">> /\ M!OtherRequest
      \/ s = <<"0x10", "PRGS">> /\ M!DiagnosticSessionControl("PRGS")
      \/ s = <<"0x11", "HR">> /\ M!EcuReset("HR")
      \/ s = <<"0x27", "seed">> /\ M!RequestSeed
      \/ s = <<"0x27", "key">> /\ M!SendKey(m.number)
      \/ s = <<"0x31", "start">> /\ M!StartEraseMemory
      \/ s = <<"0x31", "results">> /\ M!EraseMemoryResults
      \/ s = <<"0x34", "download">> /\ M!RequestDownload(m.size)
      \/ s = <<"0x36", "block">> /\ M!TransferDataRefused(m.number, m.size)
      \/ s = <<"0x36", "block">> /\ M!TransferDataTaken(m.number, block)
      \/ s = <<"0x37", "exit">> /\ M!RequestTransferExit
  <2> USE DEF Handle
  <2>1. CASE s[1] = "0x22"
    BY <2>1
  <2>2. CASE s = NoService
    BY <2>2 DEF NoService
  <2>3. CASE s = <<"0x3E", "tester">>
    BY <2>3
  <2>4. CASE s = <<"0x10", "PRGS">>
    BY <2>4
  <2>5. CASE s = <<"0x11", "HR">>
    BY <2>5
  <2>6. CASE s = <<"0x27", "seed">> \/ s = <<"0x27", "key">>
    BY <2>6
  <2>7. CASE s = <<"0x31", "start">> \/ s = <<"0x31", "results">>
    BY <2>7
  <2>8. CASE s = <<"0x34", "download">> \/ s = <<"0x37", "exit">>
    BY <2>8
  <2>9. CASE s = <<"0x36", "block">>
    BY <2>9
  <2> QED
    BY <1>1, <2>1, <2>2, <2>3, <2>4, <2>5, <2>6, <2>7, <2>8, <2>9
<1> QED
  BY <1>2, Same_OtherRequest, Same_DiagnosticSessionControl, Same_EcuReset, Same_RequestSeed,
     Same_SendKey, Same_StartEraseMemory, Same_EraseMemoryResults, Same_RequestDownload,
     Same_TransferDataRefused, Same_TransferDataTaken, Same_RequestTransferExit

----------------------------------------------------------------------------
(* What each service does *)

\* The node took a request, and has an answer to it.
Served ==
  /\ alive /\ server.requestInProgress = FALSE /\ server'.requestInProgress = TRUE
  /\ reply'.code \in Refusals \cup {"OK"} /\ reply'.seed \in Nat

AccessKept ==
  /\ sec'.unlocked = sec.unlocked
  /\ server'.securityLevel = server.securityLevel /\ server'.sessionType = server.sessionType

TransferKept ==
  /\ UNCHANGED <<flash, running, activeSlot, alive, session>>
  /\ server'.xferIsActive = server.xferIsActive /\ server'.xferBsc = server.xferBsc

\* Any state the library is served with.
LEMMA ServedWith ==
  ASSUME NodeInv, NEW s \in U!ServerRecords, NEW r, U!Serve(s, r)
  PROVE  /\ server'.requestInProgress = TRUE
         /\ server'.xferIsActive = s.xferIsActive /\ server'.xferBsc = s.xferBsc
         /\ server'.securityLevel = s.securityLevel /\ server'.sessionType = s.sessionType
         /\ reply' = r
BY DEF U!Serve, U!ServerRecords

LEMMA Hearing ==
  ASSUME NodeInv, U!Hears
  PROVE  alive /\ server.requestInProgress = FALSE /\ server \in U!ServerRecords
BY NodeStates DEF U!Hears, U!ServerRecords

LEMMA RepliesWith ==
  ASSUME NEW service, NEW code \in Refusals \cup {"OK"}
  PROVE  /\ U!Reply(service, code).code = code /\ U!Reply(service, code).seed = 0
         /\ U!Reply(service, code).code \in Refusals \cup {"OK"}
         /\ U!Reply(service, code).seed \in Nat
BY DEF U!Reply, U!ZeroSeed

LEMMA AccessCodes ==
  /\ U!SubfunctionAccess \in Refusals \cup {"OK"}
  /\ U!ServiceAccess \in Refusals \cup {"OK"}
BY DEF U!SubfunctionAccess, U!ServiceAccess, U!require_programming_and_unlock, Refusals

\* A state of the library that keeps its transfer and its access, with an answer.
LEMMA QuietlyServed ==
  ASSUME NodeInv, U!Hears, UNCHANGED U!downloadVars, sec'.unlocked = sec.unlocked,
         NEW s \in U!ServerRecords, s.xferIsActive = server.xferIsActive,
         s.xferBsc = server.xferBsc, s.securityLevel = server.securityLevel,
         s.sessionType = server.sessionType,
         NEW r, r.code \in Refusals \cup {"OK"}, r.seed \in Nat, U!Serve(s, r)
  PROVE  Served /\ AccessKept /\ TransferKept /\ reply' = r
<1>1. /\ server'.requestInProgress = TRUE
      /\ server'.xferIsActive = s.xferIsActive /\ server'.xferBsc = s.xferBsc
      /\ server'.securityLevel = s.securityLevel /\ server'.sessionType = s.sessionType
      /\ reply' = r
  BY ServedWith
<1>2. alive /\ server.requestInProgress = FALSE
  BY Hearing
<1> QED
  BY <1>1, <1>2 DEF Served, AccessKept, TransferKept, U!downloadVars

\* The same state, with an answer that is a code.
LEMMA Answered ==
  ASSUME NodeInv, U!Hears, UNCHANGED U!downloadVars, sec'.unlocked = sec.unlocked,
         NEW service, NEW code \in Refusals \cup {"OK"}, U!Serve(server, U!Reply(service, code))
  PROVE  Served /\ AccessKept /\ TransferKept /\ reply'.code = code /\ reply'.seed = 0
<1> DEFINE r == U!Reply(service, code)
<1>1. r.code = code /\ r.seed = 0
  BY RepliesWith
<1>2. server \in U!ServerRecords
  BY NodeStates
<1> HIDE DEF r
<1>3. Served /\ AccessKept /\ TransferKept /\ reply' = r
  <2>1. U!Serve(server, r)
    BY DEF r
  <2> QED
    BY <1>1, <1>2, <2>1, QuietlyServed
<1> QED
  BY <1>1, <1>3

\* 0x22 and 0x3E
LEMMA OtherServed ==
  ASSUME NodeInv, U!OtherRequest
  PROVE  /\ Served /\ AccessKept /\ TransferKept /\ NodeInv'
         /\ reply'.code = "OK"
<1>1. /\ U!Serve(server, U!Reply("other", "OK")) /\ U!Hears
      /\ UNCHANGED U!downloadVars /\ UNCHANGED U!secVars
  BY DEF U!OtherRequest
<1>2. U!ServerInv'
  BY <1>1, U!NothingChanges, Constants, Zenon DEF NodeInv, U!Preserved
<1>3. NodeInv'
  BY <1>1, <1>2, ConfirmKept DEF U!downloadVars
<1>4. sec'.unlocked = sec.unlocked /\ "OK" \in Refusals \cup {"OK"}
  BY <1>1 DEF U!secVars
<1>5. Served /\ AccessKept /\ TransferKept /\ reply'.code = "OK"
  BY <1>1, <1>4, Answered
<1> QED
  BY <1>3, <1>5

\* 0x31 03
LEMMA ResultsServed ==
  ASSUME NodeInv, U!EraseMemoryResults
  PROVE  /\ Served /\ AccessKept /\ TransferKept /\ NodeInv'
         /\ reply'.code = "OK" => session.state # "PREPARING"
<1> DEFINE code == IF U!SubfunctionAccess # "OK" THEN U!SubfunctionAccess ELSE U!RoutineResultCode
<1>1. /\ U!Serve(server, U!Reply("0x31 results", code)) /\ U!Hears
      /\ UNCHANGED U!downloadVars /\ UNCHANGED U!secVars
  BY DEF U!EraseMemoryResults
<1>2. U!ServerInv'
  BY <1>1, U!NothingChanges, Constants, Zenon DEF NodeInv, U!Preserved
<1>3. NodeInv'
  BY <1>1, <1>2, ConfirmKept DEF U!downloadVars
<1>4. code \in Refusals \cup {"OK"} /\ (code = "OK" => session.state # "PREPARING")
  BY AccessCodes, NodeStates DEF U!RoutineResultCode, Refusals
<1>5. sec'.unlocked = sec.unlocked
  BY <1>1 DEF U!secVars
<1> HIDE DEF code
<1>6. Served /\ AccessKept /\ TransferKept /\ reply'.code = code
  BY <1>1, <1>4, <1>5, Answered
<1> QED
  BY <1>3, <1>4, <1>6

\* 0x11
LEMMA ResetServed ==
  ASSUME NodeInv, U!EcuReset("HR")
  PROVE  Served /\ AccessKept /\ TransferKept /\ NodeInv'
<1> DEFINE s == [server EXCEPT !.notReadyToReceive = TRUE, !.ecuResetScheduled = TRUE]
<1>1. U!Hears /\ UNCHANGED U!downloadVars /\ sec'.unlocked = sec.unlocked
  BY DEF U!EcuReset, U!secVars
<1>2. U!ServerInv'
  BY U!EcuResetInv, Constants DEF NodeInv, U!Preserved
<1>3. NodeInv'
  BY <1>1, <1>2, ConfirmKept DEF U!downloadVars
<1>4. PICK code \in Refusals \cup {"OK"} :
        U!Serve(s, U!Reply("0x11", code)) \/ U!Serve(server, U!Reply("0x11", code))
  BY AccessCodes DEF U!EcuReset, Refusals
<1>5. /\ s \in U!ServerRecords
      /\ s.xferIsActive = server.xferIsActive /\ s.xferBsc = server.xferBsc
      /\ s.securityLevel = server.securityLevel /\ s.sessionType = server.sessionType
  BY NodeStates DEF U!ServerRecords
<1> DEFINE r == U!Reply("0x11", code)
<1>6. r.code \in Refusals \cup {"OK"} /\ r.seed \in Nat
  BY RepliesWith
<1> HIDE DEF s, r
<1>7. CASE U!Serve(s, r)
  BY <1>1, <1>3, <1>5, <1>6, <1>7, QuietlyServed
<1>8. CASE U!Serve(server, r)
  BY <1>1, <1>3, <1>6, <1>8, NodeStates, QuietlyServed
<1> QED
  BY <1>4, <1>7, <1>8 DEF s, r

\* 0x27, odd: a zero seed is only ever answered for the level the library holds.
LEMMA SeedServed ==
  ASSUME NodeInv, U!RequestSeed
  PROVE  /\ Served /\ AccessKept /\ TransferKept /\ NodeInv'
         /\ reply'.code = "OK" /\ reply'.seed = 0 => server.securityLevel = 1
<1>1. U!Hears /\ UNCHANGED U!downloadVars
  BY DEF U!RequestSeed
<1>2. U!ServerInv'
  BY U!RequestSeedInv, Constants DEF NodeInv, U!Preserved
<1>3. NodeInv'
  BY <1>1, <1>2, ConfirmKept DEF U!downloadVars
<1>4. \/ \E code \in Refusals : U!Serve(server, U!Reply("0x27 seed", code)) /\ UNCHANGED U!secVars
      \/ /\ U!Serve(server, U!Reply("0x27 seed", "OK")) /\ UNCHANGED U!secVars
         /\ server.securityLevel = 1
      \/ /\ U!SecurityAccess_DrawSeed
         /\ U!Serve(server, [U!Reply("0x27 seed", "OK") EXCEPT !.seed = drawn'])
      \/ /\ U!SecurityAccess_NoEntropy
         /\ U!Serve(server, U!Reply("0x27 seed", "ConditionsNotCorrect"))
  <2>1. U!SeedDelayCode \in Refusals /\ "SubFunctionNotSupportedInActiveSession" \in Refusals
    BY DEF U!SeedDelayCode, Refusals
  <2>2. \/ U!Serve(server, U!Reply("0x27 seed", U!SeedDelayCode)) /\ UNCHANGED U!secVars
        \/ /\ U!Serve(server, U!Reply("0x27 seed", "OK")) /\ UNCHANGED U!secVars
           /\ server.securityLevel = 1
        \/ /\ U!Serve(server, U!Reply("0x27 seed", "SubFunctionNotSupportedInActiveSession"))
           /\ UNCHANGED U!secVars
        \/ /\ U!SecurityAccess_DrawSeed
           /\ U!Serve(server, [U!Reply("0x27 seed", "OK") EXCEPT !.seed = drawn'])
        \/ /\ U!SecurityAccess_NoEntropy
           /\ U!Serve(server, U!Reply("0x27 seed", "ConditionsNotCorrect"))
    BY Zenon DEF U!RequestSeed
  <2> QED
    BY <2>1, <2>2
<1>5. sec \in [seed : 0 .. MaxSeeds, unlocked : BOOLEAN] /\ drawn \in Nat
  BY Constants DEF NodeInv, U!ServerInv, U!Seeds, U!SeedBound
<1>6. ASSUME NEW code \in Refusals, U!Serve(server, U!Reply("0x27 seed", code)),
             UNCHANGED U!secVars
      PROVE  Served /\ AccessKept /\ TransferKept /\ reply'.code # "OK"
  <2>1. code # "OK" /\ sec'.unlocked = sec.unlocked
    BY <1>6 DEF Refusals, U!secVars
  <2> QED
    BY <1>1, <1>6, <2>1, Answered
<1>7. ASSUME U!Serve(server, U!Reply("0x27 seed", "OK")), UNCHANGED U!secVars
      PROVE  Served /\ AccessKept /\ TransferKept
  <2>1. sec'.unlocked = sec.unlocked /\ "OK" \in Refusals \cup {"OK"}
    BY <1>7 DEF U!secVars
  <2> QED
    BY <1>1, <1>7, <2>1, Answered
<1>8. ASSUME U!SecurityAccess_DrawSeed,
             U!Serve(server, [U!Reply("0x27 seed", "OK") EXCEPT !.seed = drawn'])
      PROVE  Served /\ AccessKept /\ TransferKept /\ reply'.seed # 0
  <2> DEFINE r == [U!Reply("0x27 seed", "OK") EXCEPT !.seed = drawn']
  <2>1. r.code = "OK" /\ r.seed = drawn' /\ drawn' = drawn + 1 /\ sec'.unlocked = sec.unlocked
    BY <1>5, <1>8 DEF U!Reply, U!SecurityAccess_DrawSeed
  <2>2. U!Serve(server, r)
    BY <1>8
  <2> HIDE DEF r
  <2>3. r.seed \in Nat /\ r.seed # 0 /\ r.code \in Refusals \cup {"OK"}
    BY <1>5, <2>1
  <2>4. Served /\ AccessKept /\ TransferKept /\ reply' = r
    BY <1>1, <2>1, <2>2, <2>3, NodeStates, QuietlyServed
  <2> QED
    BY <2>3, <2>4
<1>9. ASSUME U!SecurityAccess_NoEntropy,
             U!Serve(server, U!Reply("0x27 seed", "ConditionsNotCorrect"))
      PROVE  Served /\ AccessKept /\ TransferKept /\ reply'.code # "OK"
  <2>1. sec'.unlocked = sec.unlocked /\ "ConditionsNotCorrect" \in Refusals \cup {"OK"}
    BY <1>5, <1>9 DEF U!SecurityAccess_NoEntropy, Refusals
  <2>2. Served /\ AccessKept /\ TransferKept /\ reply'.code = "ConditionsNotCorrect"
    BY <1>1, <1>9, <2>1, Answered
  <2> QED
    BY <2>2
<1> QED
  BY <1>3, <1>4, <1>6, <1>7, <1>8, <1>9

\* Any state that keeps the transfer.
LEMMA TransferServed ==
  ASSUME NodeInv, U!Hears, UNCHANGED U!downloadVars,
         NEW s \in U!ServerRecords, s.xferIsActive = server.xferIsActive,
         s.xferBsc = server.xferBsc,
         NEW service, NEW code \in Refusals \cup {"OK"}, U!Serve(s, U!Reply(service, code))
  PROVE  /\ Served /\ TransferKept /\ reply'.code = code /\ reply'.seed = 0
         /\ server'.securityLevel = s.securityLevel /\ server'.sessionType = s.sessionType
<1> DEFINE r == U!Reply(service, code)
<1>1. r.code = code /\ r.seed = 0
  BY RepliesWith
<1> HIDE DEF r
<1>2. /\ server'.requestInProgress = TRUE
      /\ server'.xferIsActive = s.xferIsActive /\ server'.xferBsc = s.xferBsc
      /\ server'.securityLevel = s.securityLevel /\ server'.sessionType = s.sessionType
      /\ reply' = r
  <2>1. U!Serve(s, r)
    BY DEF r
  <2> QED
    BY <2>1, ServedWith
<1>3. alive /\ server.requestInProgress = FALSE
  BY Hearing
<1> QED
  BY <1>1, <1>2, <1>3 DEF Served, TransferKept, U!downloadVars

\* 0x27, even
LEMMA KeyServed ==
  ASSUME NodeInv, NEW token, U!SendKey(token)
  PROVE  /\ Served /\ TransferKept /\ NodeInv'
         /\ server'.sessionType = server.sessionType /\ (sec.unlocked => sec'.unlocked)
         /\ \/ server'.securityLevel = server.securityLevel
            \/ server'.securityLevel = 1 /\ sec'.unlocked /\ server.sessionType = "PRGS"
<1> DEFINE failed == [server EXCEPT !.seedDelay = "failed"]
           level == [server EXCEPT !.securityLevel = 1]
<1>1. U!Hears /\ UNCHANGED U!downloadVars
  BY DEF U!SendKey
<1>2. U!ServerInv'
  BY U!SendKeyInv, Constants DEF NodeInv, U!Preserved
<1>3. NodeInv'
  BY <1>1, <1>2, ConfirmKept DEF U!downloadVars
<1>4. sec \in [seed : 0 .. MaxSeeds, unlocked : BOOLEAN]
  BY DEF NodeInv, U!ServerInv, U!Seeds
<1>5. \/ /\ UNCHANGED U!secVars
         /\ \E code \in Refusals :
              \/ U!Serve(server, U!Reply("0x27 key", code))
              \/ U!Serve(failed, U!Reply("0x27 key", code))
      \/ /\ U!SecurityAccess_SubmitKey(token)
         /\ \/ /\ U!Serve(level, U!Reply("0x27 key", "OK")) /\ server.sessionType = "PRGS"
               /\ U!SubmitKeyResult(token) = "OK"
            \/ \E code \in Refusals : U!Serve(failed, U!Reply("0x27 key", code))
  <2>1. /\ U!SeedDelayCode \in Refusals /\ "SubFunctionNotSupportedInActiveSession" \in Refusals
        /\ "RequestSequenceError" \in Refusals /\ "InvalidKey" \in Refusals
    BY DEF U!SeedDelayCode, Refusals
  <2>2. CASE server.seedDelay # "none"
    BY <2>1, <2>2, Zenon DEF U!SendKey
  <2>3. CASE server.seedDelay = "none" /\ server.sessionType # "PRGS"
    BY <2>1, <2>3, Zenon DEF U!SendKey
  <2>4. CASE server.seedDelay = "none" /\ server.sessionType = "PRGS"
    <3>1. /\ U!SecurityAccess_SubmitKey(token)
          /\ CASE U!SubmitKeyResult(token) = "OK" -> U!Serve(level, U!Reply("0x27 key", "OK"))
               [] U!SubmitKeyResult(token) = "SEQUENCE_ERROR" ->
                    U!Serve(failed, U!Reply("0x27 key", "RequestSequenceError"))
               [] U!SubmitKeyResult(token) = "INVALID_KEY" ->
                    U!Serve(failed, U!Reply("0x27 key", "InvalidKey"))
      BY <2>4, Zenon DEF U!SendKey
    <3>2. U!SubmitKeyResult(token) \in {"OK", "SEQUENCE_ERROR", "INVALID_KEY"}
      BY DEF U!SubmitKeyResult
    <3>3. CASE U!SubmitKeyResult(token) = "OK"
      <4>1. U!Serve(level, U!Reply("0x27 key", "OK"))
        BY <3>1, <3>3
      <4> QED
        BY <2>4, <3>1, <3>3, <4>1
    <3>4. CASE U!SubmitKeyResult(token) = "SEQUENCE_ERROR"
      <4>1. U!Serve(failed, U!Reply("0x27 key", "RequestSequenceError"))
        BY <3>1, <3>4
      <4> QED
        BY <2>1, <3>1, <4>1
    <3>5. CASE U!SubmitKeyResult(token) = "INVALID_KEY"
      <4>1. U!Serve(failed, U!Reply("0x27 key", "InvalidKey"))
        BY <3>1, <3>5
      <4> QED
        BY <2>1, <3>1, <4>1
    <3> QED
      BY <3>2, <3>3, <3>4, <3>5
  <2> QED
    BY <2>2, <2>3, <2>4
<1>6. /\ server \in U!ServerRecords /\ failed \in U!ServerRecords /\ level \in U!ServerRecords
      /\ failed.xferIsActive = server.xferIsActive /\ failed.xferBsc = server.xferBsc
      /\ failed.securityLevel = server.securityLevel /\ failed.sessionType = server.sessionType
      /\ level.xferIsActive = server.xferIsActive /\ level.xferBsc = server.xferBsc
      /\ level.securityLevel = 1 /\ level.sessionType = server.sessionType
  BY NodeStates DEF U!ServerRecords
<1> HIDE DEF failed, level
<1>7. CASE /\ UNCHANGED U!secVars
           /\ \E code \in Refusals :
                \/ U!Serve(server, U!Reply("0x27 key", code))
                \/ U!Serve(failed, U!Reply("0x27 key", code))
  <2>1. sec'.unlocked = sec.unlocked
    BY <1>7 DEF U!secVars
  <2>2. PICK code \in Refusals : \/ U!Serve(server, U!Reply("0x27 key", code))
                                 \/ U!Serve(failed, U!Reply("0x27 key", code))
    BY <1>7
  <2>3. CASE U!Serve(server, U!Reply("0x27 key", code))
    BY <1>1, <1>3, <1>6, <2>1, <2>3, TransferServed
  <2>4. CASE U!Serve(failed, U!Reply("0x27 key", code))
    BY <1>1, <1>3, <1>6, <2>1, <2>4, TransferServed
  <2> QED
    BY <2>2, <2>3, <2>4
<1>8. CASE U!SecurityAccess_SubmitKey(token)
  <2>1. /\ sec.unlocked => sec'.unlocked
        /\ U!SubmitKeyResult(token) = "OK" => sec'.unlocked
    <3>1. CASE sec.seed = U!ZeroSeed
      BY <1>8, <3>1 DEF U!SecurityAccess_SubmitKey, U!SubmitKeyResult, U!secVars
    <3>2. CASE sec.seed # U!ZeroSeed
      <4>1. sec' = [seed |-> U!ZeroSeed, unlocked |-> sec.unlocked \/ token = sec.seed]
        BY <1>8, <3>2 DEF U!SecurityAccess_SubmitKey, U!TriedState
      <4>2. sec'.unlocked = (sec.unlocked \/ token = sec.seed)
        BY <4>1
      <4>3. U!SubmitKeyResult(token) = "OK" => token = sec.seed
        BY DEF U!SubmitKeyResult
      <4> QED
        BY <4>2, <4>3
    <3> QED
      BY <3>1, <3>2
  <2>2. CASE /\ U!Serve(level, U!Reply("0x27 key", "OK")) /\ server.sessionType = "PRGS"
             /\ U!SubmitKeyResult(token) = "OK"
    <3>1. "OK" \in Refusals \cup {"OK"}
      OBVIOUS
    <3> QED
      BY <1>1, <1>3, <1>6, <2>1, <2>2, <3>1, TransferServed
  <2>3. CASE \E code \in Refusals : U!Serve(failed, U!Reply("0x27 key", code))
    BY <1>1, <1>3, <1>6, <2>1, <2>3, TransferServed
  <2>4. CASE \E code \in Refusals : U!Serve(server, U!Reply("0x27 key", code))
    BY <1>1, <1>3, <1>6, <2>1, <2>4, TransferServed
  <2> QED
    BY <1>5, <1>7, <2>2, <2>3, <2>4
<1> QED
  BY <1>5, <1>7, <1>8

\* 0x10, for the session this client asks for.
LEMMA SessionServed ==
  ASSUME NodeInv, U!DiagnosticSessionControl("PRGS")
  PROVE  /\ Served /\ TransferKept /\ NodeInv'
         /\ server'.sessionType = "PRGS" /\ server'.securityLevel = server.securityLevel
         /\ sec'.unlocked = sec.unlocked \/ server.sessionType = "DS"
<1> DEFINE s == [server EXCEPT !.sessionType = "PRGS"]
<1>1. /\ U!Hears /\ UNCHANGED U!downloadVars /\ U!Serve(s, U!Reply("0x10", "OK"))
      /\ server.sessionType = "PRGS" => UNCHANGED U!secVars
  BY Zenon DEF U!DiagnosticSessionControl
<1>2. U!ServerInv'
  BY U!DiagnosticSessionControlInv, Constants DEF NodeInv, U!Preserved
<1>3. NodeInv'
  BY <1>1, <1>2, ConfirmKept DEF U!downloadVars
<1>4. /\ s \in U!ServerRecords /\ server.sessionType \in {"DS", "PRGS"}
      /\ s.xferIsActive = server.xferIsActive /\ s.xferBsc = server.xferBsc
      /\ s.securityLevel = server.securityLevel /\ s.sessionType = "PRGS"
  BY NodeStates DEF U!ServerRecords
<1>5. "OK" \in Refusals \cup {"OK"}
  OBVIOUS
<1> HIDE DEF s
<1>6. /\ Served /\ TransferKept
      /\ server'.securityLevel = s.securityLevel /\ server'.sessionType = s.sessionType
  BY <1>1, <1>4, <1>5, TransferServed
<1> QED
  BY <1>1, <1>3, <1>4, <1>6 DEF U!secVars

\* 0x31 01
LEMMA StartServed ==
  ASSUME NodeInv, U!StartEraseMemory
  PROVE  /\ Served /\ AccessKept /\ NodeInv'
         /\ UNCHANGED <<flash, running, activeSlot, alive>>
         /\ server'.xferIsActive = server.xferIsActive
<1>1. U!Hears /\ UNCHANGED <<flash, running, activeSlot, alive>> /\ sec'.unlocked = sec.unlocked
  BY DEF U!StartEraseMemory, U!secVars
<1>2. U!ServerInv'
  BY U!StartEraseMemoryInv, Constants DEF NodeInv, U!Preserved
<1>3. NodeInv'
  BY <1>1, <1>2, ConfirmKept
<1>4. PICK code \in Refusals \cup {"OK"} : U!Serve(server, U!Reply("0x31 start", code))
  <2> DEFINE outcome == U!D!PrepareOutcome(U!D!IdleSession, U!D!IdleJob)
             nrc == U!download_result_to_nrc(outcome.result)
  <2>1. nrc \in Refusals \cup {"OK"}
    <3>1. outcome.result \in {"SEQUENCE_ERROR", "REJECTED", "PROGRAMMING_FAILURE", "OK"}
      BY DEF U!D!PrepareOutcome
    <3> QED
      BY <3>1 DEF U!download_result_to_nrc, Refusals
  <2>2. \/ U!Serve(server, U!Reply("0x31 start", U!SubfunctionAccess))
        \/ U!Serve(server, U!Reply("0x31 start", nrc))
    BY Zenon DEF U!StartEraseMemory
  <2> HIDE DEF nrc
  <2> QED
    BY <2>1, <2>2, AccessCodes, Zenon
<1> DEFINE r == U!Reply("0x31 start", code)
<1>5. r.code \in Refusals \cup {"OK"} /\ r.seed \in Nat /\ U!Serve(server, r)
  BY <1>4, RepliesWith
<1> HIDE DEF r
<1>6. /\ server'.requestInProgress = TRUE
      /\ server'.xferIsActive = server.xferIsActive
      /\ server'.securityLevel = server.securityLevel
      /\ server'.sessionType = server.sessionType /\ reply' = r
  BY <1>5, ServedWith, NodeStates
<1>7. alive /\ server.requestInProgress = FALSE
  BY <1>1, Hearing
<1> QED
  BY <1>1, <1>3, <1>5, <1>6, <1>7 DEF Served, AccessKept

\* The library's transfer is over.
LEMMA TransferOver ==
  ASSUME NodeInv
  PROVE  LET s == IF server.xferIsActive THEN U!ResetTransfer(server) ELSE server
         IN  /\ s \in U!ServerRecords /\ ~ s.xferIsActive
             /\ s.securityLevel = server.securityLevel /\ s.sessionType = server.sessionType
<1>1. server \in U!ServerRecords /\ 1 \in 0 .. BscModulus - 1 /\ 0 \in 0 .. SlotSize
  BY NodeStates, Constants
<1> QED
  BY <1>1 DEF U!ResetTransfer, U!ServerRecords

\* What is served while the flash and the access stay as they are.
LEMMA AccessServed ==
  ASSUME NodeInv, U!Hears, UNCHANGED U!secVars, NEW s \in U!ServerRecords,
         s.securityLevel = server.securityLevel, s.sessionType = server.sessionType,
         NEW service, NEW code \in Refusals \cup {"OK"}, U!Serve(s, U!Reply(service, code))
  PROVE  /\ Served /\ AccessKept /\ reply'.code = code
         /\ server'.xferIsActive = s.xferIsActive /\ server'.xferBsc = s.xferBsc
<1> DEFINE r == U!Reply(service, code)
<1>1. r.code = code /\ r.seed = 0
  BY RepliesWith
<1> HIDE DEF r
<1>2. /\ server'.requestInProgress = TRUE
      /\ server'.xferIsActive = s.xferIsActive /\ server'.xferBsc = s.xferBsc
      /\ server'.securityLevel = s.securityLevel /\ server'.sessionType = s.sessionType
      /\ reply' = r
  <2>1. U!Serve(s, r)
    BY DEF r
  <2> QED
    BY <2>1, ServedWith
<1>3. alive /\ server.requestInProgress = FALSE
  BY Hearing
<1> QED
  BY <1>1, <1>2, <1>3 DEF Served, AccessKept, U!secVars

\* 0x36, refused
LEMMA BlockRefused ==
  ASSUME NodeInv, NEW bsc, NEW length, U!TransferDataRefused(bsc, length)
  PROVE  /\ Served /\ AccessKept /\ NodeInv'
         /\ UNCHANGED <<flash, running, activeSlot, alive, session>>
         /\ ~ server'.xferIsActive /\ reply'.code # "OK"
<1> DEFINE s == IF server.xferIsActive THEN U!ResetTransfer(server) ELSE server
           code == U!TransferDataCode(bsc, length)
<1>1. /\ U!Hears /\ UNCHANGED U!downloadVars /\ UNCHANGED U!secVars
      /\ U!Serve(s, U!Reply("0x36", code)) /\ code # "OK"
  BY DEF U!TransferDataRefused
<1>2. U!ServerInv'
  BY <1>1, U!TransferGivenUp, Constants, Zenon DEF NodeInv, U!Preserved
<1>3. NodeInv'
  BY <1>1, <1>2, ConfirmKept DEF U!downloadVars
<1>4. code \in Refusals \cup {"OK"}
  <2>1. U!D!TransferCheck(session, bsc, length)
          \in {"OK", "INCORRECT_LENGTH", "TRANSFER_SUSPENDED", "SEQUENCE_ERROR",
               "WRONG_BLOCK_SEQUENCE"}
    BY DEF U!D!TransferCheck
  <2>2. U!download_result_to_nrc(U!D!TransferCheck(session, bsc, length)) \in Refusals \cup {"OK"}
    BY <2>1 DEF U!download_result_to_nrc, Refusals
  <2> QED
    BY <2>2, AccessCodes DEF U!TransferDataCode, Refusals
<1>5. /\ s \in U!ServerRecords /\ ~ s.xferIsActive
      /\ s.securityLevel = server.securityLevel /\ s.sessionType = server.sessionType
  BY TransferOver
<1> HIDE DEF s, code
<1>6. /\ Served /\ AccessKept /\ reply'.code = code /\ server'.xferIsActive = s.xferIsActive
  BY <1>1, <1>4, <1>5, AccessServed
<1> QED
  BY <1>1, <1>3, <1>5, <1>6 DEF U!downloadVars

\* 0x37: only a transfer that is complete for both layers ends well.
LEMMA ExitServed ==
  ASSUME NodeInv, U!RequestTransferExit
  PROVE  /\ Served /\ AccessKept /\ NodeInv'
         /\ UNCHANGED <<flash, running, activeSlot, alive>>
         /\ ~ server'.xferIsActive
         /\ session'.state \in {session.state, "COMPLETE"}
         /\ reply'.code = "OK" => /\ server.xferIsActive /\ session.state = "TRANSFERRING"
                                  /\ session.received = session.size
<1> DEFINE s == IF server.xferIsActive THEN U!ResetTransfer(server) ELSE server
           code == U!TransferExitCode
<1>1. /\ U!Hears /\ UNCHANGED U!secVars
      /\ U!Serve(s, U!Reply("0x37", code))
      /\ UNCHANGED U!downloadVars \/ U!D!Download_Exit
  BY Zenon DEF U!RequestTransferExit
<1>2. U!ServerInv'
  BY U!RequestTransferExitInv, Constants DEF NodeInv, U!Preserved
<1>3. /\ UNCHANGED <<flash, running, activeSlot, alive>>
      /\ session'.state \in {session.state, "COMPLETE"}
  <2>1. CASE UNCHANGED U!downloadVars
    BY <2>1 DEF U!downloadVars
  <2>2. CASE U!D!Download_Exit
    <3>1. session' = [session EXCEPT !.state = "COMPLETE"]
      BY <2>2 DEF U!D!Download_Exit
    <3>2. session'.state = "COMPLETE"
      BY <3>1, U!StateTypes, Constants DEF NodeInv
    <3> QED
      BY <2>2, <3>2 DEF U!D!Download_Exit
  <2> QED
    BY <1>1, <2>1, <2>2
<1>4. NodeInv'
  BY <1>2, <1>3, ConfirmKept
<1>5. /\ code \in Refusals \cup {"OK"}
      /\ code = "OK" => /\ server.xferIsActive /\ session.state = "TRANSFERRING"
                        /\ session.received = session.size
  BY AccessCodes DEF U!TransferExitCode, U!D!ExitAccepted, Refusals
<1>6. /\ s \in U!ServerRecords /\ ~ s.xferIsActive
      /\ s.securityLevel = server.securityLevel /\ s.sessionType = server.sessionType
  BY TransferOver
<1> HIDE DEF s, code
<1>7. /\ Served /\ AccessKept /\ reply'.code = code /\ server'.xferIsActive = s.xferIsActive
  BY <1>1, <1>5, <1>6, AccessServed
<1> QED
  BY <1>3, <1>4, <1>5, <1>6, <1>7

\* 0x34: a transfer begins in the blank slot that does not run.
LEMMA DownloadServed ==
  ASSUME NodeInv, NEW size \in Sizes, U!RequestDownload(size)
  PROVE  /\ Served /\ AccessKept /\ NodeInv'
         /\ UNCHANGED <<flash, running, activeSlot, alive>>
         /\ \/ reply'.code # "OK" /\ TransferKept
            \/ /\ reply'.code = "OK" /\ ~ server.xferIsActive /\ server'.xferIsActive
               /\ size <= SlotSize
               /\ session'.state = "TRANSFERRING" /\ session'.target = session.target
               /\ session'.received = 0 /\ session'.size = size
               /\ session.target \in M!D!Slots
               /\ \A off \in M!D!UnitOffsets : flash[session.target][off] = Erased
<1>1. U!Hears /\ UNCHANGED U!secVars
  BY DEF U!RequestDownload
<1>2. U!ServerInv'
  BY U!RequestDownloadInv, Constants DEF NodeInv, U!Preserved
<1>3. CASE U!RequestDownloadCode(size) # "OK"
  <2> DEFINE code == U!RequestDownloadCode(size)
  <2>1. U!Serve(server, U!Reply("0x34", code)) /\ UNCHANGED U!downloadVars
    BY <1>3, Zenon DEF U!RequestDownload
  <2>2. code \in Refusals \cup {"OK"}
    <3>1. U!D!BeginResult(session, size) \in
            {"OK", "OUT_OF_RANGE", "PROGRAMMING_FAILURE", "SEQUENCE_ERROR", "NOT_READY"}
      BY NodeStates, Constants DEF U!D!BeginResult
    <3>2. U!download_result_to_nrc(U!D!BeginResult(session, size)) \in Refusals \cup {"OK"}
      BY <3>1 DEF U!download_result_to_nrc, Refusals
    <3> QED
      BY <3>2, AccessCodes DEF U!RequestDownloadCode, Refusals
  <2>3. NodeInv'
    BY <1>2, <2>1, ConfirmKept DEF U!downloadVars
  <2>4. sec'.unlocked = sec.unlocked
    BY <1>1 DEF U!secVars
  <2> HIDE DEF code
  <2>5. Served /\ AccessKept /\ TransferKept /\ reply'.code = code
    BY <1>1, <2>1, <2>2, <2>4, Answered
  <2> QED
    BY <1>3, <2>1, <2>3, <2>5 DEF code, U!downloadVars
<1>4. CASE U!RequestDownloadCode(size) = "OK"
  <2> DEFINE s == U!BeginTransfer(server, size)
  <2>1. /\ U!Serve(s, U!Reply("0x34", "OK"))
        /\ U!D!BeginResult(session, size) = "OK" /\ session' = U!D!BegunSession(session, size)
        /\ UNCHANGED <<flash, running, activeSlot, alive>>
    BY <1>4 DEF U!RequestDownload, U!D!Download_Begin
  <2>2. session.state = "READY" /\ size \in 0 .. SlotSize
    BY <2>1, NodeStates, Constants DEF U!D!BeginResult
  <2>3. session.received = 0 /\ U!P!PreparedSlotIsBlank
    BY <2>2 DEF NodeInv, U!ServerInv, U!Transfer, U!FreshSession, U!P!IInv
  <2>4. /\ session'.state = "TRANSFERRING" /\ session'.target = session.target
        /\ session'.received = 0 /\ session'.size = size
    BY <2>1, <2>3, U!StateTypes, Constants DEF NodeInv, U!D!BegunSession
  <2>5. /\ session.target \in M!D!Slots
        /\ \A off \in M!D!UnitOffsets : flash[session.target][off] = Erased
    BY <2>2, <2>3, NodeStates DEF U!P!PreparedSlotIsBlank, U!P!BlankArea, U!P!UnitOffsets,
       M!D!UnitOffsets
  <2>6. /\ s \in U!ServerRecords /\ s.xferIsActive = TRUE
        /\ s.securityLevel = server.securityLevel /\ s.sessionType = server.sessionType
    <3>1. server \in U!ServerRecords /\ 1 \in 0 .. BscModulus - 1 /\ 0 \in 0 .. SlotSize
      BY NodeStates, Constants
    <3> QED
      BY <2>2, <3>1 DEF U!BeginTransfer, U!ServerRecords
  <2>7. "OK" \in Refusals \cup {"OK"} /\ ~ server.xferIsActive /\ size <= SlotSize
    <3>1. ~ server.xferIsActive
      BY <1>4 DEF U!RequestDownloadCode
    <3> QED
      BY <2>2, <3>1, Constants
  <2>8. NodeInv'
    BY <1>2, <2>1, ConfirmKept
  <2> HIDE DEF s
  <2>9. Served /\ AccessKept /\ reply'.code = "OK" /\ server'.xferIsActive = s.xferIsActive
    BY <1>1, <2>1, <2>6, <2>7, AccessServed
  <2> QED
    BY <2>1, <2>4, <2>5, <2>6, <2>7, <2>8, <2>9
<1> QED
  BY <1>3, <1>4

\* A slot that was blank from base on, once the block is written there.
LEMMA BlockGoesTo ==
  ASSUME NEW area \in M!D!Areas, NEW base \in Nat, NEW size \in Nat, NEW data,
         \A off \in M!D!UnitOffsets : base <= off => area[off] = Erased
  PROVE  \A off \in M!D!UnitOffsets :
           U!D!Written(area, base, [length |-> size, data |-> data])[off]
             = IF base <= off /\ off < base + size THEN data[off - base] ELSE area[off]
<1> DEFINE buffer == [length |-> size, data |-> data]
<1>1. buffer.length = size /\ buffer.data = data
  OBVIOUS
<1>2. U!D!UnitOffsets = M!D!UnitOffsets /\ \A off \in M!D!UnitOffsets : off \in Nat
  BY Constants DEF U!D!UnitOffsets, M!D!UnitOffsets
<1> HIDE DEF buffer
<1>3. ASSUME NEW off \in M!D!UnitOffsets
      PROVE  U!D!Written(area, base, buffer)[off]
               = IF base <= off /\ off < base + size THEN data[off - base] ELSE area[off]
  <2>1. U!D!Written(area, base, buffer)[off]
          = IF off < base + size /\ U!D!Programs(buffer, base, off)
            THEN data[off - base] ELSE area[off]
    BY <1>1, <1>2 DEF U!D!Written, U!D!WrittenBelow
  <2>2. CASE base <= off /\ off < base + size /\ data[off - base] = Erased
    BY <1>1, <1>2, <2>1, <2>2 DEF U!D!Programs
  <2>3. CASE ~ (base <= off /\ off < base + size /\ data[off - base] = Erased)
    BY <1>1, <1>2, <2>1, <2>3 DEF U!D!Programs
  <2> QED
    BY <2>2, <2>3
<1> QED
  BY <1>3 DEF buffer

\* 0x36, taken: the block is behind what was received, or the transfer of the library is over.
LEMMA BlockTaken ==
  ASSUME NodeInv, NEW size \in Lengths, NEW data \in [M!D!UnitsOf(size) -> Data \cup {Erased}],
         NEW bsc, U!TransferDataTaken(bsc, [length |-> size, data |-> data])
  PROVE  /\ Served /\ AccessKept /\ NodeInv'
         /\ UNCHANGED <<running, activeSlot, alive>> /\ flash'[running] = flash[running]
         /\ session.state = "TRANSFERRING" /\ server.xferIsActive
         /\ session.target \in M!D!Slots /\ session'.state = "TRANSFERRING"
         /\ \/ reply'.code # "OK" /\ ~ server'.xferIsActive
            \/ /\ reply'.code = "OK" /\ server'.xferIsActive /\ size % ProgramUnit = 0
               /\ session'.target = session.target /\ session'.size = session.size
               /\ session'.received = session.received + size
               /\ \A off \in M!D!UnitOffsets :
                    flash'[session.target][off]
                      = IF session.received <= off /\ off < session.received + size
                        THEN data[off - session.received] ELSE flash[session.target][off]
<1> DEFINE buffer == [length |-> size, data |-> data]
<1>1. /\ U!Hears /\ UNCHANGED U!secVars /\ UNCHANGED <<running, activeSlot, alive, job>>
      /\ U!TransferDataCode(bsc, buffer.length) = "OK"
      /\ \/ /\ U!D!BlockIsWritten(buffer)
            /\ U!Serve(U!CountedBlock(server, buffer.length), U!Reply("0x36", "OK"))
         \/ /\ U!D!BlockFails(buffer)
            /\ U!Serve(U!ResetTransfer(server), U!Reply("0x36", "GeneralProgrammingFailure"))
  BY Zenon DEF U!TransferDataTaken
<1>2. buffer \in U!D!Buffers(Lengths)
  <2>1. U!D!UnitsOf(size) = M!D!UnitsOf(size)
    BY DEF U!D!UnitsOf, M!D!UnitsOf
  <2>2. buffer \in [length : {size}, data : [U!D!UnitsOf(size) -> Data \cup {Erased}]]
    BY <2>1
  <2> HIDE DEF buffer
  <2> QED
    BY <2>2 DEF U!D!Buffers
<1>3. bsc = server.xferBsc
  BY <1>1 DEF U!TransferDataCode
<1>4. buffer.length = size /\ buffer.data = data /\ size \in Nat
  BY Constants
<1>5. U!ServerInv'
  <2>1. U!TransferDataTaken(server.xferBsc, buffer)
    BY <1>3
  <2> HIDE DEF buffer
  <2> QED
    BY <1>2, <2>1, U!TransferDataTakenInv, Constants DEF NodeInv, U!Preserved
<1> HIDE DEF buffer
<1>6. /\ server.xferIsActive /\ session.state = "TRANSFERRING"
      /\ server.xferBytes + size <= server.xferTotal
      /\ U!D!TransferCheck(session, bsc, buffer.length) = "OK"
  <2>1. /\ server.xferIsActive /\ session.state = "TRANSFERRING"
        /\ server.xferBytes + buffer.length <= server.xferTotal
        /\ U!D!TransferCheck(session, bsc, buffer.length) = "OK"
    BY <1>1, <1>2, U!TakenBlock, Constants DEF NodeInv
  <2> QED
    BY <1>4, <2>1
<1>7. session.target \in M!D!Slots \ {running}
  BY <1>6, NodeStates
<1>8. alive
  BY <1>1 DEF U!Hears
<1>9. flash'[running] = flash[running]
  <2>1. U!P!Download_Transfer(bsc, buffer)
    BY <1>1, <1>6, <1>8, U!SameTransfer, Constants
  <2> QED
    BY <2>1, U!P!RunningSlotKept, Constants DEF NodeInv, U!ServerInv
<1>10. NodeInv'
  BY <1>1, <1>5, <1>9, ConfirmKept
<1>11. CASE /\ U!D!BlockIsWritten(buffer)
            /\ U!Serve(U!CountedBlock(server, buffer.length), U!Reply("0x36", "OK"))
  <2> DEFINE s == U!CountedBlock(server, buffer.length)
  <2>1. /\ s \in U!ServerRecords /\ s.xferIsActive = TRUE
        /\ s.securityLevel = server.securityLevel /\ s.sessionType = server.sessionType
    <3>1. server \in U!ServerRecords
      BY NodeStates
    <3>2. server.xferBsc \in Nat /\ server.xferBytes \in Nat /\ server.xferTotal \in 0 .. SlotSize
      BY <3>1, Constants DEF U!ServerRecords
    <3>3. (server.xferBsc + 1) % BscModulus \in 0 .. BscModulus - 1
      BY <3>2, Constants
    <3>4. server.xferBytes + size \in 0 .. SlotSize
      BY <1>4, <1>6, <3>2, Constants
    <3> QED
      BY <1>4, <1>6, <3>1, <3>3, <3>4 DEF U!CountedBlock, U!ServerRecords
  <2>2. "OK" \in Refusals \cup {"OK"} /\ U!Serve(s, U!Reply("0x36", "OK"))
    BY <1>11
  <2> HIDE DEF s
  <2>3. Served /\ AccessKept /\ reply'.code = "OK" /\ server'.xferIsActive = s.xferIsActive
    BY <1>1, <2>1, <2>2, AccessServed
  <2>4. /\ session' = [state |-> "TRANSFERRING", target |-> session.target,
                       bsc |-> (session.bsc + 1) % BscModulus,
                       received |-> session.received + buffer.length, size |-> session.size]
        /\ flash'[session.target]
             = U!D!Written(flash[session.target], session.received, buffer)
    BY <1>4, <1>6, <1>11, U!BlockLeaves, Constants DEF NodeInv
  <2>5. /\ session'.state = "TRANSFERRING" /\ session'.target = session.target
        /\ session'.received = session.received + size /\ session'.size = session.size
    BY <1>4, <2>4
  <2>6. size % ProgramUnit = 0
    BY <1>4, <1>11 DEF U!D!BlockIsWritten, U!D!WriteSucceeds, U!D!WriteFits
  <2>7. \A off \in M!D!UnitOffsets :
          flash'[session.target][off]
            = IF session.received <= off /\ off < session.received + size
              THEN data[off - session.received] ELSE flash[session.target][off]
    <3>1. \A off \in M!D!UnitOffsets :
            session.received <= off => flash[session.target][off] = Erased
      BY <1>6 DEF NodeInv, U!ServerInv, U!Transfer, U!BlankAhead, U!D!UnitOffsets,
         M!D!UnitOffsets
    <3>2. flash[session.target] \in M!D!Areas /\ session.received \in Nat
      BY <1>7, NodeStates
    <3>3. \A off \in M!D!UnitOffsets :
            U!D!Written(flash[session.target], session.received,
                        [length |-> size, data |-> data])[off]
              = IF session.received <= off /\ off < session.received + size
                THEN data[off - session.received] ELSE flash[session.target][off]
      BY <1>4, <3>1, <3>2, BlockGoesTo
    <3> QED
      BY <2>4, <3>3, Zenon DEF buffer
  <2> QED
    BY <1>1, <1>6, <1>7, <1>9, <1>10, <2>1, <2>3, <2>5, <2>6, <2>7
<1>12. CASE /\ U!D!BlockFails(buffer)
            /\ U!Serve(U!ResetTransfer(server), U!Reply("0x36", "GeneralProgrammingFailure"))
  <2> DEFINE s == U!ResetTransfer(server)
  <2>1. /\ s \in U!ServerRecords /\ ~ s.xferIsActive
        /\ s.securityLevel = server.securityLevel /\ s.sessionType = server.sessionType
    BY <1>6, TransferOver
  <2>2. /\ "GeneralProgrammingFailure" \in Refusals \cup {"OK"}
        /\ U!Serve(s, U!Reply("0x36", "GeneralProgrammingFailure"))
    BY <1>12 DEF Refusals
  <2> HIDE DEF s
  <2>3. /\ Served /\ AccessKept /\ reply'.code = "GeneralProgrammingFailure"
        /\ server'.xferIsActive = s.xferIsActive
    BY <1>1, <2>1, <2>2, AccessServed
  <2>4. session' = session
    BY <1>12 DEF U!D!BlockFails
  <2> QED
    BY <1>1, <1>6, <1>7, <1>9, <1>10, <2>1, <2>3, <2>4
<1> QED
  BY <1>1, <1>11, <1>12

\* Whatever this client asks, the node answers, and keeps its invariant and what it runs.
LEMMA Handled ==
  ASSUME NodeInv, NEW m \in Messages, Requests(m), Handle(m)
  PROVE  /\ Served /\ NodeInv'
         /\ UNCHANGED <<running, activeSlot, alive>> /\ flash'[running] = flash[running]
<1> DEFINE block == [length |-> m.size, data |-> m.data]
<1>1. m.service \in Services
  BY DEF Messages
<1>2. CASE U!TransferDataTaken(m.number, block) /\ m.service = <<"0x36", "block">>
  <2>1. m.size \in Lengths /\ m.data \in [M!D!UnitsOf(m.size) -> Data \cup {Erased}]
    BY <1>2 DEF Requests
  <2> QED
    BY <1>2, <2>1, BlockTaken
<1>3. CASE U!RequestDownload(m.size) /\ m.service = <<"0x34", "download">>
  <2>1. m.size \in Sizes
    BY <1>3 DEF Requests
  <2> QED
    BY <1>3, <2>1, DownloadServed
<1>4. CASE U!RequestSeed
  BY <1>4, SeedServed DEF TransferKept
<1>5. CASE U!SendKey(m.number)
  BY <1>5, KeyServed DEF TransferKept
<1>6. CASE U!OtherRequest \/ U!EraseMemoryResults
  BY <1>6, OtherServed, ResultsServed DEF TransferKept
<1>7. CASE U!DiagnosticSessionControl("PRGS") \/ U!EcuReset("HR")
  BY <1>7, SessionServed, ResetServed DEF TransferKept
<1>8. CASE U!StartEraseMemory \/ U!RequestTransferExit
  BY <1>8, StartServed, ExitServed
<1>9. CASE U!TransferDataRefused(m.number, m.size)
  BY <1>9, BlockRefused
<1> HIDE DEF block
<1>10. \/ U!OtherRequest \/ U!DiagnosticSessionControl("PRGS") \/ U!EcuReset("HR")
       \/ U!RequestSeed \/ U!SendKey(m.number) \/ U!StartEraseMemory \/ U!EraseMemoryResults
       \/ m.service = <<"0x34", "download">> /\ U!RequestDownload(m.size)
       \/ U!TransferDataRefused(m.number, m.size)
       \/ m.service = <<"0x36", "block">> /\ U!TransferDataTaken(m.number, block)
       \/ U!RequestTransferExit
  BY <1>1, HandlerOf, Zenon DEF block
<1> QED
  BY <1>2, <1>3, <1>4, <1>5, <1>6, <1>7, <1>8, <1>9, <1>10

\* The answer leaves.
LEMMA ResponseSent ==
  ASSUME NodeInv, M!SendResponse
  PROVE  /\ AccessKept /\ TransferKept /\ NodeInv'
         /\ server.requestInProgress = TRUE /\ server'.requestInProgress = FALSE
<1>1. U!SendResponse
  BY Same_SendResponse
<1>2. /\ server' = [server EXCEPT !.requestInProgress = FALSE] /\ server.requestInProgress
      /\ UNCHANGED U!downloadVars /\ UNCHANGED U!secVars
  BY <1>1 DEF U!SendResponse
<1>3. U!ServerInv'
  BY <1>1, U!TimerInv, Constants DEF NodeInv, U!Preserved
<1>4. NodeInv'
  BY <1>2, <1>3, ConfirmKept DEF U!downloadVars
<1> QED
  BY <1>2, <1>4, NodeStates
  DEF AccessKept, TransferKept, U!ServerRecords, U!downloadVars, U!secVars

\* What the node does of its own accord: a preparation goes on, or the session lapses, or a
\* timer passes.
LEMMA NodeAlone ==
  ASSUME NodeInv, M!SeedDelayPasses \/ M!SessionTimeout \/ M!DoScheduledReset \/ M!Download_Poll
  PROVE  /\ NodeInv' /\ UNCHANGED <<running, activeSlot, alive>>
         /\ flash'[running] = flash[running]
         /\ server'.requestInProgress = server.requestInProgress
         /\ server'.xferIsActive = server.xferIsActive
         /\ \/ AccessKept
            \/ server'.securityLevel = 0
         /\ \/ UNCHANGED <<flash, session>>
            \/ flash' = flash /\ session'.state = "IDLE"
            \/ session.state = "PREPARING"
<1>1. server \in U!ServerRecords
  BY NodeStates
<1>2. CASE M!SeedDelayPasses \/ M!DoScheduledReset
  <2>1. U!SeedDelayPasses \/ U!DoScheduledReset
    BY <1>2, Same_SeedDelayPasses, Same_DoScheduledReset
  <2>2. /\ \/ server' = [server EXCEPT !.seedDelay = "none"]
           \/ server' = [server EXCEPT !.ecuResetScheduled = FALSE]
        /\ UNCHANGED U!downloadVars /\ UNCHANGED U!secVars
    BY <2>1 DEF U!SeedDelayPasses, U!DoScheduledReset
  <2>3. U!ServerInv'
    BY <2>1, U!TimerInv, Constants DEF NodeInv, U!Preserved
  <2>4. NodeInv'
    BY <2>2, <2>3, ConfirmKept DEF U!downloadVars
  <2> QED
    BY <1>1, <2>2, <2>4 DEF AccessKept, U!ServerRecords, U!downloadVars, U!secVars
<1>3. CASE M!SessionTimeout
  <2>1. U!SessionTimeout
    BY <1>3, Same_SessionTimeout
  <2>2. /\ server' = [server EXCEPT !.sessionType = "DS", !.securityLevel = 0]
        /\ UNCHANGED <<flash, running, activeSlot, alive>> /\ session' = U!D!IdleSession
    BY <2>1 DEF U!SessionTimeout, U!D!Download_Abort
  <2>3. session'.state = "IDLE"
    BY <2>2 DEF U!D!IdleSession
  <2>4. U!ServerInv'
    BY <2>1, U!SessionTimeoutInv, Constants DEF NodeInv, U!Preserved
  <2>5. NodeInv'
    BY <2>2, <2>4, ConfirmKept
  <2> QED
    BY <1>1, <2>2, <2>3, <2>5 DEF U!ServerRecords
<1>4. CASE M!Download_Poll
  <2>1. U!Download_Poll
    BY <1>4, Same_Download_Poll
  <2>2. U!D!Download_Poll /\ UNCHANGED U!secVars /\ server' = server
    BY <2>1 DEF U!Download_Poll
  <2>3. /\ flash'[running] = flash[running] /\ UNCHANGED <<running, activeSlot, alive>>
    BY <2>2, U!SamePoll, U!P!RunningSlotKept, Constants DEF NodeInv, U!ServerInv
  <2>4. U!ServerInv'
    BY <2>1, U!Download_PollInv, Constants DEF NodeInv, U!Preserved
  <2>5. NodeInv'
    BY <2>3, <2>4, ConfirmKept
  <2>6. session.state = "PREPARING"
    BY <2>2 DEF U!D!Download_Poll
  <2> QED
    BY <2>2, <2>3, <2>5, <2>6 DEF AccessKept, U!secVars
<1> QED
  BY <1>2, <1>3, <1>4

\* A restart: nothing is left of a request, a session, a transfer or an access, and the slots are
\* what they were but for their confirm fields.
LEMMA Restarted ==
  ASSUME NodeInv, M!Restart
  PROVE  /\ NodeInv' /\ session'.state = "IDLE"
         /\ ~ server'.xferIsActive /\ server'.requestInProgress = FALSE
         /\ server'.securityLevel = 0
         /\ \A slot \in M!D!Slots, off \in M!D!UnitOffsets \ {M!D!ConfirmOffset} :
              flash'[slot][off] = flash[slot][off]
<1>1. U!Restart
  BY Same_Restart
<1>2. U!D!Boot /\ server' = U!InitialServer
  BY <1>1 DEF U!Restart
<1>3. session'.state = "IDLE"
  BY <1>2 DEF U!D!Boot, U!D!IdleSession
<1>4. ~ server'.xferIsActive /\ server'.requestInProgress = FALSE /\ server'.securityLevel = 0
  BY <1>2 DEF U!InitialServer
<1>5. U!ServerInv'
  BY <1>1, U!RestartInv, Constants DEF NodeInv, U!Preserved
<1>6. /\ U!P!ServesConfirmed'
      /\ \A slot \in U!P!Slots, off \in U!P!UnitOffsets \ {U!P!ConfirmOffset} :
           flash'[slot][off] = flash[slot][off]
  BY <1>2, U!SameBoot, U!P!BootConfirms, Constants DEF NodeInv, U!ServerInv
<1>7. U!P!ConfirmOffset = M!D!ConfirmOffset /\ U!P!UnitOffsets = M!D!UnitOffsets
        /\ U!P!Slots = M!D!Slots
  BY DEF U!P!Slots, M!D!Slots, U!P!SLOT_A, M!D!SLOT_A, U!P!SLOT_B, M!D!SLOT_B,
         U!P!UnitOffsets, M!D!UnitOffsets, U!P!ConfirmOffset, M!D!ConfirmOffset
<1>8. NodeInv'
  BY <1>5, <1>6, <1>7 DEF NodeInv, U!P!ServesConfirmed, U!P!ConfirmOffset, M!D!ConfirmOffset
<1> QED
  BY <1>3, <1>4, <1>6, <1>7, <1>8

\* The node at the start.
LEMMA NodeStarts ==
  ASSUME M!Init
  PROVE  /\ NodeInv
         /\ server.requestInProgress = FALSE /\ ~ server.xferIsActive
         /\ server.securityLevel = 0
<1>1. U!Init
  BY Same_Init
<1>2. U!ServerInv /\ server = U!InitialServer
  BY <1>1, U!InitInv, Constants DEF U!Init
<1>3. flash[running][U!P!ConfirmOffset] = ConfirmField
  BY <1>1, U!SameBoot, U!P!ConfirmedImage, Constants DEF U!Init
<1> QED
  BY <1>2, <1>3 DEF NodeInv, U!InitialServer, U!P!ConfirmOffset, M!D!ConfirmOffset

----------------------------------------------------------------------------
(* How the job goes on *)

\* Every move of the job keeps the rest of its record.
Keeps(fields) == DOMAIN gw' = Fields /\ \A f \in Fields \ fields : gw'[f] = gw[f]

Ends == \E b \in BOOLEAN : gw' = [IdleGateway EXCEPT !.confirmed = b]

ReadsAgain ==
  /\ gw.step = "snapshot" /\ gw'.step \in {"snapshot", "attempt"}
  /\ Keeps({"step", "round", "did", "seen", "slow", "first"})
  /\ gw'.round = 1 /\ gw'.did = 1 /\ gw'.seen = Nothing /\ gw'.slow = FALSE

\* What is known of the node once the answer to a read is in.
SeenNow(answer) ==
  CASE DIDs[gw.did] = "ACTIVE_SLOT" -> [gw.seen EXCEPT !.slot = answer.number]
    [] DIDs[gw.did] = "APP_VERSION" -> [gw.seen EXCEPT !.version = answer.data]
    [] DIDs[gw.did] = "CONFIRM_RESULT" -> [gw.seen EXCEPT !.confirmed = answer.number = 1]
    [] DIDs[gw.did] = "FACTORY_IDENTITY" -> gw.seen

ReadsNext(answer) ==
  /\ gw.step = "snapshot" /\ gw.did < 4
  /\ Keeps({"did", "seen"})
  /\ gw'.did = gw.did + 1 /\ gw'.seen = SeenNow(answer)

ReadsTwice ==
  /\ gw.step = "snapshot" /\ gw.did = 4
  /\ Keeps({"round", "did", "seen", "first"})
  /\ gw'.round = 2 /\ gw'.did = 1 /\ gw'.seen = Nothing

OpensSession ==
  /\ gw.step = "snapshot" /\ gw.did = 4 /\ gw.slow = FALSE
  /\ Keeps({"step", "target", "round", "did", "seen", "first"})
  /\ gw'.step = "session" /\ gw'.round = 1 /\ gw'.did = 1 /\ gw'.seen = Nothing

\* The steps that follow each other.
StepsOn ==
  /\ Keeps({"step", "token", "tested", "offset", "bsc"})
  /\ gw'.token \in Nat /\ gw'.bsc \in 0 .. BscModulus - 1
  /\ \/ /\ gw'.offset = gw.offset
        /\ \/ gw.step = "session" /\ gw'.step = "seed"
           \/ gw.step = "seed" /\ gw'.step \in {"key", "erase"}
           \/ gw.step = "key" /\ gw'.step = "erase"
           \/ gw.step = "erase" /\ gw'.step = "results"
           \/ gw.step = "results" /\ gw'.step = "download"
           \/ gw.step = "download" /\ gw'.step = "block"
           \/ gw.step = "tester" /\ gw'.step = "block"
           \/ gw.step = "exit" /\ gw'.step = "reset"
     \/ /\ gw.step = "block" /\ gw'.offset = gw.offset + Chunk
        /\ gw'.step = IF gw.offset + Chunk < gw.package.size THEN "block" ELSE "exit"

ResetSent ==
  /\ gw.step = "reset" /\ gw'.step = "reconnect"
  /\ Keeps({"step", "phase", "offset", "bsc"})
  /\ gw'.phase = "after" /\ gw'.offset = 0 /\ gw'.bsc = 1

LEMMA EndedIs ==
  ASSUME NEW state, gw' \in Ended(state)
  PROVE  Ends /\ (gw'.confirmed => state = "CONFIRMED")
BY DEF Ended, Ends, IdleGateway

LEMMA AnotherAttemptIs ==
  ASSUME GatewayTypes, gw.step = "snapshot", gw' \in AnotherAttempt
  PROVE  (Ends /\ ~ gw'.confirmed) \/ ReadsAgain
<1> DEFINE again == [gw EXCEPT !.round = 1, !.did = 1, !.seen = Nothing, !.slow = FALSE,
                               !.first = Nothing]
<1>1. \/ gw' = [again EXCEPT !.step = "attempt"] \/ gw' = again
      \/ gw' \in Ended("PACKAGE_VALIDATED")
  BY DEF AnotherAttempt
<1>2. DOMAIN gw = Fields
  BY DEF GatewayTypes
<1>3. CASE gw' = [again EXCEPT !.step = "attempt"]
  BY <1>2, <1>3 DEF ReadsAgain, Keeps, Fields
<1>4. CASE gw' = again
  BY <1>2, <1>4 DEF ReadsAgain, Keeps, Fields
<1>5. CASE gw' \in Ended("PACKAGE_VALIDATED")
  BY <1>5, EndedIs
<1> QED
  BY <1>1, <1>3, <1>4, <1>5

\* A job that is over reports CONFIRMED only from a second snapshot that shows it.
Concludes(answer) ==
  /\ gw.step = "snapshot" /\ gw.did = 4 /\ gw.slow = FALSE
  /\ SeenNow(answer).slot = gw.target /\ SeenNow(answer).version = gw.package.image

LEMMA ReadIs ==
  ASSUME GatewayTypes, gw.step = "snapshot", NEW result, NEW answer,
         gw' \in AfterRead(result, answer)
  PROVE  \/ Ends /\ (gw'.confirmed => result = "OK" /\ Concludes(answer))
         \/ ReadsAgain
         \/ result = "OK" /\ (ReadsNext(answer) \/ ReadsTwice \/ OpensSession)
<1> DEFINE s == SeenNow(answer)
<1>1. \/ gw' \in AnotherAttempt
      \/ /\ result = "OK" /\ gw.did < 4 /\ gw' = [gw EXCEPT !.did = @ + 1, !.seen = s]
      \/ /\ result = "OK" /\ ~ (gw.did < 4) /\ ~ gw.slow
         /\ gw' = [gw EXCEPT !.round = 2, !.did = 1, !.first = s, !.seen = Nothing]
      \/ /\ result = "OK" /\ ~ (gw.did < 4) /\ ~ gw.slow
         /\ gw' \in SnapshotTaken(s)
  <2>1. gw' \in IF result # "OK" THEN AnotherAttempt
                ELSE IF gw.did < 4 THEN {[gw EXCEPT !.did = @ + 1, !.seen = s]}
                ELSE AnotherAttempt \cup
                     IF gw.slow THEN {}
                     ELSE IF gw.round = 1
                     THEN {[gw EXCEPT !.round = 2, !.did = 1, !.first = s, !.seen = Nothing]}
                     ELSE IF s = gw.first THEN SnapshotTaken(s) ELSE {}
    BY Names DEF AfterRead, SeenNow
  <2> HIDE DEF s
  <2> QED
    BY <2>1
<1> HIDE DEF s
<1>2. DOMAIN gw = Fields /\ (gw.did < 4 \/ gw.did = 4) /\ gw.slow \in BOOLEAN
  BY DEF GatewayTypes
<1>3. CASE gw' \in AnotherAttempt
  BY <1>3, AnotherAttemptIs
<1>4. CASE gw' = [gw EXCEPT !.did = @ + 1, !.seen = s] /\ result = "OK" /\ gw.did < 4
  BY <1>2, <1>4 DEF ReadsNext, Keeps, Fields, s
<1>5. CASE /\ gw' = [gw EXCEPT !.round = 2, !.did = 1, !.first = s, !.seen = Nothing]
           /\ result = "OK" /\ ~ (gw.did < 4)
  BY <1>2, <1>5 DEF ReadsTwice, Keeps, Fields
<1>6. CASE gw' \in SnapshotTaken(s) /\ result = "OK" /\ ~ (gw.did < 4) /\ ~ gw.slow
  <2>1. \/ gw' = [gw EXCEPT !.step = "session", !.target = expected_inactive_slot(s.slot),
                            !.round = 1, !.did = 1, !.seen = Nothing, !.first = Nothing]
        \/ gw' \in Ended("PACKAGE_VALIDATED")
        \/ gw' \in Ended(classify_post_reset(s))
    BY <1>6 DEF SnapshotTaken
  <2>2. CASE gw' = [gw EXCEPT !.step = "session", !.target = expected_inactive_slot(s.slot),
                              !.round = 1, !.did = 1, !.seen = Nothing, !.first = Nothing]
    BY <1>2, <1>6, <2>2 DEF OpensSession, Keeps, Fields
  <2>3. CASE gw' \in Ended("PACKAGE_VALIDATED")
    BY <2>3, EndedIs
  <2>4. CASE gw' \in Ended(classify_post_reset(s))
    BY <1>2, <1>6, <2>4, EndedIs DEF classify_post_reset, Concludes, s
  <2> QED
    BY <2>1, <2>2, <2>3, <2>4
<1> QED
  BY <1>1, <1>3, <1>4, <1>5, <1>6

\* Every way on.
LEMMA MovesOn ==
  ASSUME GatewayTypes, Position, Asking, NEW result, NEW answer, answer.number \in Nat,
         gw' \in After(result, answer)
  PROVE  \/ Ends /\ (gw'.confirmed => result = "OK" /\ Concludes(answer))
         \/ ReadsAgain
         \/ gw.step = "results" /\ result = "RequestSequenceError" /\ gw' = gw
         \/ result \in {"OK", "TIMEOUT"} /\ ResetSent
         \/ result = "OK" /\ (ReadsNext(answer) \/ ReadsTwice \/ OpensSession \/ StepsOn)
<1>1. DOMAIN gw = Fields /\ gw.step \in Steps /\ gw.token \in Nat /\ gw.bsc \in 0 .. BscModulus - 1
  BY DEF GatewayTypes
<1>2. ASSUME NEW next, NEW state \in {"PACKAGE_VALIDATED", "SESSION_OPEN", "AUTHORIZED"},
             gw' \in Simply(result, next, state)
      PROVE  (result = "OK" /\ gw' = next) \/ (Ends /\ ~ gw'.confirmed)
  <2>1. (result = "OK" /\ gw' = next) \/ gw' \in Ended(state)
    BY <1>2 DEF Simply
  <2>2. state # "CONFIRMED"
    OBVIOUS
  <2>3. CASE gw' \in Ended(state)
    BY <2>2, <2>3, EndedIs
  <2> QED
    BY <2>1, <2>3
<1>3. CASE gw.step = "snapshot"
  BY <1>3, ReadIs DEF After
<1>4. CASE gw.step = "session"
  <2>1. gw' \in Simply(result, [gw EXCEPT !.step = "seed"], "PACKAGE_VALIDATED")
    BY <1>4 DEF After
  <2>2. (result = "OK" /\ gw' = [gw EXCEPT !.step = "seed"]) \/ (Ends /\ ~ gw'.confirmed)
    BY <1>2, <2>1
  <2>3. ASSUME gw' = [gw EXCEPT !.step = "seed"] PROVE StepsOn
    BY <1>1, <1>4, <2>3 DEF StepsOn, Keeps, Fields
  <2> QED
    BY <2>2, <2>3
<1>5. CASE gw.step = "seed"
  <2>1. gw' \in AfterSeed(result, answer.number)
    BY <1>5 DEF After
  <2>2. \/ gw' \in Ended("SESSION_OPEN")
        \/ result = "OK" /\ gw' = [gw EXCEPT !.step = "erase"]
        \/ result = "OK" /\ gw' = [gw EXCEPT !.step = "key", !.token = answer.number]
    BY <2>1 DEF AfterSeed
  <2>3. CASE gw' \in Ended("SESSION_OPEN")
    BY <2>3, EndedIs
  <2>4. ASSUME \/ gw' = [gw EXCEPT !.step = "erase"]
               \/ gw' = [gw EXCEPT !.step = "key", !.token = answer.number]
        PROVE  StepsOn
    BY <1>1, <1>5, <2>4 DEF StepsOn, Keeps, Fields
  <2> QED
    BY <2>2, <2>3, <2>4
<1>6. CASE gw.step = "key"
  <2>1. gw' \in Simply(result, [gw EXCEPT !.step = "erase", !.token = 0], "SESSION_OPEN")
    BY <1>6 DEF After
  <2>2. \/ result = "OK" /\ gw' = [gw EXCEPT !.step = "erase", !.token = 0]
        \/ Ends /\ ~ gw'.confirmed
    BY <1>2, <2>1
  <2>3. ASSUME gw' = [gw EXCEPT !.step = "erase", !.token = 0] PROVE StepsOn
    BY <1>1, <1>6, <2>3 DEF StepsOn, Keeps, Fields
  <2> QED
    BY <2>2, <2>3
<1>7. CASE gw.step = "erase"
  <2>1. gw' \in Simply(result, [gw EXCEPT !.step = "results"], "AUTHORIZED")
    BY <1>7 DEF After
  <2>2. (result = "OK" /\ gw' = [gw EXCEPT !.step = "results"]) \/ (Ends /\ ~ gw'.confirmed)
    BY <1>2, <2>1
  <2>3. ASSUME gw' = [gw EXCEPT !.step = "results"] PROVE StepsOn
    BY <1>1, <1>7, <2>3 DEF StepsOn, Keeps, Fields
  <2> QED
    BY <2>2, <2>3
<1>8. CASE gw.step = "results"
  <2>1. gw' \in AfterResults(result)
    BY <1>8 DEF After
  <2> QED
    BY <1>1, <1>8, <2>1, EndedIs DEF AfterResults, StepsOn, Keeps, Fields
<1>9. CASE gw.step = "download"
  <2>1. gw' \in Simply(result, [gw EXCEPT !.step = "block"], "AUTHORIZED")
    BY <1>9 DEF After
  <2>2. (result = "OK" /\ gw' = [gw EXCEPT !.step = "block"]) \/ (Ends /\ ~ gw'.confirmed)
    BY <1>2, <2>1
  <2>3. ASSUME gw' = [gw EXCEPT !.step = "block"] PROVE StepsOn
    BY <1>1, <1>9, <2>3 DEF StepsOn, Keeps, Fields
  <2> QED
    BY <2>2, <2>3
<1>10. CASE gw.step = "tester"
  <2>1. gw' \in Simply(result, [gw EXCEPT !.step = "block", !.tested = TRUE], "AUTHORIZED")
    BY <1>10 DEF After
  <2>2. \/ result = "OK" /\ gw' = [gw EXCEPT !.step = "block", !.tested = TRUE]
        \/ Ends /\ ~ gw'.confirmed
    BY <1>2, <2>1
  <2>3. ASSUME gw' = [gw EXCEPT !.step = "block", !.tested = TRUE] PROVE StepsOn
    BY <1>1, <1>10, <2>3 DEF StepsOn, Keeps, Fields
  <2> QED
    BY <2>2, <2>3
<1>11. CASE gw.step = "block"
  <2>1. gw' \in Simply(result, AfterBlock, "AUTHORIZED")
    BY <1>11 DEF After
  <2>2. (result = "OK" /\ gw' = AfterBlock) \/ (Ends /\ ~ gw'.confirmed)
    BY <1>2, <2>1
  <2>3. (gw.bsc + 1) % BscModulus \in 0 .. BscModulus - 1
    BY <1>1, Constants
  <2>4. ASSUME gw' = AfterBlock PROVE StepsOn
    BY <1>1, <1>11, <2>3, <2>4 DEF AfterBlock, StepsOn, Keeps, Fields
  <2> QED
    BY <2>2, <2>4
<1>12. CASE gw.step = "exit"
  <2>1. gw' \in Simply(result, [gw EXCEPT !.step = "reset"], "AUTHORIZED")
    BY <1>12 DEF After
  <2>2. (result = "OK" /\ gw' = [gw EXCEPT !.step = "reset"]) \/ (Ends /\ ~ gw'.confirmed)
    BY <1>2, <2>1
  <2>3. ASSUME gw' = [gw EXCEPT !.step = "reset"] PROVE StepsOn
    BY <1>1, <1>12, <2>3 DEF StepsOn, Keeps, Fields
  <2> QED
    BY <2>2, <2>3
<1>13. CASE gw.step = "reset"
  <2>1. gw' \in AfterReset(result)
    BY <1>13 DEF After
  <2>2. \/ gw' \in Ended("TRANSFERRED")
        \/ /\ result \in {"OK", "TIMEOUT"}
           /\ gw' = [gw EXCEPT !.step = "reconnect", !.phase = "after", !.offset = 0, !.bsc = 1]
    BY <2>1 DEF AfterReset
  <2>3. CASE gw' \in Ended("TRANSFERRED")
    BY <2>3, EndedIs
  <2>4. ASSUME gw' = [gw EXCEPT !.step = "reconnect", !.phase = "after", !.offset = 0, !.bsc = 1]
        PROVE  ResetSent
    BY <1>1, <1>13, <2>4 DEF ResetSent, Keeps, Fields
  <2> QED
    BY <2>2, <2>3, <2>4
<1> QED
  BY <1>1, <1>3, <1>4, <1>5, <1>6, <1>7, <1>8, <1>9, <1>10, <1>11, <1>12, <1>13
  DEF Asking, Working, Steps

LEMMA EndKeeps ==
  ASSUME Ends
  PROVE  GatewayTypes' /\ Position' /\ gw'.step = "idle"
<1>1. PICK b \in BOOLEAN : gw' = [IdleGateway EXCEPT !.confirmed = b]
  BY DEF Ends
<1>2. /\ DOMAIN gw' = Fields
      /\ gw'.step = "idle" /\ gw'.confirmed = b /\ gw'.phase = "before" /\ gw'.round = 1
      /\ gw'.did = 1 /\ gw'.seen = Nothing /\ gw'.slow = FALSE /\ gw'.token = 0
      /\ gw'.offset = 0 /\ gw'.bsc = 1
  BY <1>1 DEF IdleGateway, Fields
<1>3. DOMAIN Nothing = {"slot", "version", "confirmed"} /\ 1 \in 0 .. BscModulus - 1
  BY Constants DEF Nothing
<1>a. gw'.confirmed \in BOOLEAN /\ gw'.slow \in BOOLEAN
  BY <1>2, Zenon
<1>4. /\ gw'.step \in Steps /\ gw'.phase \in {"before", "after"}
      /\ gw'.round \in {1, 2} /\ gw'.did \in 1 .. 4
      /\ gw'.token \in Nat /\ gw'.offset \in Nat /\ gw'.bsc \in 0 .. BscModulus - 1
      /\ ~ Working'
  BY <1>2, <1>3 DEF Steps, Working
<1>5. GatewayTypes'
  BY <1>2, <1>3, <1>4, <1>a DEF GatewayTypes
<1>6. Position'
  BY <1>2 DEF Position
<1> QED
  BY <1>2, <1>5, <1>6

\* A move that keeps the rest of the record keeps its types.
LEMMA KeptTypes ==
  ASSUME GatewayTypes, Asking,
         Keeps({"step", "phase", "round", "did", "seen", "slow", "first", "target", "token",
                "tested", "offset", "bsc"}),
         gw'.step \in Steps, gw'.phase \in {"before", "after"}, gw'.round \in {1, 2},
         gw'.did \in 1 .. 4, gw'.slow \in BOOLEAN,
         DOMAIN gw'.seen = {"slot", "version", "confirmed"},
         gw'.token \in Nat, gw'.offset \in Nat, gw'.bsc \in 0 .. BscModulus - 1
  PROVE  GatewayTypes' /\ gw'.package = gw.package
<1>1. gw'.package = gw.package /\ gw'.confirmed = gw.confirmed /\ DOMAIN gw' = Fields
  BY DEF Keeps, Fields
<1>2. Working
  BY DEF Asking
<1> QED
  BY <1>1, <1>2 DEF GatewayTypes

LEMMA Fewer ==
  ASSUME NEW some, NEW more, Keeps(some), some \subseteq more
  PROVE  Keeps(more)
BY DEF Keeps

LEMMA Unnoticed == DOMAIN Nothing = {"slot", "version", "confirmed"} /\ Nothing.slot = -1
BY DEF Nothing

LEMMA SeenFields ==
  ASSUME GatewayTypes, NEW answer
  PROVE  DOMAIN SeenNow(answer) = {"slot", "version", "confirmed"}
<1>1. gw.did \in 1 .. 4 /\ DOMAIN gw.seen = {"slot", "version", "confirmed"}
  BY DEF GatewayTypes
<1>2. \/ DIDs[gw.did] = "FACTORY_IDENTITY" \/ DIDs[gw.did] = "ACTIVE_SLOT"
      \/ DIDs[gw.did] = "APP_VERSION" \/ DIDs[gw.did] = "CONFIRM_RESULT"
  BY <1>1, Names
<1> QED
  BY <1>1, <1>2 DEF SeenNow

LEMMA ReadKeeps ==
  ASSUME GatewayTypes, Position, Asking, NEW answer,
         ReadsAgain \/ ReadsNext(answer) \/ ReadsTwice \/ OpensSession
  PROVE  GatewayTypes' /\ Position' /\ gw'.package = gw.package
<1>1. /\ gw.step = "snapshot" /\ gw.did \in 1 .. 4 /\ gw.slow \in BOOLEAN /\ gw.round \in {1, 2}
      /\ gw.phase \in {"before", "after"} /\ gw.token \in Nat /\ gw.bsc \in 0 .. BscModulus - 1
      /\ DOMAIN gw.seen = {"slot", "version", "confirmed"} /\ gw.offset = 0
  BY DEF GatewayTypes, Position, ReadsAgain, ReadsNext, ReadsTwice, OpensSession
<1>2. CASE ReadsAgain
  <2>1. /\ gw'.phase = gw.phase /\ gw'.token = gw.token /\ gw'.bsc = gw.bsc /\ gw'.offset = 0
        /\ gw'.round = 1 /\ gw'.did = 1 /\ gw'.seen = Nothing /\ gw'.slow = FALSE
        /\ gw'.step \in {"snapshot", "attempt"}
    BY <1>1, <1>2 DEF ReadsAgain, Keeps, Fields
  <2>2. Keeps({"step", "phase", "round", "did", "seen", "slow", "first", "target", "token",
               "tested", "offset", "bsc"})
    BY <1>2, Fewer DEF ReadsAgain
  <2>b. gw'.slow \in BOOLEAN
    BY <1>1, <2>1, Zenon
  <2>a. /\ gw'.step \in Steps /\ gw'.round \in {1, 2} /\ gw'.did \in 1 .. 4
        /\ gw'.offset \in Nat /\ DOMAIN gw'.seen = {"slot", "version", "confirmed"}
        /\ gw'.phase \in {"before", "after"} /\ gw'.token \in Nat /\ gw'.bsc \in 0 .. BscModulus - 1
    BY <1>1, <2>1, Unnoticed DEF Steps
  <2>3. GatewayTypes' /\ gw'.package = gw.package
    BY <2>a, <2>b, <2>2, KeptTypes
  <2> QED
    BY <2>1, <2>3 DEF Position
<1>3. CASE ReadsNext(answer)
  <2>1. /\ gw'.phase = gw.phase /\ gw'.token = gw.token /\ gw'.bsc = gw.bsc /\ gw'.offset = 0
        /\ gw'.round = gw.round /\ gw'.did = gw.did + 1 /\ gw'.seen = SeenNow(answer)
        /\ gw'.slow = gw.slow /\ gw'.step = "snapshot" /\ gw.did < 4
    BY <1>1, <1>3 DEF ReadsNext, Keeps, Fields
  <2>2. Keeps({"step", "phase", "round", "did", "seen", "slow", "first", "target", "token",
               "tested", "offset", "bsc"})
    BY <1>3, Fewer DEF ReadsNext
  <2>3. GatewayTypes' /\ gw'.package = gw.package
    BY <1>1, <2>1, <2>2, KeptTypes, SeenFields DEF Steps
  <2> QED
    BY <2>1, <2>3 DEF Position
<1>4. CASE ReadsTwice
  <2>1. /\ gw'.phase = gw.phase /\ gw'.token = gw.token /\ gw'.bsc = gw.bsc /\ gw'.offset = 0
        /\ gw'.round = 2 /\ gw'.did = 1 /\ gw'.seen = Nothing /\ gw'.slow = gw.slow
        /\ gw'.step = "snapshot"
    BY <1>1, <1>4 DEF ReadsTwice, Keeps, Fields
  <2>2. Keeps({"step", "phase", "round", "did", "seen", "slow", "first", "target", "token",
               "tested", "offset", "bsc"})
    BY <1>4, Fewer DEF ReadsTwice
  <2>b. gw'.slow \in BOOLEAN
    BY <1>1, <2>1, Zenon
  <2>a. /\ gw'.step \in Steps /\ gw'.round \in {1, 2} /\ gw'.did \in 1 .. 4
        /\ gw'.offset \in Nat /\ DOMAIN gw'.seen = {"slot", "version", "confirmed"}
        /\ gw'.phase \in {"before", "after"} /\ gw'.token \in Nat /\ gw'.bsc \in 0 .. BscModulus - 1
    BY <1>1, <2>1, Unnoticed DEF Steps
  <2>3. GatewayTypes' /\ gw'.package = gw.package
    BY <2>a, <2>b, <2>2, KeptTypes
  <2> QED
    BY <2>1, <2>3 DEF Position
<1>5. CASE OpensSession
  <2>1. /\ gw'.phase = gw.phase /\ gw'.token = gw.token /\ gw'.bsc = gw.bsc /\ gw'.offset = 0
        /\ gw'.round = 1 /\ gw'.did = 1 /\ gw'.seen = Nothing /\ gw'.slow = FALSE
        /\ gw'.step = "session"
    BY <1>1, <1>5 DEF OpensSession, Keeps, Fields
  <2>2. Keeps({"step", "phase", "round", "did", "seen", "slow", "first", "target", "token",
               "tested", "offset", "bsc"})
    BY <1>5, Fewer DEF OpensSession
  <2>b. gw'.slow \in BOOLEAN
    BY <1>1, <2>1, Zenon
  <2>a. /\ gw'.step \in Steps /\ gw'.round \in {1, 2} /\ gw'.did \in 1 .. 4
        /\ gw'.offset \in Nat /\ DOMAIN gw'.seen = {"slot", "version", "confirmed"}
        /\ gw'.phase \in {"before", "after"} /\ gw'.token \in Nat /\ gw'.bsc \in 0 .. BscModulus - 1
    BY <1>1, <2>1, Unnoticed DEF Steps
  <2>3. GatewayTypes' /\ gw'.package = gw.package
    BY <2>a, <2>b, <2>2, KeptTypes
  <2> QED
    BY <2>1, <2>3 DEF Position
<1> QED
  BY <1>2, <1>3, <1>4, <1>5

LEMMA StepKeeps ==
  ASSUME GatewayTypes, Position, Asking, StepsOn \/ ResetSent,
         gw.step = "download" => gw.package.size <= SlotSize,
         gw.step = "block" => Chunk % ProgramUnit = 0
  PROVE  GatewayTypes' /\ Position' /\ gw'.package = gw.package
<1>1. /\ gw.did \in 1 .. 4 /\ gw.slow \in BOOLEAN /\ gw.round \in {1, 2}
      /\ gw.phase \in {"before", "after"} /\ gw.token \in Nat /\ gw.bsc \in 0 .. BscModulus - 1
      /\ DOMAIN gw.seen = {"slot", "version", "confirmed"} /\ gw.offset \in Nat
      /\ gw.package.size \in Nat \ {0}
  BY Packed DEF GatewayTypes, Asking
<1>2. gw.step # "snapshot" /\ gw.round = 1 /\ gw.did = 1 /\ ~ gw.slow
  BY DEF Position, StepsOn, ResetSent
<1>3. CASE ResetSent
  <2>1. /\ gw'.phase = "after" /\ gw'.token = gw.token /\ gw'.bsc = 1 /\ gw'.offset = 0
        /\ gw'.round = 1 /\ gw'.did = 1 /\ gw'.seen = gw.seen /\ gw'.slow = gw.slow
        /\ gw'.step = "reconnect"
    BY <1>2, <1>3 DEF ResetSent, Keeps, Fields
  <2>2. Keeps({"step", "phase", "round", "did", "seen", "slow", "first", "target", "token",
               "tested", "offset", "bsc"})
    BY <1>3, Fewer DEF ResetSent
  <2>3. 1 \in 0 .. BscModulus - 1
    BY Constants
  <2>4. GatewayTypes' /\ gw'.package = gw.package
    BY <1>1, <2>1, <2>2, <2>3, KeptTypes DEF Steps
  <2> QED
    BY <1>2, <2>1, <2>4 DEF Position
<1>4. CASE StepsOn
  <2>1. /\ gw'.phase = gw.phase /\ gw'.token \in Nat /\ gw'.bsc \in 0 .. BscModulus - 1
        /\ gw'.round = 1 /\ gw'.did = 1 /\ gw'.seen = gw.seen /\ gw'.slow = gw.slow
        /\ gw'.step \in Steps
    BY <1>2, <1>4 DEF StepsOn, Keeps, Fields, Steps
  <2>2. Keeps({"step", "phase", "round", "did", "seen", "slow", "first", "target", "token",
               "tested", "offset", "bsc"})
    BY <1>4, Fewer DEF StepsOn
  <2>3. gw'.offset \in Nat
    BY <1>1, <1>4, BlockFits DEF StepsOn
  <2>4. GatewayTypes' /\ gw'.package = gw.package
    BY <1>1, <2>1, <2>2, <2>3, KeptTypes
  <2>5. CASE gw.step = "block"
    <3>1. /\ gw.offset <= gw.package.size /\ gw.package.size <= SlotSize
          /\ gw.offset % ProgramUnit = 0 /\ gw.offset < gw.package.size
          /\ Chunk \in Nat \ {0} /\ gw.offset + Chunk <= gw.package.size
      BY <2>5, BlockFits DEF Position
    <3>2. (gw.offset + Chunk) % ProgramUnit = 0
      BY <1>1, <2>5, <3>1, SumOfUnits
    <3>3. /\ gw'.offset = gw.offset + Chunk
          /\ gw'.step = IF gw.offset + Chunk < gw.package.size THEN "block" ELSE "exit"
      BY <1>4, <2>5 DEF StepsOn
    <3> QED
      BY <1>1, <1>2, <2>1, <2>4, <3>1, <3>2, <3>3 DEF Position
  <2>6. CASE gw.step # "block"
    <3>1. gw'.offset = gw.offset
      BY <1>4, <2>6 DEF StepsOn
    <3>2. CASE gw.step = "download"
      <4>1. gw.offset = 0 /\ gw'.step = "block" /\ 0 % ProgramUnit = 0
        BY <1>4, <3>2, Constants DEF StepsOn, Position
      <4> QED
        BY <1>1, <1>2, <2>1, <2>4, <3>1, <3>2, <4>1 DEF Position
    <3>3. CASE gw.step # "download"
      BY <1>1, <1>2, <1>4, <2>1, <2>4, <2>6, <3>1, <3>3 DEF Position, StepsOn
    <3> QED
      BY <3>2, <3>3
  <2> QED
    BY <2>5, <2>6
<1> QED
  BY <1>3, <1>4

----------------------------------------------------------------------------
(* The channel: what may be under way, and from which request *)

\* In the order they were asked for: at most one message that is late, then one that is not.
QueueInOrder ==
  /\ \A i \in DOMAIN answers : ~ Empty(answers[i])
  /\ \A i, j \in DOMAIN answers : i < j => answers[i].late /\ ~ answers[j].late
  /\ ~ Empty(serving) \/ ~ Empty(inbox) => \A i \in DOMAIN answers : answers[i].late
  /\ ~ Empty(serving) /\ answers # <<>> => ~ serving.late
  /\ ~ Empty(inbox) /\ answers # <<>> => ~ inbox.late
  /\ ~ Empty(serving) /\ ~ Empty(inbox) => serving.late /\ ~ inbox.late

\* The client waits with the request of its step, and a job that is over left nothing open.
Asked ==
  /\ ~ Empty(call) => Asking /\ call = StepRequest
  /\ ~ Working => Empty(call) /\ answers = <<>> /\ connected = FALSE

\* What is not late belongs to the request the client waits with.
OwnAnswers ==
  ~ Empty(call) =>
    /\ \A i \in DOMAIN answers : ~ answers[i].late => answers[i].service = call.service
    /\ ~ Empty(serving) /\ ~ serving.late => serving.service = call.service
    /\ ~ Empty(inbox) /\ ~ inbox.late => inbox = call

\* Where the job may be while something is under way that it no longer waits for: between two
\* snapshots, early in the first one, or after the reset.
MayLinger(service) ==
  \/ gw.step \in {"idle", "attempt"}
  \/ /\ gw.step = "snapshot" /\ gw.round = 1
     /\ gw.did = 1 \/ (gw.did = 2 /\ service = <<"0x22", "FACTORY_IDENTITY">>)
  \/ gw.step = "reconnect" /\ service = <<"0x11", "HR">>

Lingering ==
  /\ \A i \in DOMAIN answers : Empty(call) \/ answers[i].late => MayLinger(answers[i].service)
  /\ ~ Empty(serving) /\ (Empty(call) \/ serving.late) => MayLinger(serving.service)
  /\ ~ Empty(inbox) /\ (Empty(call) \/ inbox.late) => MayLinger(inbox.service)

ServingIsReply == server.requestInProgress = TRUE <=> ~ Empty(serving)

Requested == ~ Empty(inbox) => Requests(inbox)

\* A positive answer is on its way.
Accepted ==
  \/ ~ Empty(serving) /\ serving.code = "OK"
  \/ \E i \in DOMAIN answers : answers[i].code = "OK"

\* What the node grants with it: room for the image, and a block of whole units.
Granted ==
  /\ gw.step = "download" /\ Accepted => gw.package.size <= SlotSize
  /\ gw.step = "block" /\ Accepted => Chunk % ProgramUnit = 0

Job == GatewayTypes /\ Position

Core ==
  /\ NodeInv /\ Job /\ ChannelTypes
  /\ QueueInOrder /\ Asked /\ OwnAnswers /\ Lingering
  /\ ServingIsReply /\ Requested /\ Granted

----------------------------------------------------------------------------
(* What follows from it *)

\* Behind an answer that is not late there is nothing.
LEMMA NothingBehind ==
  ASSUME ChannelTypes, QueueInOrder, answers # <<>>, ~ Head(answers).late
  PROVE  Tail(answers) = <<>> /\ Empty(serving) /\ Empty(inbox) /\ Len(answers) = 1
<1>1. answers \in Seq(Messages) /\ 1 \in DOMAIN answers /\ Head(answers) = answers[1]
      /\ Len(answers) \in Nat /\ DOMAIN answers = 1 .. Len(answers)
  BY TailOf, Sequences DEF ChannelTypes
<1>2. Empty(serving) /\ Empty(inbox)
  BY <1>1 DEF QueueInOrder
<1>3. Len(answers) = 1
  <2>1. SUFFICES ASSUME Len(answers) > 1 PROVE FALSE
    BY <1>1
  <2>2. 2 \in DOMAIN answers /\ 1 < 2
    BY <1>1, <2>1
  <2> QED
    BY <1>1, <2>2 DEF QueueInOrder
<1>4. Tail(answers) = <<>>
  <2>1. Tail(answers) \in Seq(Messages) /\ Len(Tail(answers)) = 0
    BY <1>1, <1>3, TailOf
  <2> QED
    BY <2>1, Sequences
<1> QED
  BY <1>2, <1>3, <1>4

\* A step that is strict finds nothing late, and nothing at all before it asks.
LEMMA StrictSteps ==
  ASSUME Lingering, gw.step \in Strict
  PROVE  /\ \A i \in DOMAIN answers : ~ Empty(call) /\ ~ answers[i].late
         /\ ~ Empty(serving) => ~ Empty(call) /\ ~ serving.late
         /\ ~ Empty(inbox) => ~ Empty(call) /\ ~ inbox.late
BY DEF Lingering, MayLinger, Strict

\* So one thing at a time is under way of its request: the request, the answer or nothing.
LEMMA StrictPipe ==
  ASSUME ChannelTypes, QueueInOrder, OwnAnswers, Lingering, gw.step \in Strict
  PROVE  /\ Empty(call) => Empty(inbox) /\ Empty(serving) /\ answers = <<>>
         /\ ~ Empty(inbox) => inbox = call /\ ~ inbox.late /\ Empty(serving) /\ answers = <<>>
         /\ ~ Empty(serving) => /\ serving.service = call.service /\ ~ serving.late
                                /\ Empty(inbox) /\ answers = <<>>
         /\ answers # <<>> => /\ Empty(inbox) /\ Empty(serving) /\ Len(answers) = 1
                              /\ answers[1].service = call.service /\ ~ answers[1].late
<1>1. answers # <<>> => 1 \in DOMAIN answers /\ Head(answers) = answers[1]
  BY TailOf DEF ChannelTypes
<1>2. answers # <<>> => ~ Empty(call) /\ ~ Head(answers).late
  BY <1>1, StrictSteps
<1>3. answers # <<>> => Empty(serving) /\ Empty(inbox) /\ Len(answers) = 1
  BY <1>2, NothingBehind
<1> QED
  BY <1>1, <1>2, <1>3, StrictSteps DEF QueueInOrder, OwnAnswers

\* A request depends on where the job is, and on nothing else.
LEMMA SameRequest ==
  ASSUME GatewayTypes, gw' = gw \/ gw' = [gw EXCEPT !.slow = TRUE]
  PROVE  StepRequest' = StepRequest /\ Asking' = Asking /\ Working' = Working
           /\ Chunk' = Chunk /\ (\A s : MayLinger(s)' = MayLinger(s))
<1>1. /\ gw'.step = gw.step /\ gw'.did = gw.did /\ gw'.token = gw.token /\ gw'.bsc = gw.bsc
      /\ gw'.package = gw.package /\ gw'.offset = gw.offset /\ gw'.round = gw.round
  BY DEF GatewayTypes, Fields
<1>2. Chunk' = Chunk
  BY <1>1 DEF Chunk
<1>3. ChunkData' = ChunkData
  BY <1>1, <1>2 DEF ChunkData
<1>4. StepRequest' = StepRequest
  BY <1>1, <1>2, <1>3 DEF StepRequest
<1> QED
  BY <1>1, <1>2, <1>4 DEF Asking, Working, MayLinger

\* The gateway does not touch the node.
LEMMA NodeKept ==
  ASSUME NodeInv, UNCHANGED nodeVars
  PROVE  NodeInv' /\ server' = server
<1>1. UNCHANGED U!vars
  BY DEF nodeVars, U!vars, U!downloadVars, U!secVars
<1>2. U!ServerInv'
  BY <1>1, U!StepInv, Constants DEF NodeInv, U!Preserved
<1> QED
  BY <1>2, ConfirmKept DEF nodeVars

----------------------------------------------------------------------------
(* The client asks *)

LEMMA DrainedQueue ==
  ASSUME ChannelTypes, QueueInOrder
  PROVE  /\ Drained \in Seq(Messages) /\ BelatedAll(Drained) \in Seq(Messages)
         /\ Len(BelatedAll(Drained)) = Len(Drained) /\ Len(Drained) \in {0, 1}
         /\ DOMAIN BelatedAll(Drained) = DOMAIN Drained
         /\ \A i \in DOMAIN Drained : /\ i + 1 \in DOMAIN answers
                                      /\ BelatedAll(Drained)[i] = Belated(answers[i + 1])
                                      /\ BelatedAll(Drained)[i].late
                                      /\ ~ Empty(BelatedAll(Drained)[i])
                                      /\ BelatedAll(Drained)[i].service = answers[i + 1].service
         /\ ~ Empty(serving) \/ ~ Empty(inbox) => BelatedAll(Drained) = <<>>
<1>1. answers \in Seq(Messages) /\ Drained \in Seq(Messages)
  BY DrainedAnswers DEF ChannelTypes
<1>2. Len(answers) \in {0, 1, 2}
  <2>1. Len(answers) \in Nat /\ DOMAIN answers = 1 .. Len(answers)
    BY <1>1, Sequences
  <2>2. SUFFICES ASSUME Len(answers) > 2 PROVE FALSE
    BY <2>1
  <2>3. 1 \in DOMAIN answers /\ 2 \in DOMAIN answers /\ 3 \in DOMAIN answers /\ 1 < 2 /\ 2 < 3
    BY <2>1, <2>2
  <2>4. ~ answers[2].late /\ answers[2].late
    BY <2>3 DEF QueueInOrder
  <2> QED
    BY <2>4
<1>3. Len(Drained) \in {0, 1} /\ \A i \in DOMAIN Drained : /\ i + 1 \in DOMAIN answers
                                                           /\ Drained[i] = answers[i + 1]
  <2>1. CASE answers = <<>>
    <3>1. Drained = <<>> /\ Len(Drained) = 0 /\ DOMAIN Drained = {}
      BY <2>1, <1>1, DrainedAnswers
    <3> QED
      BY <3>1
  <2>2. CASE answers # <<>>
    <3>1. Len(answers) # 0
      BY <1>1, <2>2, Sequences
    <3>2. /\ Len(Drained) = Len(answers) - 1
          /\ \A i \in DOMAIN Drained : i + 1 \in DOMAIN answers /\ Drained[i] = answers[i + 1]
      BY <1>1, <2>2, DrainedAnswers
    <3>3. Len(Drained) \in {0, 1}
      BY <1>2, <3>1, <3>2
    <3> QED
      BY <3>2, <3>3
  <2> QED
    BY <2>1, <2>2
<1>4. /\ BelatedAll(Drained) \in Seq(Messages) /\ Len(BelatedAll(Drained)) = Len(Drained)
      /\ \A i \in DOMAIN Drained : BelatedAll(Drained)[i] = Belated(Drained[i])
  BY <1>1, Sequences
<1>a. BelatedAll(Drained) = <<>> <=> Len(Drained) = 0
  BY <1>4, Sequences
<1>5. DOMAIN BelatedAll(Drained) = DOMAIN Drained
  BY <1>1, <1>4, Sequences
<1>6. ASSUME NEW i \in DOMAIN Drained
      PROVE  /\ i + 1 \in DOMAIN answers
             /\ BelatedAll(Drained)[i] = Belated(answers[i + 1])
             /\ BelatedAll(Drained)[i].late
             /\ ~ Empty(BelatedAll(Drained)[i])
             /\ BelatedAll(Drained)[i].service = answers[i + 1].service
  <2>1. i + 1 \in DOMAIN answers /\ Drained[i] = answers[i + 1]
    BY <1>3
  <2>2. answers[i + 1] \in Messages /\ ~ Empty(answers[i + 1])
    BY <1>1, <2>1, Sequences DEF QueueInOrder
  <2>3. BelatedAll(Drained)[i] = Belated(answers[i + 1])
    BY <1>4, <2>1
  <2> QED
    BY <2>1, <2>2, <2>3, BelatedMessage
<1>7. ASSUME ~ Empty(serving) \/ ~ Empty(inbox)
      PROVE  BelatedAll(Drained) = <<>>
  <2>1. SUFFICES ASSUME Len(answers) = 2 PROVE FALSE
    BY <1>1, <1>2, <1>a, DrainedAnswers, Sequences
  <2>2. 1 \in DOMAIN answers /\ 2 \in DOMAIN answers /\ 1 < 2
    BY <1>1, <2>1, Sequences
  <2> QED
    BY <1>7, <2>2 DEF QueueInOrder
<1> QED
  BY <1>1, <1>3, <1>4, <1>5, <1>6, <1>7

LEMMA AsksKeeps ==
  ASSUME Core, Asks, UNCHANGED nodeVars
  PROVE  Core'
<1> DEFINE queue == BelatedAll(Drained)
           waiting == IF inbox.late THEN None ELSE Belated(inbox)
<1>1. /\ connected /\ Empty(call) /\ ~ serving.late /\ call' = StepRequest
      /\ inbox' = waiting \/ (Empty(waiting) /\ inbox' = StepRequest)
      /\ serving' = Belated(serving) /\ answers' = queue /\ connected' = connected
      /\ gw' = gw /\ Asking
  BY DEF Asks, UDSSendRequest
<1>2. /\ GatewayTypes /\ Position /\ ChannelTypes /\ QueueInOrder /\ NodeInv
      /\ inbox \in Messages /\ serving \in Messages
  BY DEF Core, Job, ChannelTypes
<1>3. /\ StepRequest \in Messages /\ ~ Empty(StepRequest) /\ ~ StepRequest.late
      /\ StepRequest.service = StepService /\ Requests(StepRequest)
  BY <1>1, <1>2, AskedIs
<1>4. /\ StepRequest' = StepRequest /\ Asking' = Asking /\ Working' = Working /\ Chunk' = Chunk
      /\ \A s : MayLinger(s)' = MayLinger(s)
  BY <1>1, <1>2, SameRequest
<1>5. /\ queue \in Seq(Messages)
      /\ \A i \in DOMAIN queue : /\ queue[i].late /\ ~ Empty(queue[i])
                                 /\ i + 1 \in DOMAIN answers
                                 /\ queue[i].service = answers[i + 1].service
      /\ Len(queue) \in {0, 1}
      /\ ~ Empty(serving) \/ ~ Empty(inbox) => queue = <<>>
  BY <1>2, DrainedQueue
<1>6. /\ serving' \in Messages /\ serving'.service = serving.service
      /\ serving'.code = serving.code
      /\ Empty(serving') <=> Empty(serving)
      /\ ~ Empty(serving') => serving'.late
  BY <1>1, <1>2, BelatedMessage
<1>7. /\ waiting \in Messages /\ (~ Empty(waiting) => waiting.late /\ ~ inbox.late)
      /\ ~ Empty(waiting) => /\ ~ Empty(inbox) /\ waiting.service = inbox.service
                             /\ waiting.size = inbox.size /\ waiting.data = inbox.data
  BY <1>2, BelatedMessage, EmptyMessage
<1> HIDE DEF queue, waiting
<1>8. inbox' \in Messages
  BY <1>1, <1>3, <1>7
<1>9. DOMAIN queue = 1 .. Len(queue)
  BY <1>5, Sequences
<1>10. NodeInv' /\ server' = server
  BY <1>2, NodeKept
<1>11. GatewayTypes' /\ Position'
  BY <1>1, <1>2 DEF GatewayTypes, Position, Working
<1>12. ChannelTypes'
  BY <1>1, <1>2, <1>3, <1>5, <1>6, <1>8 DEF ChannelTypes
<1>13. QueueInOrder'
  <2>1. \A i, j \in DOMAIN queue : ~ (i < j)
    BY <1>5, <1>9
  <2>2. ~ Empty(serving') => queue = <<>>
    BY <1>5, <1>6
  <2>3. ~ Empty(inbox') /\ queue # <<>> => ~ inbox'.late
    BY <1>1, <1>3, <1>5, <1>7
  <2>4. ~ Empty(serving') /\ ~ Empty(inbox') => serving'.late /\ ~ inbox'.late
    <3>1. SUFFICES ASSUME ~ Empty(serving), ~ Empty(inbox'), inbox' = waiting PROVE FALSE
      BY <1>1, <1>3, <1>6
    <3>2. ~ Empty(inbox)
      BY <1>7, <3>1
    <3> QED
      BY <1>1, <1>2, <3>1, <3>2 DEF QueueInOrder
  <2> QED
    BY <1>1, <1>5, <2>1, <2>2, <2>3, <2>4 DEF QueueInOrder, Empty
<1>14. Asked'
  BY <1>1, <1>4 DEF Asked, Asking
<1>15. OwnAnswers'
  BY <1>1, <1>5, <1>6, <1>7 DEF OwnAnswers, Empty
<1>16. Lingering'
  <2>1. Lingering
    BY DEF Core
  <2>2. \A i \in DOMAIN queue : MayLinger(queue[i].service)
    BY <1>1, <1>5, <2>1 DEF Lingering
  <2>3. ~ Empty(serving') => MayLinger(serving'.service)
    BY <1>1, <1>6, <2>1 DEF Lingering
  <2>4. ~ Empty(inbox') /\ (Empty(call') \/ inbox'.late) => MayLinger(inbox'.service)
    BY <1>1, <1>3, <1>7, <2>1 DEF Lingering, Empty
  <2> QED
    BY <1>1, <1>4, <2>2, <2>3, <2>4, Zenon DEF Lingering, Empty
<1>17. ServingIsReply'
  BY <1>6, <1>10 DEF Core, ServingIsReply, Empty
<1>18. Requested'
  BY <1>1, <1>3, <1>7 DEF Core, Requested, Requests, Empty
<1>19. Granted'
  <2>1. ASSUME gw.step \in Strict
        PROVE  Empty(serving') /\ queue = <<>>
    <3>1. Empty(serving) /\ answers = <<>>
      BY <1>1, <2>1, StrictPipe DEF Core
    <3>2. queue = <<>>
      BY <3>1, <1>2, DrainedAnswers, Sequences DEF queue, ChannelTypes
    <3> QED
      BY <1>6, <3>1, <3>2
  <2>2. gw.step \in Strict => ~ Accepted'
    BY <1>1, <2>1 DEF Accepted, Empty
  <2> QED
    BY <1>1, <2>2 DEF Granted, Strict
<1> QED
  BY <1>10, <1>11, <1>12, <1>13, <1>14, <1>15, <1>16, <1>17, <1>18, <1>19 DEF Core, Job

----------------------------------------------------------------------------
(* The job goes on *)

\* What the client turns away from stays under way, if the job may meet it where it is now.
LEMMA TurnsAway ==
  ASSUME Core, UNCHANGED nodeVars, GatewayTypes', Position',
         call' = None, inbox' = inbox, serving' = serving, connected' \in BOOLEAN,
         answers' = answers \/ answers' = <<>> \/ (answers # <<>> /\ answers' = Tail(answers)),
         gw'.step = "idle" => answers' = <<>> /\ connected' = FALSE,
         (\A i \in DOMAIN answers : MayLinger(answers[i].service))',
         ~ Empty(serving) => MayLinger(serving.service)',
         ~ Empty(inbox) => MayLinger(inbox.service)'
  PROVE  Core'
<1>1. /\ ChannelTypes /\ QueueInOrder /\ NodeInv /\ answers \in Seq(Messages)
  BY DEF Core, ChannelTypes
<1>2. NodeInv' /\ server' = server
  BY <1>1, NodeKept
<1>3. /\ answers' \in Seq(Messages)
      /\ \/ answers' = answers
         \/ answers' = <<>>
         \/ \A i \in DOMAIN answers' : i + 1 \in DOMAIN answers /\ answers'[i] = answers[i + 1]
      /\ answers' # <<>> => answers # <<>>
  <2>1. CASE answers' = answers
    BY <1>1, <2>1
  <2>2. CASE answers' = <<>>
    BY <2>2
  <2>3. CASE answers # <<>> /\ answers' = Tail(answers)
    BY <1>1, <2>3, TailOf
  <2> QED
    BY <2>1, <2>2, <2>3
<1>4. Empty(call') /\ call' \in Messages
  BY EmptyMessage
<1>5. ChannelTypes'
  BY <1>1, <1>3, <1>4 DEF ChannelTypes
<1>6. QueueInOrder'
  <2>1. DOMAIN answers' \subseteq Int /\ DOMAIN answers \subseteq Int
    BY <1>1, <1>3, Sequences
  <2>2. /\ \A i \in DOMAIN answers' : ~ Empty(answers'[i])
        /\ \A i, j \in DOMAIN answers' : i < j => answers'[i].late /\ ~ answers'[j].late
        /\ ~ Empty(serving) \/ ~ Empty(inbox) => \A i \in DOMAIN answers' : answers'[i].late
    <3>1. CASE answers' = answers
      BY <1>1, <3>1 DEF QueueInOrder
    <3>2. CASE answers' = <<>>
      BY <3>2
    <3>3. CASE \A i \in DOMAIN answers' : i + 1 \in DOMAIN answers /\ answers'[i] = answers[i + 1]
      <4>1. \A i, j \in DOMAIN answers' : i < j => i + 1 < j + 1
        BY <2>1
      <4> QED
        BY <1>1, <3>3, <4>1 DEF QueueInOrder
    <3> QED
      BY <1>3, <3>1, <3>2, <3>3
  <2>3. /\ ~ Empty(serving) /\ answers' # <<>> => ~ serving.late
        /\ ~ Empty(inbox) /\ answers' # <<>> => ~ inbox.late
        /\ ~ Empty(serving) /\ ~ Empty(inbox) => serving.late /\ ~ inbox.late
    BY <1>1, <1>3 DEF QueueInOrder
  <2> QED
    BY <2>2, <2>3 DEF QueueInOrder, Empty
<1>7. Asked'
  BY <1>4 DEF Asked, Working, Empty
<1>8. OwnAnswers'
  BY <1>4 DEF OwnAnswers, Empty
<1>9. Lingering'
  BY Zenon DEF Lingering, Empty
<1>10. ServingIsReply'
  BY <1>2 DEF Core, ServingIsReply, Empty
<1>11. Requested'
  BY DEF Core, Requested, Requests, Empty
<1>12. Granted'
  <2>1. ASSUME gw'.step \in Strict
        PROVE  Empty(serving') /\ DOMAIN answers' = {}
    BY <2>1 DEF MayLinger, Strict
  <2>2. gw'.step \in Strict => ~ Accepted'
    BY <2>1, Zenon DEF Accepted, Empty
  <2> QED
    BY <2>2 DEF Granted, Strict
<1> QED
  BY <1>2, <1>5, <1>6, <1>7, <1>8, <1>9, <1>10, <1>11, <1>12 DEF Core, Job

\* A job that is over, or starts its snapshot anew, may meet anything.
LEMMA AnythingLingers ==
  ASSUME gw'.step \in {"idle", "attempt"} \/ (gw'.step = "snapshot" /\ gw'.round = 1 /\ gw'.did = 1)
  PROVE  \A s : MayLinger(s)'
BY DEF MayLinger

LEMMA EndsOrReadsAgain ==
  ASSUME Core, Asking, Ends \/ ReadsAgain
  PROVE  GatewayTypes' /\ Position' /\ \A s : MayLinger(s)'
<1>1. GatewayTypes /\ Position
  BY DEF Core, Job
<1>2. CASE Ends
  BY <1>2, EndKeeps, AnythingLingers
<1>3. CASE ReadsAgain
  <2>1. GatewayTypes' /\ Position'
    BY <1>1, <1>3, ReadKeeps
  <2> QED
    BY <1>3, <2>1, AnythingLingers DEF ReadsAgain
<1> QED
  BY <1>2, <1>3

\* The ways on that need no answer.
LEMMA UnansweredMoves ==
  ASSUME Core, Asking, NEW result \in {"TPORT", "TIMEOUT"}, gw' \in After(result, None)
  PROVE  \/ Ends /\ ~ gw'.confirmed
         \/ ReadsAgain
         \/ result = "TIMEOUT" /\ ResetSent
<1>1. None.number \in Nat /\ GatewayTypes /\ Position
  BY DEF None, Core, Job
<1> QED
  BY <1>1, MovesOn

LEMMA Closes ==
  ASSUME GatewayTypes', NEW left, connected \in BOOLEAN,
         IF gw'.step = "idle" THEN isotp_channel_close ELSE answers' = left /\ UNCHANGED connected
  PROVE  /\ answers' = left \/ answers' = <<>>
         /\ connected' \in BOOLEAN
         /\ gw'.step = "idle" => answers' = <<>> /\ connected' = FALSE
BY DEF isotp_channel_close

LEMMA SendFailsKeeps ==
  ASSUME Core, SendFails, UNCHANGED nodeVars
  PROVE  Core' /\ ((Ends /\ ~ gw'.confirmed) \/ ReadsAgain)
<1>1. /\ Asking /\ Empty(call) /\ gw' \in After("TPORT", None) /\ call' = None
      /\ IF gw'.step = "idle" THEN isotp_channel_close
         ELSE answers' = Drained /\ UNCHANGED connected
      /\ inbox' = inbox /\ serving' = serving
  BY DEF SendFails, GoesOn
<1>2. (Ends /\ ~ gw'.confirmed) \/ ReadsAgain
  BY <1>1, UnansweredMoves
<1>3. GatewayTypes' /\ Position' /\ \A s : MayLinger(s)'
  BY <1>1, <1>2, EndsOrReadsAgain
<1>4. connected \in BOOLEAN
  BY DEF Core, ChannelTypes
<1>5. /\ answers' = Drained \/ answers' = <<>>
      /\ connected' \in BOOLEAN
      /\ gw'.step = "idle" => answers' = <<>> /\ connected' = FALSE
  BY <1>1, <1>3, <1>4, Closes
<1>6. answers' = answers \/ answers' = <<>> \/ (answers # <<>> /\ answers' = Tail(answers))
  BY <1>5 DEF Drained
<1>7. Core'
  BY <1>1, <1>3, <1>5, <1>6, TurnsAway
<1> QED
  BY <1>2, <1>7

LEMMA TimesOutKeeps ==
  ASSUME Core, TimesOut, UNCHANGED nodeVars
  PROVE  Core' /\ ((Ends /\ ~ gw'.confirmed) \/ ReadsAgain \/ ResetSent)
<1>1. /\ ~ Empty(call) /\ answers = <<>> /\ gw' \in After("TIMEOUT", None) /\ call' = None
      /\ IF gw'.step = "idle" THEN isotp_channel_close
         ELSE answers' = answers /\ UNCHANGED connected
      /\ inbox' = inbox /\ serving' = serving
  BY DEF TimesOut, GoesOn, Waits
<1>2. Asking /\ call = StepRequest
  BY <1>1 DEF Core, Asked
<1>3. (Ends /\ ~ gw'.confirmed) \/ ReadsAgain \/ ResetSent
  BY <1>1, <1>2, UnansweredMoves
<1>4. /\ GatewayTypes' /\ Position'
      /\ ~ Empty(serving) => MayLinger(serving.service)'
      /\ ~ Empty(inbox) => MayLinger(inbox.service)'
  <2>1. CASE Ends \/ ReadsAgain
    BY <1>2, <2>1, EndsOrReadsAgain
  <2>2. CASE ResetSent
    <3>1. gw.step = "reset" /\ gw'.step = "reconnect"
      BY <2>2 DEF ResetSent
    <3>2. GatewayTypes' /\ Position'
      BY <1>2, <2>2, <3>1, StepKeeps DEF Core, Job
    <3>3. call.service = <<"0x11", "HR">>
      BY <1>2, <3>1, AskedIs DEF Core, Job, StepService
    <3>4. /\ ~ Empty(inbox) => inbox.service = <<"0x11", "HR">>
          /\ ~ Empty(serving) => serving.service = <<"0x11", "HR">>
      BY <3>1, <3>3, StrictPipe DEF Core, Strict
    <3> QED
      BY <1>1, <3>1, <3>2, <3>4 DEF MayLinger, Empty
  <2> QED
    BY <1>3, <2>1, <2>2
<1>5. connected \in BOOLEAN
  BY DEF Core, ChannelTypes
<1>6. /\ answers' = <<>> /\ connected' \in BOOLEAN
      /\ gw'.step = "idle" => connected' = FALSE
  BY <1>1, <1>4, <1>5, Closes
<1>a. (\A i \in DOMAIN answers : MayLinger(answers[i].service))'
  BY <1>6
<1>7. Core'
  BY <1>1, <1>4, <1>6, <1>a, TurnsAway
<1> QED
  BY <1>3, <1>7

----------------------------------------------------------------------------
(* The client hears an answer *)

LEMMA FirstReads ==
  /\ <<"0x22", DIDs[1]>> = <<"0x22", "FACTORY_IDENTITY">>
  /\ <<"0x22", DIDs[2]>> # <<"0x22", "FACTORY_IDENTITY">>
BY Names

\* What is late passes for the answer to the first read of a snapshot, and for nothing else.
LEMMA HeardIs ==
  ASSUME Core, Hears
  PROVE  /\ Head(answers) \in Messages /\ Asking /\ call = StepRequest
         /\ call.service = StepService /\ answers # <<>>
         /\ ~ Head(answers).late => /\ Head(answers).service = call.service
                                    /\ Tail(answers) = <<>> /\ Empty(serving) /\ Empty(inbox)
         /\ Head(answers).late => gw.step = "snapshot"
         /\ Head(answers).late /\ Result(Head(answers)) = "OK" =>
              /\ gw.round = 1 /\ gw.did = 1
              /\ Head(answers).service = <<"0x22", "FACTORY_IDENTITY">>
              /\ call.service = <<"0x22", "FACTORY_IDENTITY">>
<1> DEFINE h == Head(answers)
<1>1. /\ ~ Empty(call) /\ answers # <<>> /\ answers \in Seq(Messages)
      /\ ChannelTypes /\ QueueInOrder /\ OwnAnswers /\ Lingering
  BY DEF Hears, Core, ChannelTypes
<1>2. Asking /\ call = StepRequest
  BY <1>1 DEF Core, Asked
<1>3. call.service = StepService
  BY <1>2, AskedIs DEF Core, Job
<1>4. h \in Messages /\ 1 \in DOMAIN answers /\ h = answers[1]
  BY <1>1, TailOf
<1> HIDE DEF h
<1>5. ~ h.late => h.service = call.service
  BY <1>1, <1>4 DEF OwnAnswers
<1>6. ~ h.late => Tail(answers) = <<>> /\ Empty(serving) /\ Empty(inbox)
  BY <1>1, NothingBehind DEF h
<1>7. h.late => MayLinger(h.service)
  BY <1>1, <1>4 DEF Lingering
<1>8. h.late => /\ gw.step = "snapshot" /\ gw.round = 1
                /\ gw.did = 1 \/ (gw.did = 2 /\ h.service = <<"0x22", "FACTORY_IDENTITY">>)
  BY <1>2, <1>7 DEF MayLinger, Asking, Working
<1>9. Result(h) = "OK" => h.service = call.service
  BY DEF Result, SameSubfunction, SameSid
<1>10. h.late /\ Result(h) = "OK" =>
         /\ gw.did = 1 /\ h.service = <<"0x22", "FACTORY_IDENTITY">>
  BY <1>3, <1>8, <1>9, FirstReads DEF StepService
<1> QED
  BY <1>1, <1>2, <1>3, <1>4, <1>5, <1>6, <1>8, <1>9, <1>10 DEF h

LEMMA HeardMoves ==
  ASSUME Core, HearsAnswer
  PROVE  LET answer == Head(answers) IN
         \/ Ends /\ (gw'.confirmed => Result(answer) = "OK" /\ Concludes(answer))
         \/ ReadsAgain
         \/ gw.step = "results" /\ gw' = gw
         \/ ResetSent
         \/ Result(answer) = "OK" /\ (ReadsNext(answer) \/ ReadsTwice \/ OpensSession \/ StepsOn)
<1> DEFINE h == Head(answers)
<1>1. Hears /\ gw' \in After(Result(h), h)
  BY DEF HearsAnswer, GoesOn
<1>2. h \in Messages /\ Asking /\ GatewayTypes /\ Position
  BY <1>1, HeardIs DEF Core, Job
<1> HIDE DEF h
<1>3. h.number \in Nat
  BY <1>2 DEF Messages
<1>4. \/ Ends /\ (gw'.confirmed => Result(h) = "OK" /\ Concludes(h))
      \/ ReadsAgain
      \/ gw.step = "results" /\ Result(h) = "RequestSequenceError" /\ gw' = gw
      \/ Result(h) \in {"OK", "TIMEOUT"} /\ ResetSent
      \/ Result(h) = "OK" /\ (ReadsNext(h) \/ ReadsTwice \/ OpensSession \/ StepsOn)
  BY <1>1, <1>2, <1>3, MovesOn
<1> QED
  BY <1>4, Zenon DEF h

LEMMA StrictMoves ==
  ASSUME StepsOn \/ ResetSent
  PROVE  gw.step \in Strict
BY DEF StepsOn, ResetSent, Strict

LEMMA HearsAnswerKeeps ==
  ASSUME Core, HearsAnswer, UNCHANGED nodeVars
  PROVE  Core'
<1> DEFINE h == Head(answers)
<1>1. /\ Hears /\ call' = None
      /\ IF gw'.step = "idle" THEN isotp_channel_close
         ELSE answers' = Tail(answers) /\ UNCHANGED connected
      /\ inbox' = inbox /\ serving' = serving
  BY DEF HearsAnswer, GoesOn
<1>2. /\ h \in Messages /\ Asking /\ call = StepRequest
      /\ call.service = StepService /\ answers # <<>>
      /\ ~ h.late => /\ h.service = call.service
                     /\ Tail(answers) = <<>> /\ Empty(serving) /\ Empty(inbox)
      /\ h.late => gw.step = "snapshot"
      /\ h.late /\ Result(h) = "OK" =>
           /\ gw.round = 1 /\ gw.did = 1
           /\ h.service = <<"0x22", "FACTORY_IDENTITY">>
           /\ call.service = <<"0x22", "FACTORY_IDENTITY">>
  BY <1>1, HeardIs
<1>3. \/ Ends /\ (gw'.confirmed => Result(h) = "OK" /\ Concludes(h))
      \/ ReadsAgain
      \/ gw.step = "results" /\ gw' = gw
      \/ ResetSent
      \/ Result(h) = "OK" /\ (ReadsNext(h) \/ ReadsTwice \/ OpensSession \/ StepsOn)
  BY HeardMoves
<1>4. /\ GatewayTypes /\ Position /\ answers \in Seq(Messages) /\ connected \in BOOLEAN
      /\ ChannelTypes /\ QueueInOrder /\ OwnAnswers /\ Lingering /\ Granted
  BY DEF Core, Job, ChannelTypes
<1>5. Result(h) = "OK" => Accepted
  <2>1. 1 \in DOMAIN answers /\ h = answers[1]
    BY <1>2, <1>4, TailOf
  <2>2. Result(h) = "OK" => h.code = "OK"
    BY DEF Result
  <2> QED
    BY <2>1, <2>2 DEF Accepted
<1> HIDE DEF h
\* What is left may linger.
<1>6. GatewayTypes' /\ Position' /\
      \/ \A s : MayLinger(s)'
      \/ Tail(answers) = <<>> /\ Empty(serving) /\ Empty(inbox)
      \/ /\ gw'.step = "snapshot" /\ gw'.round = 1 /\ gw'.did = 2
         /\ call.service = <<"0x22", "FACTORY_IDENTITY">> /\ h.late
  <2>1. CASE Ends \/ ReadsAgain
    BY <1>2, <2>1, EndsOrReadsAgain
  <2>2. CASE gw.step = "results" /\ gw' = gw
    <3>1. GatewayTypes' /\ Position'
      BY <1>4, <2>2 DEF GatewayTypes, Position, Working
    <3> QED
      BY <1>2, <2>2, <3>1
  <2>3. CASE ResetSent \/ (Result(h) = "OK" /\ StepsOn)
    <3>1. gw.step \in Strict
      BY <2>3, StrictMoves
    <3>2. /\ gw.step = "download" => gw.package.size <= SlotSize
          /\ gw.step = "block" => Chunk % ProgramUnit = 0
      BY <1>4, <1>5, <2>3 DEF Granted, ResetSent
    <3>3. GatewayTypes' /\ Position'
      BY <1>2, <1>4, <2>3, <3>2, StepKeeps
    <3>4. ~ h.late
      BY <1>2, <3>1 DEF Strict
    <3> QED
      BY <1>2, <3>3, <3>4
  <2>4. CASE Result(h) = "OK" /\ (ReadsNext(h) \/ ReadsTwice \/ OpensSession)
    <3>1. GatewayTypes' /\ Position'
      BY <1>2, <1>4, <2>4, ReadKeeps
    <3>2. CASE ~ h.late
      BY <1>2, <3>1, <3>2
    <3>3. CASE h.late
      <4>1. gw.step = "snapshot" /\ gw.round = 1 /\ gw.did = 1
        BY <1>2, <2>4, <3>3
      <4>2. ReadsNext(h)
        BY <2>4, <4>1 DEF ReadsTwice, OpensSession
      <4>3. gw'.step = "snapshot" /\ gw'.round = 1 /\ gw'.did = 2
        BY <4>1, <4>2 DEF ReadsNext, Keeps, Fields
      <4> QED
        BY <1>2, <2>4, <3>1, <3>3, <4>3
    <3> QED
      BY <3>2, <3>3
  <2> QED
    BY <1>3, <2>1, <2>2, <2>3, <2>4
<1>7. /\ answers' = Tail(answers) \/ answers' = <<>>
      /\ connected' \in BOOLEAN
      /\ gw'.step = "idle" => answers' = <<>> /\ connected' = FALSE
  BY <1>1, <1>4, <1>6, Closes
<1>8. /\ (\A i \in DOMAIN answers : MayLinger(answers[i].service))'
      /\ (~ Empty(serving) => MayLinger(serving.service))'
      /\ (~ Empty(inbox) => MayLinger(inbox.service))'
  <2>1. CASE \A s : MayLinger(s)'
    BY <2>1, Zenon
  <2>2. CASE Tail(answers) = <<>> /\ Empty(serving) /\ Empty(inbox)
    <3>1. answers' = <<>>
      BY <1>7, <2>2
    <3>2. Empty(serving)' /\ Empty(inbox)'
      BY <1>1, <2>2 DEF Empty
    <3>3. (\A i \in DOMAIN answers : MayLinger(answers[i].service))'
      BY <3>1
    <3> QED
      BY <3>2, <3>3
  <2>3. CASE /\ gw'.step = "snapshot" /\ gw'.round = 1 /\ gw'.did = 2
             /\ call.service = <<"0x22", "FACTORY_IDENTITY">> /\ h.late
    <3>2. \A i \in DOMAIN answers' : answers'[i].service = <<"0x22", "FACTORY_IDENTITY">>
      <4>1. CASE answers' = <<>>
        BY <4>1
      <4>2. CASE answers' = Tail(answers)
        <5>1. ASSUME NEW i \in DOMAIN Tail(answers)
              PROVE  Tail(answers)[i].service = call.service
          <6>1. /\ i + 1 \in DOMAIN answers /\ Tail(answers)[i] = answers[i + 1]
                /\ 1 \in DOMAIN answers /\ i \in Nat /\ 1 < i + 1
            BY <1>2, <1>4, <5>1, TailOf, Sequences
          <6>2. ~ answers[i + 1].late
            BY <1>4, <6>1 DEF QueueInOrder
          <6> QED
            BY <1>1, <1>4, <6>1, <6>2 DEF OwnAnswers, Hears
        <5> QED
          BY <2>3, <4>2, <5>1
      <4> QED
        BY <1>7, <4>1, <4>2
    <3>3. ~ Empty(serving) => serving.service = <<"0x22", "FACTORY_IDENTITY">>
      BY <1>1, <1>2, <1>4, <2>3 DEF QueueInOrder, OwnAnswers, Hears
    <3>4. ~ Empty(inbox) => inbox.service = <<"0x22", "FACTORY_IDENTITY">>
      BY <1>1, <1>2, <1>4, <2>3 DEF QueueInOrder, OwnAnswers, Hears
    <3> QED
      BY <1>1, <2>3, <3>2, <3>3, <3>4 DEF MayLinger, Empty
  <2> QED
    BY <1>6, <2>1, <2>2, <2>3
<1> QED
  <2>1. /\ ~ Empty(serving) => MayLinger(serving.service)'
        /\ ~ Empty(inbox) => MayLinger(inbox.service)'
    BY <1>1, <1>8 DEF Empty
  <2> QED
    BY <1>1, <1>2, <1>6, <1>7, <1>8, <2>1, TurnsAway

----------------------------------------------------------------------------
(* The other steps of the updater *)

LEMMA StartJobKeeps ==
  ASSUME Core, StartJob, UNCHANGED nodeVars
  PROVE  Core'
<1>1. PICK package \in Packages :
        /\ gw' = [IdleGateway EXCEPT !.step = "snapshot", !.package = package]
        /\ ~ Working /\ connected' = TRUE
        /\ call' = call /\ inbox' = inbox /\ serving' = serving /\ answers' = answers
  BY DEF StartJob
<1>2. /\ DOMAIN gw' = Fields /\ gw'.package = package
      /\ gw'.step = "snapshot" /\ gw'.confirmed = FALSE /\ gw'.phase = "before" /\ gw'.round = 1
      /\ gw'.did = 1 /\ gw'.seen = Nothing /\ gw'.slow = FALSE /\ gw'.token = 0
      /\ gw'.offset = 0 /\ gw'.bsc = 1
  BY <1>1 DEF IdleGateway, Fields
<1>3. gw'.confirmed \in BOOLEAN /\ gw'.slow \in BOOLEAN
  BY <1>2, Zenon
<1>4. /\ gw'.step \in Steps /\ gw'.phase \in {"before", "after"} /\ gw'.round \in {1, 2}
      /\ gw'.did \in 1 .. 4 /\ gw'.token \in Nat /\ gw'.offset \in Nat
      /\ gw'.bsc \in 0 .. BscModulus - 1
      /\ DOMAIN gw'.seen = {"slot", "version", "confirmed"}
  BY <1>2, Constants DEF Steps, Nothing
<1>5. GatewayTypes'
  BY <1>1, <1>2, <1>3, <1>4 DEF GatewayTypes
<1>6. Position'
  BY <1>2 DEF Position
<1>7. Empty(call) /\ answers = <<>> /\ NodeInv
  BY <1>1 DEF Core, Asked
<1>8. NodeInv' /\ server' = server
  BY <1>7, NodeKept
<1>9. \A s : MayLinger(s)'
  BY <1>2, AnythingLingers
<1>10. ChannelTypes' /\ QueueInOrder' /\ ServingIsReply' /\ Requested'
  BY <1>1, <1>8 DEF Core, ChannelTypes, QueueInOrder, ServingIsReply, Requested, Requests, Empty
<1>11. Asked' /\ OwnAnswers'
  BY <1>1, <1>2, <1>7 DEF Asked, OwnAnswers, Empty, Working
<1>12. Lingering'
  BY <1>9 DEF Lingering
<1>13. Granted'
  BY <1>2 DEF Granted
<1> QED
  BY <1>5, <1>6, <1>8, <1>10, <1>11, <1>12, <1>13 DEF Core, Job

LEMMA TesterPresentDueKeeps ==
  ASSUME Core, TesterPresentDue, UNCHANGED nodeVars
  PROVE  Core'
<1>1. /\ gw.step = "block" /\ Empty(call) /\ gw' = [gw EXCEPT !.step = "tester"]
      /\ connected' = connected
      /\ call' = call /\ inbox' = inbox /\ serving' = serving /\ answers' = answers
  BY DEF TesterPresentDue, channelVars
<1>2. GatewayTypes /\ Position /\ NodeInv
  BY DEF Core, Job
<1>3. /\ DOMAIN gw' = Fields /\ gw'.step = "tester"
      /\ \A f \in Fields \ {"step"} : gw'[f] = gw[f]
  BY <1>1, <1>2 DEF GatewayTypes, Fields
<1>4. GatewayTypes' /\ Position'
  BY <1>1, <1>2, <1>3 DEF GatewayTypes, Position, Fields, Steps, Working
<1>5. Empty(inbox) /\ Empty(serving) /\ answers = <<>>
  BY <1>1, StrictPipe DEF Core, Strict
<1>6. NodeInv' /\ server' = server
  BY <1>2, NodeKept
<1>7. ChannelTypes' /\ QueueInOrder' /\ ServingIsReply' /\ Requested'
  BY <1>1, <1>6 DEF Core, ChannelTypes, QueueInOrder, ServingIsReply, Requested, Requests, Empty
<1>8. Asked' /\ OwnAnswers'
  BY <1>1, <1>3 DEF Asked, OwnAnswers, Empty, Working
<1>9. Lingering'
  BY <1>1, <1>5 DEF Lingering, Empty
<1>10. Granted'
  BY <1>3 DEF Granted
<1> QED
  BY <1>4, <1>6, <1>7, <1>8, <1>9, <1>10 DEF Core, Job

LEMMA AttemptsKeeps ==
  ASSUME Core, Attempts \/ Reconnects, UNCHANGED nodeVars
  PROVE  /\ Core'
         /\ (Ends /\ ~ gw'.confirmed) \/ gw' = [gw EXCEPT !.step = "snapshot"]
<1>1. /\ call' = call /\ inbox' = inbox /\ serving' = serving /\ answers' = <<>>
      /\ connected' \in BOOLEAN /\ gw.step \in {"attempt", "reconnect"}
      /\ \/ gw' = [gw EXCEPT !.step = "snapshot"]
         \/ (\E state \in {"RECONNECTED", "RESET_SENT_OR_RESPONSE_LOST"} : gw' \in Ended(state))
              /\ connected' = FALSE
  BY Zenon DEF Attempts, Reconnects, Reopen, isotp_channel_close
<1>2. GatewayTypes /\ Position /\ NodeInv /\ Asked
  BY DEF Core, Job
<1>3. Empty(call)
  BY <1>1, <1>2 DEF Asked, Asking
<1>4. \/ Ends /\ ~ gw'.confirmed /\ connected' = FALSE
      \/ gw' = [gw EXCEPT !.step = "snapshot"]
  BY <1>1, EndedIs
<1>5. /\ GatewayTypes' /\ Position' /\ \A s : MayLinger(s)'
      /\ ~ Working' => connected' = FALSE
      /\ gw'.step \notin Strict
  <2>1. CASE Ends /\ connected' = FALSE
    <3>1. GatewayTypes' /\ Position' /\ gw'.step = "idle"
      BY <2>1, EndKeeps
    <3> QED
      BY <2>1, <3>1, AnythingLingers DEF Strict
  <2>2. CASE gw' = [gw EXCEPT !.step = "snapshot"]
    <3>1. /\ DOMAIN gw' = Fields /\ gw'.step = "snapshot"
          /\ \A f \in Fields \ {"step"} : gw'[f] = gw[f]
      BY <1>2, <2>2 DEF GatewayTypes, Fields
    <3>2. gw.round = 1 /\ gw.did = 1 /\ gw'.round = 1 /\ gw'.did = 1 /\ gw.offset = 0
      BY <1>1, <1>2, <3>1 DEF Position, Fields
    <3>3. GatewayTypes' /\ Position'
      BY <1>1, <1>2, <3>1, <3>2 DEF GatewayTypes, Position, Fields, Steps, Working
    <3> QED
      BY <3>1, <3>2, <3>3, AnythingLingers DEF Strict, Working
  <2> QED
    BY <1>4, <2>1, <2>2
<1>6. NodeInv' /\ server' = server
  BY <1>2, NodeKept
<1>7. ChannelTypes' /\ QueueInOrder' /\ ServingIsReply' /\ Requested'
  BY <1>1, <1>6 DEF Core, ChannelTypes, QueueInOrder, ServingIsReply, Requested, Requests, Empty
<1>8. Asked' /\ OwnAnswers'
  BY <1>1, <1>3, <1>5, EmptyMessage DEF Asked, OwnAnswers, Empty
<1>9. Lingering'
  BY <1>5 DEF Lingering
<1>10. Granted'
  BY <1>5 DEF Granted, Strict
<1> QED
  BY <1>4, <1>5, <1>6, <1>7, <1>8, <1>9, <1>10 DEF Core, Job

LEMMA ExpiryKeeps ==
  ASSUME Core, update_watchdog_expired, UNCHANGED nodeVars
  PROVE  Core' /\ Ends /\ ~ gw'.confirmed
<1>1. /\ gw' \in Ended("NONE") /\ call' = None /\ connected' = FALSE /\ answers' = <<>>
      /\ inbox' = inbox /\ serving' = serving
  BY DEF update_watchdog_expired, isotp_channel_close
<1>2. Ends /\ ~ gw'.confirmed
  BY <1>1, EndedIs
<1>3. GatewayTypes' /\ Position' /\ gw'.step = "idle"
  BY <1>2, EndKeeps
<1>4. \A s : MayLinger(s)'
  BY <1>3, AnythingLingers
<1>5. /\ (\A i \in DOMAIN answers : MayLinger(answers[i].service))'
      /\ ~ Empty(serving) => MayLinger(serving.service)'
      /\ ~ Empty(inbox) => MayLinger(inbox.service)'
  BY <1>4, Zenon
<1>6. Core'
  BY <1>1, <1>3, <1>5, TurnsAway
<1> QED
  BY <1>2, <1>6

----------------------------------------------------------------------------
(* The steps of the node *)

\* Its steps find the gateway where it was.
LEMMA GatewayKept ==
  ASSUME Core, gw' = gw \/ gw' = [gw EXCEPT !.slow = TRUE],
         gw' = gw \/ gw.step = "snapshot"
  PROVE  /\ GatewayTypes' /\ Position' /\ StepRequest' = StepRequest /\ Asking' = Asking
         /\ Working' = Working /\ Chunk' = Chunk /\ (\A s : MayLinger(s)' = MayLinger(s))
         /\ gw'.step = gw.step /\ gw'.package = gw.package
<1>1. GatewayTypes /\ Position
  BY DEF Core, Job
<1>2. /\ StepRequest' = StepRequest /\ Asking' = Asking /\ Working' = Working
      /\ Chunk' = Chunk /\ (\A s : MayLinger(s)' = MayLinger(s))
  BY <1>1, SameRequest
<1>3. CASE gw' = gw
  BY <1>1, <1>2, <1>3 DEF GatewayTypes, Position
<1>4. CASE gw' = [gw EXCEPT !.slow = TRUE] /\ gw.step = "snapshot"
  <2>1. DOMAIN gw' = Fields /\ gw'.slow = TRUE /\ \A f \in Fields \ {"slow"} : gw'[f] = gw[f]
    BY <1>1, <1>4 DEF GatewayTypes, Fields
  <2>2. gw'.slow \in BOOLEAN
    BY <2>1, Zenon
  <2>3. GatewayTypes'
    BY <1>1, <2>1, <2>2 DEF GatewayTypes, Fields, Working
  <2>4. Position'
    BY <1>1, <1>4, <2>1 DEF Position, Fields
  <2> QED
    BY <1>2, <2>1, <2>3, <2>4 DEF Fields
<1> QED
  BY <1>3, <1>4

LEMMA AnswerIs ==
  ASSUME NodeInv, NEW request \in Messages, NEW r, alive,
         r.code \in Refusals \cup {"OK"}, r.seed \in Nat
  PROVE  /\ AnswerTo(request, r) \in Messages
         /\ AnswerTo(request, r).service = request.service
         /\ AnswerTo(request, r).code = r.code
         /\ AnswerTo(request, r).late = request.late
<1> DEFINE a == AnswerTo(request, r)
<1>1. /\ DOMAIN request = {"service", "code", "number", "size", "data", "late"}
      /\ request.service \in Services /\ request.number \in Nat /\ request.late \in BOOLEAN
      /\ request = [service |-> request.service, code |-> request.code,
                    number |-> request.number, size |-> request.size, data |-> request.data,
                    late |-> request.late]
  BY DEF Messages
<1>2. flash \in [M!D!Slots -> M!D!Areas] /\ activeSlot \in M!D!Slots /\ activeSlot \in Nat
  BY NodeStates DEF M!D!Slots, M!D!SLOT_A, M!D!SLOT_B
<1>3. RunningImageVersion \in M!D!Areas
  BY <1>2 DEF RunningImageVersion, M!D!Areas, M!D!Cells
<1>4. /\ a.service = request.service /\ a.code = r.code /\ a.late = request.late /\ a.size = 0
      /\ a = [service |-> a.service, code |-> a.code, number |-> a.number, size |-> a.size,
              data |-> a.data, late |-> a.late]
  <2>1. PICK number, data :
          a = [request EXCEPT !.code = r.code, !.size = 0, !.number = number, !.data = data]
    BY DEF AnswerTo
  <2> HIDE DEF a
  <2> QED
    BY <1>1, <2>1
<1>5. a.number \in Nat
  <2>1. a.number = CASE request.service = <<"0x22", "ACTIVE_SLOT">> -> activeSlot
                     [] request.service = <<"0x22", "CONFIRM_RESULT">> -> 1
                     [] request.service = <<"0x27", "seed">> -> r.seed
                     [] request.service[1] = "0x36" -> request.number
                     [] OTHER -> 0
    BY <1>1 DEF AnswerTo
  <2> HIDE DEF a
  <2>2. a.number \in {activeSlot, 1, r.seed, request.number, 0}
    BY <2>1
  <2> QED
    BY <1>1, <1>2, <2>2
<1>6. a.data \in {<<>>} \cup M!D!Areas
  BY <1>1, <1>3 DEF AnswerTo
<1> HIDE DEF a
<1>7. a \in Messages
  BY <1>1, <1>4, <1>5, <1>6 DEF Messages
<1> QED
  BY <1>4, <1>7 DEF a

LEMMA TakesKeeps ==
  ASSUME Core, Takes
  PROVE  /\ Core' /\ Served /\ Empty(serving)
         /\ serving'.service = inbox.service /\ serving'.code = reply'.code
         /\ serving'.late = inbox.late
<1>1. /\ ~ Empty(inbox) /\ Handle(inbox) /\ serving' = AnswerTo(inbox, reply')
      /\ inbox' = None /\ connected' = connected /\ call' = call /\ answers' = answers
      /\ gw' = gw
  BY DEF Takes
<1>2. /\ NodeInv /\ ChannelTypes /\ QueueInOrder /\ OwnAnswers /\ Lingering /\ Requests(inbox)
      /\ inbox \in Messages
  BY <1>1 DEF Core, ChannelTypes, Requested
<1>3. Served /\ NodeInv'
  BY <1>1, <1>2, Handled
<1>4. Empty(serving) /\ server'.requestInProgress = TRUE
  BY <1>3 DEF Core, ServingIsReply, Served
<1>5. /\ serving' \in Messages /\ serving'.service = inbox.service
      /\ serving'.code = reply'.code /\ serving'.late = inbox.late
  BY <1>1, <1>2, <1>3, AnswerIs DEF Served
<1>6. ~ Empty(serving') /\ Empty(inbox') /\ inbox' \in Messages
  BY <1>1, <1>5, EmptyMessage DEF Empty
<1>7. /\ GatewayTypes' /\ Position' /\ StepRequest' = StepRequest /\ Asking' = Asking
      /\ Working' = Working /\ Chunk' = Chunk /\ (\A s : MayLinger(s)' = MayLinger(s))
  BY <1>1, GatewayKept
<1>8. ChannelTypes'
  BY <1>1, <1>2, <1>5, <1>6 DEF ChannelTypes
<1>9. QueueInOrder'
  BY <1>1, <1>2, <1>5, <1>6 DEF QueueInOrder, Empty
<1>10. Asked'
  BY <1>1, <1>7 DEF Core, Asked, Empty
<1>11. OwnAnswers'
  BY <1>1, <1>2, <1>5, <1>6 DEF OwnAnswers, Empty
<1>12. Lingering'
  <2>1. Empty(call') \/ serving'.late => MayLinger(serving'.service)
    BY <1>1, <1>2, <1>5 DEF Lingering, Empty
  <2> QED
    BY <1>1, <1>2, <1>6, <1>7, <2>1 DEF Lingering, Empty
<1>13. ServingIsReply' /\ Requested'
  BY <1>4, <1>6 DEF ServingIsReply, Requested, Empty
<1>14. Granted'
  <2>1. SUFFICES ASSUME Accepted', gw.step \in {"download", "block"}
                 PROVE  /\ gw.step = "download" => gw.package.size <= SlotSize
                        /\ gw.step = "block" => Chunk % ProgramUnit = 0
    BY <1>1, <1>7 DEF Granted
  <2>2. inbox = call /\ answers = <<>> /\ ~ Empty(call)
    BY <1>1, <1>2, <2>1, StrictPipe, StrictSteps DEF Strict
  <2>3. call = StepRequest /\ Asking
    BY <2>2 DEF Core, Asked
  <2>4. inbox.service = StepService /\ Job
    BY <2>2, <2>3, AskedIs DEF Core, Job
  <2>5. reply'.code = "OK"
    <3>1. DOMAIN answers' = {}
      BY <1>1, <2>2
    <3> QED
      BY <1>5, <2>1, <3>1 DEF Accepted
  <2>6. inbox.service \in Services
    BY <1>2 DEF Messages
  <2>7. CASE gw.step = "download"
    <3>a. StepRequest.size = gw.package.size
      BY <2>3, <2>4, <2>7, AskedIs DEF Job
    <3>1. inbox.service = <<"0x34", "download">> /\ inbox.size = gw.package.size
      BY <2>2, <2>3, <2>4, <2>7, <3>a DEF StepService
    <3>b. inbox.size \in Sizes
      BY <1>2, <3>1 DEF Requests
    <3>2. U!RequestDownload(inbox.size)
      <4>1. M!RequestDownload(inbox.size)
        BY <1>1, <3>1 DEF Handle
      <4> QED
        BY <4>1, Same_RequestDownload
    <3>3. inbox.size <= SlotSize
      BY <1>2, <2>5, <3>2, <3>b, DownloadServed
    <3> QED
      BY <2>7, <3>1, <3>3
  <2>8. CASE gw.step = "block"
    <3> DEFINE block == [length |-> inbox.size, data |-> inbox.data]
    <3>a. StepRequest.size = Chunk
      BY <2>3, <2>4, <2>8, AskedIs DEF Job
    <3>1. inbox.service = <<"0x36", "block">> /\ inbox.size = Chunk
      BY <2>2, <2>3, <2>4, <2>8, <3>a DEF StepService
    <3>2. \/ U!TransferDataRefused(inbox.number, inbox.size)
          \/ U!TransferDataTaken(inbox.number, block)
      BY <1>1, <2>6, <3>1, HandlerOf
    <3>3. ~ U!TransferDataRefused(inbox.number, inbox.size)
      BY <1>2, <2>5, BlockRefused
    <3>4. inbox.size \in Lengths /\ inbox.data \in [M!D!UnitsOf(inbox.size) -> Data \cup {Erased}]
      BY <1>2, <3>1 DEF Requests
    <3>5. inbox.size % ProgramUnit = 0
      BY <1>2, <2>5, <3>2, <3>3, <3>4, BlockTaken
    <3> QED
      BY <2>8, <3>1, <3>5
  <2> QED
    BY <2>1, <2>7, <2>8
<1> QED
  BY <1>3, <1>4, <1>5, <1>7, <1>8, <1>9, <1>10, <1>11, <1>12, <1>13, <1>14 DEF Core, Job

LEMMA AnswersKeeps ==
  ASSUME Core, Answers
  PROVE  /\ Core' /\ AccessKept /\ TransferKept /\ ~ Empty(serving) /\ Empty(serving')
         /\ answers' = answers \/ answers' = Append(answers, serving)
<1>1. /\ M!SendResponse /\ serving' = None /\ gw' = gw
      /\ \/ connected /\ answers' = Append(answers, serving)
         \/ answers' = answers
      /\ connected' = connected /\ call' = call /\ inbox' = inbox
  BY DEF Answers
<1>2. /\ NodeInv /\ ChannelTypes /\ QueueInOrder /\ OwnAnswers /\ Lingering
      /\ answers \in Seq(Messages) /\ serving \in Messages
  BY DEF Core, ChannelTypes
<1>3. /\ AccessKept /\ TransferKept /\ NodeInv'
      /\ server.requestInProgress = TRUE /\ server'.requestInProgress = FALSE
  BY <1>1, <1>2, ResponseSent
<1>4. ~ Empty(serving)
  BY <1>3 DEF Core, ServingIsReply
<1>5. Empty(serving') /\ serving' \in Messages
  BY <1>1, EmptyMessage
<1>6. /\ GatewayTypes' /\ Position' /\ StepRequest' = StepRequest /\ Asking' = Asking
      /\ Working' = Working /\ Chunk' = Chunk /\ (\A s : MayLinger(s)' = MayLinger(s))
  BY <1>1, GatewayKept
<1>7. /\ answers' \in Seq(Messages) /\ DOMAIN answers' \subseteq Int
      /\ \A i \in DOMAIN answers' : \/ i \in DOMAIN answers /\ answers'[i] = answers[i]
                                    \/ /\ answers'[i] = serving /\ i = Len(answers) + 1
                                       /\ \A j \in DOMAIN answers : j < i
      /\ (\A i \in DOMAIN answers' : i \in DOMAIN answers) \/ connected
  <2>1. Len(answers) \in Nat /\ DOMAIN answers = 1 .. Len(answers)
    BY <1>2, Sequences
  <2>2. CASE answers' = answers
    BY <1>2, <2>1, <2>2
  <2>3. CASE connected /\ answers' = Append(answers, serving)
    <3>1. /\ Append(answers, serving) \in Seq(Messages)
          /\ \A i \in DOMAIN answers : Append(answers, serving)[i] = answers[i]
          /\ Append(answers, serving)[Len(answers) + 1] = serving
          /\ DOMAIN Append(answers, serving) = 1 .. Len(answers) + 1
      BY <1>2, AppendOf
    <3> QED
      BY <2>1, <2>3, <3>1
  <2> QED
    BY <1>1, <2>2, <2>3
<1>8. ChannelTypes'
  BY <1>1, <1>2, <1>5, <1>7 DEF ChannelTypes
<1>9. QueueInOrder'
  <2>1. \A i \in DOMAIN answers' : ~ Empty(answers'[i])
    BY <1>2, <1>4, <1>7 DEF QueueInOrder
  <2>2. ASSUME NEW i \in DOMAIN answers', NEW j \in DOMAIN answers', i < j
        PROVE  answers'[i].late /\ ~ answers'[j].late
    <3>1. CASE j \in DOMAIN answers /\ answers'[j] = answers[j]
      <4>1. i \in DOMAIN answers /\ answers'[i] = answers[i]
        <5>1. SUFFICES ASSUME i = Len(answers) + 1 PROVE FALSE
          BY <1>7
        <5>2. j <= Len(answers) /\ Len(answers) \in Nat /\ j \in Int
          BY <1>2, <3>1, Sequences
        <5> QED
          BY <2>2, <5>1, <5>2
      <4> QED
        BY <1>2, <2>2, <3>1, <4>1 DEF QueueInOrder
    <3>2. CASE answers'[j] = serving /\ j = Len(answers) + 1
      <4>1. i \in DOMAIN answers /\ answers'[i] = answers[i]
        BY <1>7, <2>2, <3>2
      <4>2. answers # <<>>
        BY <4>1
      <4> QED
        BY <1>2, <1>4, <3>2, <4>1, <4>2 DEF QueueInOrder
    <3> QED
      BY <1>7, <3>1, <3>2
  <2>3. ~ Empty(inbox) => /\ \A i \in DOMAIN answers' : answers'[i].late
                          /\ answers' # <<>> => ~ inbox.late
    BY <1>2, <1>4, <1>7 DEF QueueInOrder
  <2> QED
    BY <1>1, <1>5, <2>1, <2>2, <2>3 DEF QueueInOrder, Empty
<1>10. Asked'
  <2>1. ~ Working => answers' = <<>>
    BY <1>1 DEF Core, Asked
  <2> QED
    BY <1>1, <1>6, <2>1 DEF Core, Asked, Empty
<1>11. OwnAnswers'
  BY <1>1, <1>2, <1>4, <1>5, <1>7 DEF OwnAnswers, Empty
<1>12. Lingering'
  <2>1. \A i \in DOMAIN answers' :
          Empty(call') \/ answers'[i].late => MayLinger(answers'[i].service)
    BY <1>1, <1>2, <1>4, <1>7 DEF Lingering, Empty
  <2>2. ~ Empty(inbox') /\ (Empty(call') \/ inbox'.late) => MayLinger(inbox'.service)
    BY <1>1, <1>2 DEF Lingering, Empty
  <2> QED
    BY <1>5, <1>6, <2>1, <2>2 DEF Lingering, Empty
<1>13. ServingIsReply' /\ Requested'
  BY <1>1, <1>3, <1>5 DEF Core, ServingIsReply, Requested, Requests, Empty
<1>14. Granted'
  <2>1. Accepted' => Accepted
    BY <1>4, <1>5, <1>7 DEF Accepted, Empty
  <2> QED
    BY <1>1, <1>6, <2>1 DEF Core, Granted
<1> QED
  BY <1>1, <1>3, <1>4, <1>5, <1>6, <1>8, <1>9, <1>10, <1>11, <1>12, <1>13, <1>14 DEF Core, Job

LEMMA NodeGoesOnKeeps ==
  ASSUME Core, NodeGoesOn
  PROVE  Core'
<1>1. /\ M!SeedDelayPasses \/ M!SessionTimeout \/ M!DoScheduledReset \/ M!Download_Poll
      /\ gw' = gw /\ UNCHANGED channelVars
  BY DEF NodeGoesOn
<1>2. NodeInv' /\ server'.requestInProgress = server.requestInProgress
  BY <1>1, NodeAlone DEF Core
<1>3. /\ connected' = connected /\ call' = call /\ inbox' = inbox /\ serving' = serving
      /\ answers' = answers
  BY <1>1 DEF channelVars
<1>4. /\ GatewayTypes' /\ Position' /\ StepRequest' = StepRequest /\ Asking' = Asking
      /\ Working' = Working /\ Chunk' = Chunk /\ (\A s : MayLinger(s)' = MayLinger(s))
  BY <1>1, GatewayKept
<1>5. ChannelTypes' /\ QueueInOrder' /\ ServingIsReply' /\ Requested'
  BY <1>2, <1>3 DEF Core, ChannelTypes, QueueInOrder, ServingIsReply, Requested, Requests, Empty
<1>6. Asked' /\ OwnAnswers'
  BY <1>3, <1>4 DEF Core, Asked, OwnAnswers, Empty
<1>7. Lingering'
  BY <1>3, <1>4 DEF Core, Lingering, Empty
<1>8. Granted'
  BY <1>1, <1>3, <1>4 DEF Core, Granted, Accepted, Empty
<1> QED
  BY <1>2, <1>4, <1>5, <1>6, <1>7, <1>8 DEF Core, Job

LEMMA NodeRestartsKeeps ==
  ASSUME Core, NodeRestarts
  PROVE  Core'
<1>1. /\ M!Restart /\ inbox' = None /\ serving' = None /\ NodeWasAway
      /\ connected' = connected /\ call' = call /\ answers' = answers
  BY DEF NodeRestarts
<1>2. NodeInv' /\ server'.requestInProgress = FALSE
  BY <1>1, Restarted DEF Core
<1>3. Empty(inbox') /\ Empty(serving') /\ inbox' \in Messages /\ serving' \in Messages
  BY <1>1, EmptyMessage
<1>4. /\ gw' = gw \/ gw' = [gw EXCEPT !.slow = TRUE]
      /\ gw' = gw \/ gw.step = "snapshot"
  BY <1>1 DEF NodeWasAway
<1>5. /\ GatewayTypes' /\ Position' /\ StepRequest' = StepRequest /\ Asking' = Asking
      /\ Working' = Working /\ Chunk' = Chunk /\ (\A s : MayLinger(s)' = MayLinger(s))
      /\ gw'.step = gw.step /\ gw'.package = gw.package
  BY <1>4, GatewayKept
<1>6. ChannelTypes' /\ QueueInOrder' /\ ServingIsReply' /\ Requested'
  BY <1>1, <1>2, <1>3
  DEF Core, ChannelTypes, QueueInOrder, ServingIsReply, Requested, Requests, Empty
<1>7. Asked' /\ OwnAnswers'
  BY <1>1, <1>3, <1>5 DEF Core, Asked, OwnAnswers, Empty
<1>8. Lingering'
  BY <1>1, <1>3, <1>5 DEF Core, Lingering, Empty
<1>9. Granted'
  <2>1. Accepted' => Accepted
    BY <1>1, <1>3 DEF Accepted, Empty
  <2> QED
    BY <1>5, <2>1 DEF Core, Granted
<1> QED
  BY <1>2, <1>5, <1>6, <1>7, <1>8, <1>9 DEF Core, Job

LEMMA CoreStarts == Init => Core
<1> SUFFICES ASSUME Init PROVE Core
  OBVIOUS
<1>1. NodeInv /\ server.requestInProgress = FALSE
  BY NodeStarts DEF Init
<1>2. /\ connected = FALSE /\ call = None /\ inbox = None /\ serving = None /\ answers = <<>>
      /\ gw = IdleGateway
  BY DEF Init, InitChannel
<1>3. /\ DOMAIN gw = Fields
      /\ gw.step = "idle" /\ gw.confirmed = FALSE /\ gw.phase = "before" /\ gw.round = 1
      /\ gw.did = 1 /\ gw.seen = Nothing /\ gw.slow = FALSE /\ gw.token = 0
      /\ gw.offset = 0 /\ gw.bsc = 1 /\ ~ Working
  BY <1>2 DEF IdleGateway, Fields, Working
<1>4. gw.confirmed \in BOOLEAN /\ gw.slow \in BOOLEAN
  BY <1>3, Zenon
<1>5. /\ gw.step \in Steps /\ gw.phase \in {"before", "after"} /\ gw.round \in {1, 2}
      /\ gw.did \in 1 .. 4 /\ gw.token \in Nat /\ gw.offset \in Nat
      /\ gw.bsc \in 0 .. BscModulus - 1
      /\ DOMAIN gw.seen = {"slot", "version", "confirmed"}
  BY <1>3, Constants DEF Steps, Nothing
<1>6. GatewayTypes /\ Position
  BY <1>3, <1>4, <1>5 DEF GatewayTypes, Position
<1>7. Empty(call) /\ Empty(inbox) /\ Empty(serving) /\ None \in Messages
  BY <1>2, EmptyMessage
<1>8. ChannelTypes
  <2>1. connected \in BOOLEAN
    BY <1>2, Zenon
  <2> QED
    BY <1>2, <1>7, <2>1 DEF ChannelTypes
<1>9. QueueInOrder /\ OwnAnswers /\ Lingering /\ Requested
  BY <1>2, <1>7 DEF QueueInOrder, OwnAnswers, Lingering, Requested
<1>10. Asked /\ ServingIsReply /\ Granted
  BY <1>1, <1>2, <1>3, <1>7 DEF Asked, ServingIsReply, Granted
<1> QED
  BY <1>1, <1>6, <1>8, <1>9, <1>10 DEF Core, Job

\* What the updater may do.
LEMMA GatewayMoves ==
  ASSUME Gateway
  PROVE  /\ UNCHANGED nodeVars
         /\ \/ StartJob /\ UNCHANGED cut
            \/ TesterPresentDue /\ UNCHANGED cut
            \/ JobStep /\ cut' = (cut \/ (InTransfer /\ gw'.step = "idle" /\ ~ Refused))
            \/ update_watchdog_expired /\ cut' = (cut \/ InTransfer)
BY Zenon DEF Gateway, JobGoesOn, JobIsCutOff

LEMMA CoreKept == Core /\ [Next]_vars => Core'
<1> SUFFICES ASSUME Core, [Next]_vars PROVE Core'
  OBVIOUS
<1>1. CASE Takes
  BY <1>1, TakesKeeps
<1>2. CASE Answers
  BY <1>2, AnswersKeeps
<1>3. CASE NodeGoesOn
  BY <1>3, NodeGoesOnKeeps
<1>4. CASE NodeRestarts
  BY <1>4, NodeRestartsKeeps
<1>5. CASE Gateway
  <2>1. UNCHANGED nodeVars
    BY <1>5, GatewayMoves
  <2>2. StartJob \/ TesterPresentDue \/ JobStep \/ update_watchdog_expired
    BY <1>5, GatewayMoves
  <2> QED
    BY <2>1, <2>2, StartJobKeeps, TesterPresentDueKeeps, AsksKeeps, SendFailsKeeps,
       HearsAnswerKeeps, TimesOutKeeps, AttemptsKeeps, ExpiryKeeps DEF JobStep
<1>6. CASE UNCHANGED vars
  <2>1. UNCHANGED nodeVars /\ UNCHANGED channelVars /\ gw' = gw
    BY <1>6 DEF vars
  <2>2. NodeInv' /\ server' = server
    BY <2>1, NodeKept DEF Core
  <2>3. /\ connected' = connected /\ call' = call /\ inbox' = inbox /\ serving' = serving
        /\ answers' = answers
    BY <2>1 DEF channelVars
  <2>4. /\ GatewayTypes' /\ Position' /\ StepRequest' = StepRequest /\ Asking' = Asking
        /\ Working' = Working /\ Chunk' = Chunk /\ (\A s : MayLinger(s)' = MayLinger(s))
    BY <2>1, GatewayKept
  <2>5. ChannelTypes' /\ QueueInOrder' /\ ServingIsReply' /\ Requested'
    BY <2>2, <2>3
    DEF Core, ChannelTypes, QueueInOrder, ServingIsReply, Requested, Requests, Empty
  <2>6. Asked' /\ OwnAnswers' /\ Lingering'
    BY <2>3, <2>4 DEF Core, Asked, OwnAnswers, Lingering, Empty
  <2>7. Granted'
    BY <2>1, <2>3, <2>4 DEF Core, Granted, Accepted, Empty
  <2> QED
    BY <2>2, <2>4, <2>5, <2>6, <2>7 DEF Core, Job
<1> QED
  BY <1>1, <1>2, <1>3, <1>4, <1>5, <1>6, Zenon DEF Next

LEMMA CoreHolds == Spec => []Core
BY CoreStarts, CoreKept, PTL DEF Spec

\* A step that asks the node to do something goes on only from the answer to its own request.
THEOREM LateAnswersAreReadings == Spec => OnlyReadsTakeLateAnswers
<1>1. ASSUME Core, Hears, Head(answers).late
      PROVE  call.service[1] = "0x22"
  <2>1. gw.step = "snapshot" /\ call.service = StepService
    BY <1>1, HeardIs
  <2> QED
    BY <2>1 DEF StepService
<1>2. Core => [Hears /\ Head(answers).late /\ Result(Head(answers)) = "OK" /\ HearsAnswer =>
                 call.service[1] = "0x22"]_vars
  BY <1>1
<1> QED
  BY <1>2, CoreHolds, PTL DEF OnlyReadsTakeLateAnswers

----------------------------------------------------------------------------
(* The level of the library and the lock of the application *)

Level ==
  /\ server.sessionType = "DS" => server.securityLevel = 0
  /\ server.securityLevel = 1 => sec.unlocked
  /\ ~ Empty(serving) /\ ~ Empty(inbox) => inbox.service[1] = "0x22"

\* What a request does to them.
LEMMA AccessMoves ==
  ASSUME NodeInv, NEW m \in Messages, Requests(m), Handle(m)
  PROVE  \/ AccessKept
         \/ /\ server'.sessionType = server.sessionType /\ (sec.unlocked => sec'.unlocked)
            /\ \/ server'.securityLevel = server.securityLevel
               \/ server'.securityLevel = 1 /\ sec'.unlocked /\ server.sessionType = "PRGS"
         \/ /\ server'.sessionType = "PRGS" /\ server'.securityLevel = server.securityLevel
            /\ sec'.unlocked = sec.unlocked \/ server.sessionType = "DS"
<1> DEFINE block == [length |-> m.size, data |-> m.data]
<1>1. m.service \in Services
  BY DEF Messages
<1>2. CASE U!TransferDataTaken(m.number, block) /\ m.service = <<"0x36", "block">>
  <2>1. m.size \in Lengths /\ m.data \in [M!D!UnitsOf(m.size) -> Data \cup {Erased}]
    BY <1>2 DEF Requests
  <2> QED
    BY <1>2, <2>1, BlockTaken
<1>3. CASE U!RequestDownload(m.size) /\ m.service = <<"0x34", "download">>
  <2>1. m.size \in Sizes
    BY <1>3 DEF Requests
  <2> QED
    BY <1>3, <2>1, DownloadServed
<1>4. CASE U!RequestSeed \/ U!EcuReset("HR") \/ U!OtherRequest \/ U!EraseMemoryResults
  BY <1>4, SeedServed, ResetServed, OtherServed, ResultsServed
<1>5. CASE U!SendKey(m.number)
  BY <1>5, KeyServed
<1>6. CASE U!DiagnosticSessionControl("PRGS")
  BY <1>6, SessionServed
<1>7. CASE U!StartEraseMemory \/ U!RequestTransferExit \/ U!TransferDataRefused(m.number, m.size)
  BY <1>7, StartServed, ExitServed, BlockRefused
<1> HIDE DEF block
<1>8. \/ U!OtherRequest \/ U!DiagnosticSessionControl("PRGS") \/ U!EcuReset("HR")
      \/ U!RequestSeed \/ U!SendKey(m.number) \/ U!StartEraseMemory \/ U!EraseMemoryResults
      \/ m.service = <<"0x34", "download">> /\ U!RequestDownload(m.size)
      \/ U!TransferDataRefused(m.number, m.size)
      \/ m.service = <<"0x36", "block">> /\ U!TransferDataTaken(m.number, block)
      \/ U!RequestTransferExit
  BY <1>1, HandlerOf, Zenon DEF block
<1> QED
  BY <1>2, <1>3, <1>4, <1>5, <1>6, <1>7, <1>8

\* Whatever the updater does, it leaves at most a reading behind an answer.
LEMMA GatewaySends ==
  ASSUME Core, Level, Gateway
  PROVE  /\ ~ Empty(serving') /\ ~ Empty(inbox') => inbox'.service[1] = "0x22"
         /\ serving'.service = serving.service
<1>1. serving \in Messages /\ inbox \in Messages
  BY DEF Core, ChannelTypes
<1>2. CASE ~ Asks
  <2>1. inbox' = inbox /\ serving' = serving
    BY <1>2, GatewayMoves
    DEF StartJob, TesterPresentDue, channelVars, JobStep, SendFails, HearsAnswer, TimesOut, GoesOn,
        Attempts, Reconnects, update_watchdog_expired
  <2> QED
    BY <2>1 DEF Level, Empty
<1>3. CASE Asks
  <2> DEFINE waiting == IF inbox.late THEN None ELSE Belated(inbox)
  <2>1. /\ Empty(call) /\ ~ serving.late /\ Asking
        /\ inbox' = waiting \/ inbox' = StepRequest
        /\ serving' = Belated(serving)
    BY <1>3 DEF Asks, UDSSendRequest
  <2>2. serving'.service = serving.service /\ (Empty(serving') <=> Empty(serving))
    BY <1>1, <2>1, BelatedMessage
  <2>3. ~ Empty(waiting) => ~ Empty(inbox)
    BY <1>1, BelatedMessage, EmptyMessage
  <2> HIDE DEF waiting
  <2>4. ASSUME ~ Empty(serving)
        PROVE  Empty(inbox) /\ gw.step = "snapshot"
    <3>1. Empty(inbox)
      BY <2>1, <2>4 DEF Core, QueueInOrder
    <3>2. MayLinger(serving.service)
      BY <2>1, <2>4 DEF Core, Lingering
    <3> QED
      BY <2>1, <3>1, <3>2 DEF MayLinger, Asking, Working
  <2>5. gw.step = "snapshot" => StepRequest.service[1] = "0x22"
    <3>1. StepRequest.service = StepService
      BY <2>1, AskedIs DEF Core, Job
    <3> QED
      BY <3>1 DEF StepService
  <2> QED
    BY <2>1, <2>2, <2>3, <2>4, <2>5 DEF Empty
<1> QED
  BY <1>2, <1>3

LEMMA LevelKept == Core /\ Level /\ [Next]_vars => Level'
<1> SUFFICES ASSUME Core, Level, [Next]_vars PROVE Level'
  OBVIOUS
<1>1. NodeInv
  BY DEF Core
<1>2. CASE Takes
  <2>1. Handle(inbox) /\ ~ Empty(inbox) /\ inbox' = None
    BY <1>2 DEF Takes
  <2>2. inbox \in Messages /\ Requests(inbox)
    BY <2>1 DEF Core, ChannelTypes, Requested
  <2>3. \/ AccessKept
        \/ /\ server'.sessionType = server.sessionType /\ (sec.unlocked => sec'.unlocked)
           /\ \/ server'.securityLevel = server.securityLevel
              \/ server'.securityLevel = 1 /\ sec'.unlocked /\ server.sessionType = "PRGS"
        \/ /\ server'.sessionType = "PRGS" /\ server'.securityLevel = server.securityLevel
           /\ sec'.unlocked = sec.unlocked \/ server.sessionType = "DS"
    BY <1>1, <2>1, <2>2, AccessMoves
  <2>4. Empty(inbox')
    BY <2>1, EmptyMessage
  <2> QED
    BY <2>3, <2>4 DEF Level, AccessKept, Empty
<1>3. CASE Answers
  <2>1. AccessKept /\ Empty(serving')
    BY <1>3, AnswersKeeps
  <2> QED
    BY <2>1 DEF Level, AccessKept, Empty
<1>4. CASE NodeGoesOn
  <2>1. (AccessKept \/ server'.securityLevel = 0) /\ serving' = serving /\ inbox' = inbox
    BY <1>1, <1>4, NodeAlone DEF NodeGoesOn, channelVars
  <2> QED
    BY <2>1 DEF Level, AccessKept, Empty
<1>5. CASE NodeRestarts
  <2>1. server'.securityLevel = 0 /\ serving' = None
    BY <1>1, <1>5, Restarted DEF NodeRestarts
  <2> QED
    BY <2>1, EmptyMessage DEF Level, Empty
<1>6. CASE Gateway
  <2>1. server' = server /\ sec' = sec
    BY <1>6, GatewayMoves DEF nodeVars
  <2> QED
    BY <1>6, <2>1, GatewaySends DEF Level, Empty
<1>7. CASE UNCHANGED vars
  BY <1>7 DEF vars, nodeVars, channelVars, Level, Empty
<1> QED
  BY <1>2, <1>3, <1>4, <1>5, <1>6, <1>7, Zenon DEF Next

LEMMA LevelHolds == Spec => []Level
<1>1. Init => Level
  <2> SUFFICES ASSUME Init PROVE Level
    OBVIOUS
  <2>1. server.securityLevel = 0 /\ inbox = None
    BY NodeStarts DEF Init, InitChannel
  <2> QED
    BY <2>1, EmptyMessage DEF Level
<1> QED
  BY <1>1, LevelKept, CoreHolds, PTL DEF Spec

\* A zero seed, on which the updater leaves the key out, is only ever answered while the
\* application is unlocked.
THEOREM TokenSkipped == Spec => TokenSkippedOnlyWhenUnlocked
<1> DEFINE seed == <<"0x27", "seed">>
<1>1. ASSUME Core, Level, [Next]_vars, inbox.service = seed, serving'.service = inbox.service,
             serving'.code = "OK", serving'.number = M!ZeroSeed
      PROVE  sec.unlocked
  <2>1. ~ Empty(inbox) /\ inbox.service[1] = "0x27" /\ inbox \in Messages
    BY <1>1 DEF Empty, NoService, Core, ChannelTypes
  <2>2. serving.service # seed
    <3>1. Empty(serving)
      BY <1>1, <2>1 DEF Level
    <3> QED
      BY <3>1 DEF Empty, NoService
  <2>3. None.service # seed
    BY DEF None, NoService
  <2>4. Takes
    <3>1. ~ Gateway
      BY <1>1, <2>2, GatewaySends
    <3>2. ~ Answers /\ ~ NodeRestarts /\ ~ NodeGoesOn /\ ~ UNCHANGED vars
      BY <1>1, <2>2, <2>3 DEF Answers, NodeRestarts, NodeGoesOn, channelVars, vars
    <3> QED
      BY <1>1, <3>1, <3>2 DEF Next
  <2>5. Handle(inbox) /\ serving' = AnswerTo(inbox, reply')
    BY <2>4 DEF Takes
  <2>6. U!RequestSeed
    <3>1. M!RequestSeed
      BY <1>1, <2>5 DEF Handle
    <3> QED
      BY <3>1, Same_RequestSeed
  <2>7. serving'.code = reply'.code /\ serving'.number = reply'.seed
    BY <1>1, <2>1, <2>5 DEF AnswerTo, Messages
  <2>8. reply'.code = "OK" /\ reply'.seed = 0
    BY <1>1, <2>7 DEF M!ZeroSeed
  <2>9. server.securityLevel = 1
    BY <1>1, <2>6, <2>8, SeedServed DEF Core
  <2> QED
    BY <1>1, <2>9 DEF Level
<1>2. Core /\ Level /\ [Next]_vars =>
        [inbox.service = <<"0x27", "seed">> /\ serving'.service = inbox.service /\
         serving'.code = "OK" /\ serving'.number = M!ZeroSeed => sec.unlocked]_vars
  BY <1>1
<1> QED
  BY <1>2, CoreHolds, LevelHolds, PTL DEF Spec, TokenSkippedOnlyWhenUnlocked

----------------------------------------------------------------------------
(* What each request does to the transfer *)

DownloadMove(m) ==
  /\ m.service = <<"0x34", "download">> /\ flash' = flash
  /\ \/ reply'.code # "OK" /\ TransferKept
     \/ /\ reply'.code = "OK" /\ ~ server.xferIsActive /\ server'.xferIsActive
        /\ session'.state = "TRANSFERRING" /\ session'.target = session.target
        /\ session'.received = 0 /\ session'.size = m.size
        /\ session.target \in M!D!Slots
        /\ \A off \in M!D!UnitOffsets : flash[session.target][off] = Erased

BlockMove(m) ==
  /\ m.service = <<"0x36", "block">>
  /\ \/ reply'.code # "OK" /\ ~ server'.xferIsActive /\ UNCHANGED <<flash, session>>
     \/ /\ reply'.code # "OK" /\ ~ server'.xferIsActive
        /\ session.state = "TRANSFERRING" /\ session'.state = "TRANSFERRING"
        /\ server.xferIsActive
     \/ /\ reply'.code = "OK" /\ server'.xferIsActive
        /\ session.state = "TRANSFERRING" /\ session'.state = "TRANSFERRING"
        /\ server.xferIsActive
        /\ session.target \in M!D!Slots
        /\ session'.target = session.target /\ session'.size = session.size
        /\ session'.received = session.received + m.size
        /\ \A off \in M!D!UnitOffsets :
             flash'[session.target][off]
               = IF session.received <= off /\ off < session.received + m.size
                 THEN m.data[off - session.received] ELSE flash[session.target][off]

ExitMove(m) ==
  /\ m.service = <<"0x37", "exit">> /\ flash' = flash
  /\ ~ server'.xferIsActive
  /\ session'.state \in {session.state, "COMPLETE"}
  /\ reply'.code = "OK" => /\ server.xferIsActive /\ session.state = "TRANSFERRING"
                           /\ session.received = session.size

QuietMove(m) ==
  /\ TransferKept
  /\ m.service[1] \in {"0x22", "0x10", "0x11", "0x27", "0x31", "0x3E"}
  /\ m.service = <<"0x3E", "tester">> => reply'.code = "OK"
  /\ m.service = <<"0x31", "results">> /\ reply'.code = "OK" => session.state # "PREPARING"

StartMove(m) ==
  m.service = <<"0x31", "start">> /\ flash' = flash /\ server'.xferIsActive = server.xferIsActive

LEMMA TransferMoves ==
  ASSUME NodeInv, NEW m \in Messages, Requests(m), Handle(m)
  PROVE  DownloadMove(m) \/ BlockMove(m) \/ ExitMove(m) \/ QuietMove(m) \/ StartMove(m)
<1> DEFINE block == [length |-> m.size, data |-> m.data]
<1>1. m.service \in Services
  BY DEF Messages
<1>2. ASSUME U!TransferDataTaken(m.number, block), m.service = <<"0x36", "block">>
      PROVE  BlockMove(m)
  <2>1. m.size \in Lengths /\ m.data \in [M!D!UnitsOf(m.size) -> Data \cup {Erased}]
    BY <1>2 DEF Requests
  <2> QED
    BY <1>2, <2>1, BlockTaken DEF BlockMove
<1>3. ASSUME U!RequestDownload(m.size), m.service = <<"0x34", "download">>
      PROVE  DownloadMove(m)
  <2>1. m.size \in Sizes
    BY <1>3 DEF Requests
  <2> QED
    BY <1>3, <2>1, DownloadServed DEF DownloadMove
<1>4. ASSUME U!TransferDataRefused(m.number, m.size), m.service = <<"0x36", "block">>
      PROVE  BlockMove(m)
  BY <1>4, BlockRefused DEF BlockMove
<1>5. ASSUME U!RequestTransferExit, m.service = <<"0x37", "exit">>
      PROVE  ExitMove(m)
  BY <1>5, ExitServed DEF ExitMove
<1>6. ASSUME U!StartEraseMemory, m.service = <<"0x31", "start">>
      PROVE  StartMove(m)
  BY <1>6, StartServed DEF StartMove
<1>7. ASSUME \/ m.service[1] = "0x22" /\ U!OtherRequest
             \/ m.service = <<"0x3E", "tester">> /\ U!OtherRequest
             \/ m.service = <<"0x10", "PRGS">> /\ U!DiagnosticSessionControl("PRGS")
             \/ m.service = <<"0x11", "HR">> /\ U!EcuReset("HR")
             \/ m.service = <<"0x27", "seed">> /\ U!RequestSeed
             \/ m.service = <<"0x27", "key">> /\ U!SendKey(m.number)
             \/ m.service = <<"0x31", "results">> /\ U!EraseMemoryResults
      PROVE  QuietMove(m)
  <2>1. TransferKept
    BY <1>7, OtherServed, SessionServed, ResetServed, SeedServed, KeyServed, ResultsServed
  <2>2. m.service[1] \in {"0x22", "0x10", "0x11", "0x27", "0x31", "0x3E"}
    BY <1>7
  <2>3. m.service = <<"0x3E", "tester">> => U!OtherRequest
    BY <1>7
  <2>4. m.service = <<"0x31", "results">> => U!EraseMemoryResults
    BY <1>7
  <2> QED
    BY <2>1, <2>2, <2>3, <2>4, OtherServed, ResultsServed DEF QuietMove
<1> HIDE DEF block
<1>8. \/ m.service[1] = "0x22" /\ U!OtherRequest
      \/ m.service = <<"0x3E", "tester">> /\ U!OtherRequest
      \/ m.service = <<"0x10", "PRGS">> /\ U!DiagnosticSessionControl("PRGS")
      \/ m.service = <<"0x11", "HR">> /\ U!EcuReset("HR")
      \/ m.service = <<"0x27", "seed">> /\ U!RequestSeed
      \/ m.service = <<"0x27", "key">> /\ U!SendKey(m.number)
      \/ m.service = <<"0x31", "start">> /\ U!StartEraseMemory
      \/ m.service = <<"0x31", "results">> /\ U!EraseMemoryResults
      \/ m.service = <<"0x34", "download">> /\ U!RequestDownload(m.size)
      \/ m.service = <<"0x36", "block">> /\ U!TransferDataRefused(m.number, m.size)
      \/ m.service = <<"0x36", "block">> /\ U!TransferDataTaken(m.number, block)
      \/ m.service = <<"0x37", "exit">> /\ U!RequestTransferExit
  BY <1>1, HandlerOf, Zenon DEF block
<1> QED
  BY <1>2, <1>3, <1>4, <1>5, <1>6, <1>7, <1>8, Zenon

----------------------------------------------------------------------------
(* The transfer of the library outlives the one of the job only when the job was cut off *)

\* A refusal is on its way.
Declined ==
  \/ ~ Empty(serving) /\ serving.code # "OK"
  \/ \E i \in DOMAIN answers : answers[i].code # "OK"

Stranded ==
  /\ StrandedOnlyByCutTransfer
  /\ ~ Empty(inbox) /\ inbox.service[1] = "0x34" => cut \/ (gw.step = "download" /\ ~ Empty(call))
  /\ gw.step = "download" /\ server.xferIsActive /\ ~ cut =>
       ~ Empty(call) /\ Empty(inbox) /\ ~ Declined
  /\ gw.step = "block" /\ Declined => ~ server.xferIsActive
  /\ gw.step = "tester" => ~ Declined
  /\ gw.step = "exit" /\ (~ Empty(serving) \/ answers # <<>>) => ~ server.xferIsActive

LEMMA StrandedTakes ==
  ASSUME Core, Stranded, Takes
  PROVE  Stranded'
<1>1. /\ ~ Empty(inbox) /\ Handle(inbox) /\ inbox' = None
      /\ call' = call /\ answers' = answers /\ gw' = gw /\ cut' = cut
  BY DEF Takes
<1>2. /\ NodeInv /\ ChannelTypes /\ QueueInOrder /\ OwnAnswers /\ Lingering /\ Requests(inbox)
      /\ inbox \in Messages
  BY <1>1 DEF Core, ChannelTypes, Requested
<1>3. serving'.code = reply'.code
  BY TakesKeeps
<1>4. DownloadMove(inbox) \/ BlockMove(inbox) \/ ExitMove(inbox) \/ QuietMove(inbox)
        \/ StartMove(inbox)
  BY <1>1, <1>2, TransferMoves
<1>5. Empty(inbox')
  BY <1>1, EmptyMessage
<1>6. inbox.service[1] # "0x34" /\ server'.xferIsActive => server.xferIsActive
  <2>1. DownloadMove(inbox) => inbox.service[1] = "0x34"
    BY DEF DownloadMove
  <2>2. BlockMove(inbox) /\ server'.xferIsActive => server.xferIsActive
    BY DEF BlockMove
  <2>3. ExitMove(inbox) => ~ server'.xferIsActive
    BY DEF ExitMove
  <2>4. QuietMove(inbox) \/ StartMove(inbox) => server'.xferIsActive = server.xferIsActive
    BY DEF QuietMove, StartMove, TransferKept
  <2> QED
    BY <1>4, <2>1, <2>2, <2>3, <2>4
<1>7. gw.step \in Strict => /\ inbox = call /\ answers = <<>> /\ ~ Empty(call)
                            /\ inbox.service = StepService
  <2>1. SUFFICES ASSUME gw.step \in Strict
                 PROVE  /\ inbox = call /\ answers = <<>> /\ ~ Empty(call)
                        /\ inbox.service = StepService
    OBVIOUS
  <2>2. inbox = call /\ answers = <<>> /\ ~ Empty(call)
    BY <1>1, <1>2, <2>1, StrictPipe
  <2>3. call = StepRequest /\ Asking
    BY <2>2 DEF Core, Asked
  <2>4. StepRequest.service = StepService
    BY <2>3, AskedIs DEF Core, Job
  <2> QED
    BY <2>2, <2>3, <2>4
<1>8. InTransfer' = InTransfer
  BY <1>1 DEF InTransfer
<1>9. StrandedOnlyByCutTransfer'
  BY <1>1, <1>6, <1>8 DEF Stranded, StrandedOnlyByCutTransfer, InTransfer
<1>10. ASSUME gw.step \in Strict
       PROVE  Declined' <=> ~ Empty(serving') /\ reply'.code # "OK"
  <2>1. DOMAIN answers' = {}
    BY <1>1, <1>7, <1>10
  <2> QED
    BY <1>3, <2>1 DEF Declined, Empty
<1>11. CASE gw.step = "download"
  <2>1. inbox.service = <<"0x34", "download">> /\ ~ Empty(call)
    BY <1>7, <1>11 DEF StepService, Strict
  <2>2. DownloadMove(inbox)
    BY <1>4, <2>1 DEF BlockMove, ExitMove, QuietMove, StartMove
  <2>3. server'.xferIsActive /\ ~ cut => reply'.code = "OK"
    BY <1>1, <1>11, <2>2 DEF DownloadMove, TransferKept, Stranded
  <2> QED
    BY <1>1, <1>5, <1>9, <1>10, <1>11, <2>1, <2>3 DEF Stranded, Strict, Empty
<1>12. CASE gw.step = "block"
  <2>1. inbox.service = <<"0x36", "block">>
    BY <1>7, <1>12 DEF StepService, Strict
  <2>2. BlockMove(inbox)
    BY <1>4, <2>1 DEF DownloadMove, ExitMove, QuietMove, StartMove
  <2>3. reply'.code # "OK" => ~ server'.xferIsActive
    BY <2>2 DEF BlockMove
  <2> QED
    BY <1>1, <1>5, <1>9, <1>10, <1>12, <2>3 DEF Stranded, Strict, Empty
<1>13. CASE gw.step = "tester"
  <2>1. inbox.service = <<"0x3E", "tester">>
    BY <1>7, <1>13 DEF StepService, Strict
  <2>2. reply'.code = "OK"
    BY <1>4, <2>1 DEF DownloadMove, BlockMove, ExitMove, QuietMove, StartMove
  <2> QED
    BY <1>1, <1>5, <1>9, <1>10, <1>13, <2>2 DEF Stranded, Strict, Empty
<1>14. CASE gw.step = "exit"
  <2>1. inbox.service = <<"0x37", "exit">>
    BY <1>7, <1>14 DEF StepService, Strict
  <2>2. ~ server'.xferIsActive
    BY <1>4, <2>1 DEF DownloadMove, BlockMove, ExitMove, QuietMove, StartMove
  <2> QED
    BY <1>1, <1>5, <1>9, <1>14, <2>2 DEF Stranded, Empty
<1>15. CASE gw.step \notin {"download", "block", "tester", "exit"}
  BY <1>1, <1>5, <1>9, <1>15 DEF Stranded, Empty
<1> QED
  BY <1>11, <1>12, <1>13, <1>14, <1>15

\* The moves of a job on a result, and what they leave of the request.
LEMMA Onward ==
  ASSUME Core, SendFails \/ HearsAnswer \/ TimesOut, UNCHANGED nodeVars
  PROVE  /\ call' = None /\ inbox' = inbox /\ serving' = serving
         /\ \/ Ends /\ gw'.step = "idle" /\ (Hears \/ ~ gw'.confirmed)
            \/ gw.step = "snapshot" /\ gw'.step \in {"snapshot", "attempt", "session"}
            \/ gw.step = "results" /\ gw' = gw
            \/ ResetSent
            \/ /\ StepsOn /\ Hears /\ Head(answers).code = "OK" /\ answers' = <<>>
               /\ Empty(serving) /\ Empty(inbox)
<1>1. /\ call' = None /\ inbox' = inbox /\ serving' = serving
  BY DEF SendFails, HearsAnswer, TimesOut, GoesOn
<1>2. ASSUME ReadsAgain \/ (\E a : ReadsNext(a)) \/ ReadsTwice \/ OpensSession
      PROVE  gw.step = "snapshot" /\ gw'.step \in {"snapshot", "attempt", "session"}
  BY <1>2 DEF ReadsAgain, ReadsNext, ReadsTwice, OpensSession, Keeps, Fields
<1>3. ASSUME Ends PROVE gw'.step = "idle"
  BY <1>3, EndKeeps
<1>4. CASE SendFails
  BY <1>1, <1>2, <1>3, <1>4, SendFailsKeeps
<1>5. CASE TimesOut
  BY <1>1, <1>2, <1>3, <1>5, TimesOutKeeps
<1>6. CASE HearsAnswer
  <2> DEFINE h == Head(answers)
  <2>1. \/ Ends
        \/ ReadsAgain
        \/ gw.step = "results" /\ gw' = gw
        \/ ResetSent
        \/ Result(h) = "OK" /\ (ReadsNext(h) \/ ReadsTwice \/ OpensSession \/ StepsOn)
    BY <1>6, HeardMoves
  <2>2. Hears
    BY <1>6 DEF HearsAnswer
  <2>3. ASSUME StepsOn, Result(h) = "OK"
        PROVE  h.code = "OK" /\ answers' = <<>> /\ Empty(serving) /\ Empty(inbox)
    <3>1. gw.step \in Strict
      BY <2>3, StrictMoves
    <3>2. Tail(answers) = <<>> /\ Empty(serving) /\ Empty(inbox)
      BY <2>2, <3>1, HeardIs DEF Strict
    <3>3. answers' = <<>>
      BY <1>6, <3>2 DEF HearsAnswer, GoesOn, isotp_channel_close
    <3> QED
      BY <2>3, <3>2, <3>3 DEF Result
  <2> HIDE DEF h
  <2>4. ReadsNext(h) => \E a : ReadsNext(a)
    OBVIOUS
  <2> QED
    BY <1>1, <1>2, <1>3, <2>1, <2>2, <2>3, <2>4 DEF h
<1> QED
  BY <1>4, <1>5, <1>6

\* A refusal is heard only where one was on its way.
LEMMA RefusedIs ==
  ASSUME Core, Refused
  PROVE  Declined /\ Hears /\ (gw.step \in Strict => Empty(inbox)) /\ answers # <<>>
<1> DEFINE h == Head(answers)
<1>1. Hears /\ IsNrc(Result(h))
  BY DEF Refused
<1>2. answers # <<>> /\ (~ h.late => Empty(inbox)) /\ (h.late => gw.step = "snapshot")
  BY <1>1, HeardIs
<1>3. h.code # "OK"
  BY <1>1 DEF IsNrc, Errors, Result
<1>4. 1 \in DOMAIN answers /\ h = answers[1]
  BY <1>2, TailOf DEF Core, ChannelTypes
<1>5. Declined
  BY <1>3, <1>4 DEF Declined
<1> QED
  BY <1>1, <1>2, <1>5 DEF Strict

LEMMA StrandedJob ==
  ASSUME Core, Stranded, JobStep, UNCHANGED nodeVars,
         cut' = (cut \/ (InTransfer /\ gw'.step = "idle" /\ ~ Refused))
  PROVE  Stranded'
<1>1. server' = server /\ (cut => cut')
  BY DEF nodeVars
<1>2. CASE Asks
  <2> DEFINE waiting == IF inbox.late THEN None ELSE Belated(inbox)
  <2>1. /\ Empty(call) /\ Asking /\ gw' = gw /\ call' = StepRequest
        /\ inbox' = waiting \/ inbox' = StepRequest
    BY <1>2 DEF Asks, UDSSendRequest
  <2>2. GatewayTypes /\ Position /\ inbox \in Messages /\ serving \in Messages
    BY DEF Core, Job, ChannelTypes
  <2>3. ~ Empty(waiting) => ~ Empty(inbox) /\ waiting.service = inbox.service
    BY <2>2, BelatedMessage, EmptyMessage
  <2> HIDE DEF waiting
  <2>4. StepRequest.service = StepService /\ ~ Empty(StepRequest)
    BY <2>1, <2>2, AskedIs
  <2>5. gw.step # "download" => StepService[1] # "0x34"
    BY <2>1, <2>2 DEF GatewayTypes, Steps, StepService, Asking, Working
  <2>6. Core'
    BY <1>2, AsksKeeps
  <2>7. gw.step \in Strict => ~ Declined' /\ Empty(serving') /\ answers' = <<>>
    <3>1. SUFFICES ASSUME gw.step \in Strict
                   PROVE  ~ Declined' /\ Empty(serving') /\ answers' = <<>>
      OBVIOUS
    <3>2. Empty(serving) /\ answers = <<>>
      BY <2>1, <3>1, StrictPipe DEF Core
    <3>3. serving' = Belated(serving) /\ answers' = BelatedAll(Drained)
      BY <1>2 DEF Asks, UDSSendRequest
    <3>4. Empty(serving') /\ answers' = <<>>
      BY <2>2, <3>2, <3>3, BelatedMessage, DrainedAnswers, Sequences DEF Core, ChannelTypes
    <3>5. DOMAIN answers' = {}
      BY <3>4
    <3> QED
      BY <3>4, <3>5 DEF Declined, Empty
  <2>8. StrandedOnlyByCutTransfer'
    BY <1>1, <2>1 DEF Stranded, StrandedOnlyByCutTransfer, InTransfer
  <2>9. ~ Empty(inbox') /\ inbox'.service[1] = "0x34"
          => cut' \/ (gw'.step = "download" /\ ~ Empty(call'))
    BY <1>1, <2>1, <2>3, <2>4, <2>5 DEF Stranded, Empty
  <2>10. gw'.step = "download" /\ server'.xferIsActive => cut'
    BY <1>1, <2>1 DEF Stranded
  <2> QED
    BY <2>1, <2>7, <2>8, <2>9, <2>10 DEF Stranded, Strict, Empty
<1>3. CASE SendFails \/ HearsAnswer \/ TimesOut
  <2>1. call' = None /\ inbox' = inbox /\ serving' = serving
    BY <1>3, Onward
  <2>2. CASE gw'.step = "idle"
    <3>1. server.xferIsActive => cut'
      BY <2>2, RefusedIs DEF Stranded, StrandedOnlyByCutTransfer, InTransfer
    <3>2. ~ Empty(inbox) /\ inbox.service[1] = "0x34" => cut'
      <4>1. SUFFICES ASSUME gw.step = "download", ~ Empty(inbox) PROVE ~ Refused
        BY <1>1, <2>2 DEF Stranded, InTransfer
      <4> QED
        BY <4>1, RefusedIs DEF Strict
    <3> QED
      BY <1>1, <2>1, <2>2, <3>1, <3>2 DEF Stranded, StrandedOnlyByCutTransfer, Empty
  <2>3. CASE /\ gw'.step \notin {"download", "block", "tester", "exit"}
             /\ gw.step \notin {"download", "block", "tester", "exit"}
    BY <1>1, <2>1, <2>3 DEF Stranded, StrandedOnlyByCutTransfer, InTransfer, Empty
  <2>4. CASE /\ StepsOn /\ Hears /\ answers' = <<>> /\ Empty(serving) /\ Empty(inbox)
    <3>1. ~ Declined' /\ Empty(serving') /\ Empty(inbox') /\ answers' = <<>>
      <4>1. DOMAIN answers' = {}
        BY <2>4
      <4> QED
        BY <2>1, <2>4, <4>1 DEF Declined, Empty
    <3>2. \/ gw.step = "results" /\ gw'.step = "download"
          \/ gw.step = "exit" /\ gw'.step = "reset"
          \/ gw'.step \in {"block", "exit"}
          \/ /\ gw'.step \notin {"download", "block", "tester", "exit"}
             /\ gw.step \notin {"download", "block", "tester", "exit"}
      BY <2>4 DEF StepsOn
    <3>3. CASE gw.step = "results" /\ gw'.step = "download"
      BY <1>1, <3>1, <3>3 DEF Stranded, StrandedOnlyByCutTransfer, InTransfer
    <3>4. CASE gw.step = "exit" /\ gw'.step = "reset"
      <4>1. ~ server.xferIsActive
        BY <2>4, <3>4 DEF Stranded, Hears
      <4> QED
        BY <1>1, <3>1, <3>4, <4>1 DEF Stranded, StrandedOnlyByCutTransfer, InTransfer
    <3>5. CASE gw'.step \in {"block", "exit"}
      BY <1>1, <3>1, <3>5 DEF Stranded, StrandedOnlyByCutTransfer, InTransfer
    <3>6. CASE /\ gw'.step \notin {"download", "block", "tester", "exit"}
               /\ gw.step \notin {"download", "block", "tester", "exit"}
      BY <1>1, <3>1, <3>6 DEF Stranded, StrandedOnlyByCutTransfer, InTransfer
    <3> QED
      BY <3>2, <3>3, <3>4, <3>5, <3>6
  <2>5. \/ gw'.step = "idle"
        \/ gw.step = "snapshot" /\ gw'.step \in {"snapshot", "attempt", "session"}
        \/ gw.step = "results" /\ gw' = gw
        \/ ResetSent
        \/ StepsOn /\ Hears /\ answers' = <<>> /\ Empty(serving) /\ Empty(inbox)
    BY <1>3, Onward
  <2> QED
    BY <2>2, <2>3, <2>4, <2>5 DEF ResetSent
<1>4. CASE Attempts \/ Reconnects
  <2>1. inbox' = inbox /\ call' = call /\ gw.step \notin {"download", "block", "tester", "exit"}
    BY <1>4 DEF Attempts, Reconnects
  <2>2. gw'.step \in {"idle", "snapshot"}
    <3>1. CASE Ends
      BY <3>1, EndKeeps
    <3>2. CASE gw' = [gw EXCEPT !.step = "snapshot"]
      BY <3>2 DEF Core, Job, GatewayTypes, Fields
    <3> QED
      BY <1>4, <3>1, <3>2, AttemptsKeeps
  <2> QED
    BY <1>1, <2>1, <2>2 DEF Stranded, StrandedOnlyByCutTransfer, InTransfer, Empty
<1> QED
  BY <1>2, <1>3, <1>4 DEF JobStep

LEMMA StrandedKept == Core /\ Stranded /\ [Next]_vars => Stranded'
<1> SUFFICES ASSUME Core, Stranded, [Next]_vars PROVE Stranded'
  OBVIOUS
<1>1. CASE Takes
  BY <1>1, StrandedTakes
<1>2. CASE Answers
  <2>1. /\ server'.xferIsActive = server.xferIsActive /\ Empty(serving') /\ ~ Empty(serving)
        /\ answers' = answers \/ answers' = Append(answers, serving)
    BY <1>2, AnswersKeeps DEF TransferKept
  <2>2. gw' = gw /\ cut' = cut /\ call' = call /\ inbox' = inbox
    BY <1>2 DEF Answers
  <2>3. Declined' => Declined
    <3>1. SUFFICES ASSUME NEW i \in DOMAIN answers', answers'[i].code # "OK" PROVE Declined
      BY <2>1 DEF Declined, Empty
    <3>2. CASE answers' = answers
      BY <3>1, <3>2 DEF Declined
    <3>3. CASE answers' = Append(answers, serving)
      <4>1. answers \in Seq(Messages) /\ serving \in Messages
        BY DEF Core, ChannelTypes
      <4>2. /\ \A j \in DOMAIN answers : answers'[j] = answers[j]
            /\ answers'[Len(answers) + 1] = serving
            /\ DOMAIN answers' = 1 .. Len(answers) + 1
        BY <3>3, <4>1, AppendOf
      <4>3. i \in DOMAIN answers \/ i = Len(answers) + 1
        BY <3>1, <4>1, <4>2, Sequences
      <4> QED
        BY <2>1, <3>1, <4>2, <4>3 DEF Declined
    <3> QED
      BY <2>1, <3>2, <3>3
  <2> QED
    BY <2>1, <2>2, <2>3 DEF Stranded, StrandedOnlyByCutTransfer, InTransfer, Empty
<1>3. CASE NodeGoesOn
  <2>1. /\ server'.xferIsActive = server.xferIsActive /\ UNCHANGED channelVars
        /\ gw' = gw /\ cut' = cut
    BY <1>3, NodeAlone DEF NodeGoesOn, Core
  <2> QED
    BY <2>1 DEF channelVars, Stranded, StrandedOnlyByCutTransfer, InTransfer, Declined, Empty
<1>4. CASE NodeRestarts
  <2>1. /\ ~ server'.xferIsActive /\ inbox' = None /\ serving' = None /\ answers' = answers
        /\ gw' = gw \/ (gw' = [gw EXCEPT !.slow = TRUE] /\ gw.step = "snapshot")
    BY <1>4, Restarted DEF NodeRestarts, NodeWasAway, Core
  <2>2. gw'.step = gw.step
    BY <2>1 DEF Core, Job, GatewayTypes, Fields
  <2>3. Empty(inbox') /\ Empty(serving')
    BY <2>1, EmptyMessage
  <2>4. Declined' => Declined
    BY <2>1, <2>3 DEF Declined, Empty
  <2> QED
    BY <2>1, <2>2, <2>3, <2>4 DEF Stranded, StrandedOnlyByCutTransfer, InTransfer, Empty
<1>5. CASE Gateway
  <2>1. UNCHANGED nodeVars /\ server' = server
    BY <1>5, GatewayMoves DEF nodeVars
  <2>2. CASE StartJob /\ UNCHANGED cut
    <3>1. /\ call' = call /\ inbox' = inbox /\ gw.step = "idle"
      BY <2>2 DEF StartJob, Working
    <3>2. gw'.step = "snapshot"
      BY <2>2 DEF StartJob, IdleGateway
    <3> QED
      BY <2>1, <2>2, <3>1, <3>2 DEF Stranded, StrandedOnlyByCutTransfer, InTransfer, Empty
  <2>3. CASE TesterPresentDue /\ UNCHANGED cut
    <3>1. /\ gw.step = "block" /\ Empty(call) /\ gw' = [gw EXCEPT !.step = "tester"]
          /\ UNCHANGED channelVars
      BY <2>3 DEF TesterPresentDue
    <3>2. gw'.step = "tester"
      BY <3>1 DEF Core, Job, GatewayTypes, Fields
    <3>3. Empty(inbox) /\ Empty(serving) /\ answers = <<>>
      BY <3>1, StrictPipe DEF Core, Strict
    <3>4. DOMAIN answers' = {} /\ Empty(inbox') /\ Empty(serving')
      BY <3>1, <3>3 DEF channelVars, Empty
    <3> QED
      BY <2>1, <2>3, <3>2, <3>4
      DEF Stranded, StrandedOnlyByCutTransfer, InTransfer, Declined, Empty
  <2>4. CASE JobStep /\ cut' = (cut \/ (InTransfer /\ gw'.step = "idle" /\ ~ Refused))
    BY <2>1, <2>4, StrandedJob
  <2>5. CASE update_watchdog_expired /\ cut' = (cut \/ InTransfer)
    <3>1. inbox' = inbox
      BY <2>5 DEF update_watchdog_expired
    <3>2. gw'.step = "idle"
      BY <2>1, <2>5, ExpiryKeeps, EndKeeps
    <3> QED
      BY <2>1, <2>5, <3>1, <3>2 DEF Stranded, StrandedOnlyByCutTransfer, InTransfer, Empty
  <2> QED
    BY <1>5, <2>2, <2>3, <2>4, <2>5, GatewayMoves
<1>6. CASE UNCHANGED vars
  BY <1>6
  DEF vars, nodeVars, channelVars, Stranded, StrandedOnlyByCutTransfer, InTransfer, Declined, Empty
<1> QED
  BY <1>1, <1>2, <1>3, <1>4, <1>5, <1>6, Zenon DEF Next

\* Only a job that was cut off in its transfer leaves the library in one.
THEOREM StrandedByCut == Spec => []StrandedOnlyByCutTransfer
<1>1. Init => Stranded
  <2> SUFFICES ASSUME Init PROVE Stranded
    OBVIOUS
  <2>1. ~ server.xferIsActive /\ inbox = None /\ gw = IdleGateway
    BY NodeStarts DEF Init, InitChannel
  <2>2. gw.step = "idle" /\ Empty(inbox)
    BY <2>1, EmptyMessage DEF IdleGateway
  <2> QED
    BY <2>1, <2>2 DEF Stranded, StrandedOnlyByCutTransfer
<1>2. Stranded => StrandedOnlyByCutTransfer
  BY DEF Stranded
<1> QED
  BY <1>1, <1>2, StrandedKept, CoreHolds, PTL DEF Spec

----------------------------------------------------------------------------
(* What a snapshot has read *)

\* What an answer says of the image that runs.
TrueReading(m) ==
  /\ alive
  /\ m.service = <<"0x22", DIDs[2]>> => m.number = activeSlot
  /\ m.service = <<"0x22", DIDs[3]>> => m.data = RunningImageVersion

\* What a snapshot has read, and what is on its way to it, is still so, unless a restart of the
\* node has made it too slow to count.
SnapshotIsTrue ==
  gw.step = "snapshot" /\ gw.slow = FALSE =>
    /\ gw.did > 2 => alive /\ gw.seen.slot = activeSlot
    /\ gw.did > 3 => gw.seen.version = RunningImageVersion
    /\ ~ Empty(call) =>
         /\ \A i \in DOMAIN answers : ~ answers[i].late => TrueReading(answers[i])
         /\ ~ Empty(serving) /\ ~ serving.late => TrueReading(serving)

LEMMA ImageStays ==
  ASSUME NodeInv, UNCHANGED <<running, activeSlot, alive>>, flash'[running] = flash[running]
  PROVE  /\ alive' = alive /\ activeSlot' = activeSlot
         /\ alive => RunningImageVersion' = RunningImageVersion
<1>1. alive => activeSlot = running
  BY NodeStates
<1> QED
  BY <1>1 DEF RunningImageVersion

\* A step of the node that leaves the image and the job.
LEMMA SnapshotStays ==
  ASSUME Core, SnapshotIsTrue, UNCHANGED <<running, activeSlot, alive>>,
         flash'[running] = flash[running], gw' = gw, call' = call,
         \A i \in DOMAIN answers' : \/ i \in DOMAIN answers /\ answers'[i] = answers[i]
                                    \/ answers'[i] = serving /\ ~ Empty(serving),
         \/ serving' = serving \/ Empty(serving')
         \/ TrueReading(serving')
  PROVE  SnapshotIsTrue'
<1>1. /\ alive' = alive /\ activeSlot' = activeSlot
      /\ alive => RunningImageVersion' = RunningImageVersion
  BY ImageStays DEF Core
<1>2. \A m : TrueReading(m) =>
        /\ alive'
        /\ m.service = <<"0x22", DIDs[2]>> => m.number = activeSlot'
        /\ m.service = <<"0x22", DIDs[3]>> => m.data = RunningImageVersion'
  <2> SUFFICES ASSUME NEW m, TrueReading(m)
               PROVE  /\ alive'
                      /\ m.service = <<"0x22", DIDs[2]>> => m.number = activeSlot'
                      /\ m.service = <<"0x22", DIDs[3]>> => m.data = RunningImageVersion'
    OBVIOUS
  <2>1. /\ alive
        /\ m.service = <<"0x22", DIDs[2]>> => m.number = activeSlot
        /\ m.service = <<"0x22", DIDs[3]>> => m.data = RunningImageVersion
    BY DEF TrueReading
  <2>2. RunningImageVersion' = RunningImageVersion
    BY <1>1, <2>1
  <2> QED
    BY <1>1, <2>1, <2>2
<1>3. SUFFICES ASSUME gw.step = "snapshot", gw.slow = FALSE
               PROVE  /\ gw.did > 2 => alive' /\ gw.seen.slot = activeSlot'
                      /\ gw.did > 3 => gw.seen.version = RunningImageVersion'
                      /\ ~ Empty(call) =>
                           /\ \A i \in DOMAIN answers' :
                                ~ answers'[i].late => (TrueReading(answers[i]))'
                           /\ ~ Empty(serving') /\ ~ serving'.late => TrueReading(serving)'
  BY DEF SnapshotIsTrue, Empty
<1>4. gw.did \in 1 .. 4
  BY DEF Core, Job, GatewayTypes
<1>5. /\ gw.did > 2 => alive' /\ gw.seen.slot = activeSlot'
      /\ gw.did > 3 => gw.seen.version = RunningImageVersion'
  BY <1>1, <1>3, <1>4 DEF SnapshotIsTrue
<1>6. ASSUME ~ Empty(call), NEW i \in DOMAIN answers', ~ answers'[i].late
      PROVE  (TrueReading(answers[i]))'
  <2>1. TrueReading(answers'[i])
    <3>1. CASE i \in DOMAIN answers /\ answers'[i] = answers[i]
      <4>1. TrueReading(answers[i])
        BY <1>3, <1>6, <3>1 DEF SnapshotIsTrue
      <4> QED
        BY <3>1, <4>1 DEF TrueReading
    <3>2. CASE answers'[i] = serving /\ ~ Empty(serving)
      <4>1. TrueReading(serving)
        BY <1>3, <1>6, <3>2 DEF SnapshotIsTrue
      <4> QED
        BY <3>2, <4>1 DEF TrueReading
    <3> QED
      BY <3>1, <3>2
  <2> QED
    BY <1>2, <2>1 DEF TrueReading
<1>7. ASSUME ~ Empty(call), ~ Empty(serving'), ~ serving'.late
      PROVE  TrueReading(serving)'
  <2>1. TrueReading(serving')
    <3>1. CASE serving' = serving
      <4>1. TrueReading(serving)
        BY <1>3, <1>7, <3>1 DEF SnapshotIsTrue
      <4> QED
        BY <3>1, <4>1 DEF TrueReading
    <3> QED
      BY <1>7, <3>1 DEF Empty
  <2> QED
    BY <1>2, <2>1 DEF TrueReading
<1> QED
  BY <1>5, <1>6, <1>7

LEMMA SnapshotTakes ==
  ASSUME Core, SnapshotIsTrue, Takes
  PROVE  SnapshotIsTrue'
<1>1. /\ ~ Empty(inbox) /\ Handle(inbox) /\ serving' = AnswerTo(inbox, reply')
      /\ gw' = gw /\ call' = call /\ answers' = answers
  BY DEF Takes
<1>2. inbox \in Messages /\ Requests(inbox) /\ NodeInv
  BY <1>1 DEF Core, ChannelTypes, Requested
<1>3. /\ Served /\ UNCHANGED <<running, activeSlot, alive>> /\ flash'[running] = flash[running]
  BY <1>1, <1>2, Handled
<1>4. alive
  BY <1>3 DEF Served
<1>5. TrueReading(serving')
  <2> DEFINE s == inbox.service
  <2>1. serving'.service = s
    BY <1>2, <1>3, <1>4, <1>1, AnswerIs DEF Served
  <2>2. s = <<"0x22", "ACTIVE_SLOT">> => serving'.number = activeSlot
    BY <1>1, <1>2 DEF AnswerTo, Messages
  <2>3. s = <<"0x22", "APP_VERSION">> => serving'.data = RunningImageVersion
    BY <1>1, <1>2 DEF AnswerTo, Messages
  <2> QED
    BY <1>4, <2>1, <2>2, <2>3, Names DEF TrueReading
<1> QED
  BY <1>1, <1>3, <1>5, SnapshotStays

LEMMA SnapshotRestarts ==
  ASSUME Core, SnapshotIsTrue, NodeRestarts
  PROVE  SnapshotIsTrue'
<1>1. NodeWasAway /\ call' = call
  BY DEF NodeRestarts
<1>2. GatewayTypes
  BY DEF Core, Job
<1>3. CASE gw.step = "snapshot" /\ (gw.did > 1 \/ ~ Empty(call))
  <2>1. gw'.slow = TRUE
    BY <1>1, <1>2, <1>3 DEF NodeWasAway, GatewayTypes, Fields
  <2> QED
    BY <2>1 DEF SnapshotIsTrue
<1>4. CASE ~ (gw.step = "snapshot" /\ (gw.did > 1 \/ ~ Empty(call)))
  <2>1. gw' = gw /\ gw.did \in 1 .. 4
    BY <1>1, <1>2, <1>4 DEF NodeWasAway, GatewayTypes
  <2> QED
    BY <1>1, <1>4, <2>1 DEF SnapshotIsTrue, Empty
<1> QED
  BY <1>3, <1>4

\* A snapshot that begins has read nothing.
LEMMA SnapshotBegins ==
  ASSUME gw'.step # "snapshot" \/ gw'.did = 1, Empty(call')
  PROVE  SnapshotIsTrue'
BY DEF SnapshotIsTrue, Empty

LEMMA SnapshotHears ==
  ASSUME Core, SnapshotIsTrue, HearsAnswer, UNCHANGED nodeVars
  PROVE  SnapshotIsTrue'
<1> DEFINE h == Head(answers)
<1>1. Hears /\ call' = None /\ Empty(call')
  BY EmptyMessage DEF HearsAnswer, GoesOn
<1>2. \/ Ends
      \/ ReadsAgain
      \/ gw.step = "results" /\ gw' = gw
      \/ ResetSent
      \/ Result(h) = "OK" /\ (ReadsNext(h) \/ ReadsTwice \/ OpensSession \/ StepsOn)
  BY HeardMoves
<1>3. CASE Ends
  <2>1. gw'.step = "idle"
    BY <1>3, EndKeeps
  <2> QED
    BY <1>1, <2>1, SnapshotBegins
<1>4. CASE ReadsAgain \/ ResetSent \/ ReadsTwice \/ OpensSession
  BY <1>1, <1>4, SnapshotBegins DEF ReadsAgain, ResetSent, ReadsTwice, OpensSession
<1>5. CASE gw.step = "results" /\ gw' = gw
  BY <1>1, <1>5, SnapshotBegins
<1>6. CASE StepsOn
  <2>1. gw'.step # "snapshot"
    BY <1>6 DEF StepsOn
  <2> QED
    BY <1>1, <2>1, SnapshotBegins
<1>7. CASE ReadsNext(h) /\ Result(h) = "OK"
  <2>1. /\ gw.step = "snapshot" /\ gw.did \in 1 .. 3 /\ gw'.did = gw.did + 1
        /\ gw'.seen = SeenNow(h) /\ gw'.slow = gw.slow
    BY <1>7 DEF ReadsNext, Keeps, Fields, Core, Job, GatewayTypes
  <2>2. SUFFICES ASSUME gw.slow = FALSE, gw.did > 1
                 PROVE  /\ alive /\ gw'.seen.slot = activeSlot
                        /\ gw.did > 2 => gw'.seen.version = RunningImageVersion
    <3>1. /\ alive' = alive /\ activeSlot' = activeSlot
          /\ RunningImageVersion' = RunningImageVersion
      BY DEF nodeVars, RunningImageVersion
    <3>2. /\ gw'.did > 2 => gw.did > 1
          /\ gw'.did > 3 => gw.did > 2 /\ gw.did > 1
      BY <2>1
    <3>3. gw'.did > 2 /\ gw.slow = FALSE => alive /\ gw'.seen.slot = activeSlot
      BY <2>2, <3>2
    <3>4. gw'.did > 3 /\ gw.slow = FALSE => gw'.seen.version = RunningImageVersion
      BY <2>2, <3>2
    <3> HIDE DEF h
    <3> QED
      BY <1>1, <2>1, <3>1, <3>3, <3>4 DEF SnapshotIsTrue, Empty
  <2>3. /\ ~ h.late /\ h.service = call.service /\ call.service = StepService
        /\ answers # <<>>
    BY <1>1, <1>7, <2>1, <2>2, HeardIs
  <2>4. h = answers[1] /\ 1 \in DOMAIN answers
    BY <2>3, TailOf DEF Core, ChannelTypes
  <2>5. TrueReading(h)
    BY <1>1, <2>1, <2>2, <2>3, <2>4 DEF SnapshotIsTrue, Hears
  <2>6. h.service = <<"0x22", DIDs[gw.did]>>
    BY <2>1, <2>3 DEF StepService
  <2> HIDE DEF h
  <2>7. DOMAIN gw.seen = {"slot", "version", "confirmed"}
    BY DEF Core, Job, GatewayTypes
  <2>8. CASE gw.did = 2
    <3>1. gw'.seen = [gw.seen EXCEPT !.slot = h.number] /\ h.number = activeSlot
      BY <2>1, <2>5, <2>6, <2>8, Names DEF SeenNow, TrueReading
    <3> QED
      BY <2>5, <2>7, <2>8, <3>1 DEF TrueReading
  <2>9. CASE gw.did = 3
    <3>1. gw'.seen = [gw.seen EXCEPT !.version = h.data] /\ h.data = RunningImageVersion
      BY <2>1, <2>5, <2>6, <2>9, Names DEF SeenNow, TrueReading
    <3>2. gw.seen.slot = activeSlot
      BY <2>1, <2>2, <2>9 DEF SnapshotIsTrue
    <3> QED
      BY <2>5, <2>7, <2>9, <3>1, <3>2 DEF TrueReading
  <2> QED
    BY <2>1, <2>2, <2>8, <2>9
<1> QED
  BY <1>2, <1>3, <1>4, <1>5, <1>6, <1>7

LEMMA SnapshotGateway ==
  ASSUME Core, SnapshotIsTrue, Gateway
  PROVE  SnapshotIsTrue'
<1>1. UNCHANGED nodeVars
  BY GatewayMoves
<1>2. GatewayTypes /\ Position
  BY DEF Core, Job
<1>3. CASE StartJob
  <2>1. gw'.did = 1
    BY <1>3 DEF StartJob, IdleGateway
  <2>2. Empty(call')
    BY <1>3 DEF StartJob, Core, Asked, Empty
  <2> QED
    BY <2>1, <2>2, SnapshotBegins
<1>4. CASE TesterPresentDue
  <2>1. gw'.step = "tester" /\ Empty(call')
    BY <1>2, <1>4 DEF TesterPresentDue, GatewayTypes, Fields, channelVars, Empty
  <2> QED
    BY <2>1, SnapshotBegins
<1>5. CASE Asks
  <2>1. /\ Empty(call) /\ Asking /\ gw' = gw
        /\ serving' = Belated(serving) /\ answers' = BelatedAll(Drained)
    BY <1>5 DEF Asks, UDSSendRequest
  <2>2. \A i \in DOMAIN answers' : answers'[i].late
    BY <2>1, DrainedQueue DEF Core
  <2>3. Empty(serving') \/ serving'.late
    BY <2>1, BelatedMessage DEF Core, ChannelTypes
  <2>4. /\ alive' = alive /\ activeSlot' = activeSlot
        /\ RunningImageVersion' = RunningImageVersion
    BY <1>1 DEF nodeVars, RunningImageVersion
  <2> QED
    BY <2>1, <2>2, <2>3, <2>4 DEF SnapshotIsTrue, Empty
<1>6. CASE SendFails \/ TimesOut
  <2>1. Ends \/ ReadsAgain \/ ResetSent
    BY <1>1, <1>6, SendFailsKeeps, TimesOutKeeps
  <2>2. Empty(call')
    BY <1>6, EmptyMessage DEF SendFails, TimesOut, GoesOn
  <2>3. gw'.step # "snapshot" \/ gw'.did = 1
    BY <2>1, EndKeeps DEF ReadsAgain, ResetSent
  <2> QED
    BY <2>2, <2>3, SnapshotBegins
<1>7. CASE HearsAnswer
  BY <1>1, <1>7, SnapshotHears
<1>8. CASE Attempts \/ Reconnects
  <2>1. gw.step \in {"attempt", "reconnect"} /\ call' = call
    BY <1>8 DEF Attempts, Reconnects
  <2>2. Empty(call')
    BY <2>1 DEF Core, Asked, Asking, Empty
  <2>3. gw.did = 1
    BY <1>2, <2>1 DEF Position
  <2>4. Ends \/ gw' = [gw EXCEPT !.step = "snapshot"]
    BY <1>1, <1>8, AttemptsKeeps
  <2>5. gw'.step # "snapshot" \/ gw'.did = 1
    BY <1>2, <2>3, <2>4, EndKeeps DEF GatewayTypes, Fields
  <2> QED
    BY <2>2, <2>5, SnapshotBegins
<1>9. CASE update_watchdog_expired
  <2>1. Empty(call') /\ gw'.step = "idle"
    BY <1>1, <1>9, ExpiryKeeps, EndKeeps, EmptyMessage DEF update_watchdog_expired
  <2> QED
    BY <2>1, SnapshotBegins
<1> QED
  BY <1>3, <1>4, <1>5, <1>6, <1>7, <1>8, <1>9, GatewayMoves DEF JobStep

LEMMA SnapshotKept == Core /\ SnapshotIsTrue /\ [Next]_vars => SnapshotIsTrue'
<1> SUFFICES ASSUME Core, SnapshotIsTrue, [Next]_vars PROVE SnapshotIsTrue'
  OBVIOUS
<1>1. CASE Takes
  BY <1>1, SnapshotTakes
<1>2. CASE Answers
  <2>1. /\ TransferKept /\ ~ Empty(serving) /\ Empty(serving') /\ gw' = gw /\ call' = call
        /\ answers' = answers \/ answers' = Append(answers, serving)
    BY <1>2, AnswersKeeps DEF Answers
  <2>2. \A i \in DOMAIN answers' : \/ i \in DOMAIN answers /\ answers'[i] = answers[i]
                                   \/ answers'[i] = serving
    <3>1. answers \in Seq(Messages) /\ serving \in Messages
      BY DEF Core, ChannelTypes
    <3>2. CASE answers' = Append(answers, serving)
      <4>1. /\ \A j \in DOMAIN answers : answers'[j] = answers[j]
            /\ answers'[Len(answers) + 1] = serving
            /\ DOMAIN answers' = 1 .. Len(answers) + 1
            /\ DOMAIN answers = 1 .. Len(answers) /\ Len(answers) \in Nat
        BY <3>1, <3>2, AppendOf, Sequences
      <4> QED
        BY <4>1
    <3> QED
      BY <2>1, <3>2
  <2> QED
    BY <2>1, <2>2, SnapshotStays DEF TransferKept
<1>3. CASE NodeGoesOn
  <2>1. /\ UNCHANGED <<running, activeSlot, alive>> /\ flash'[running] = flash[running]
        /\ gw' = gw /\ UNCHANGED channelVars
    BY <1>3, NodeAlone DEF NodeGoesOn, Core
  <2> QED
    BY <2>1, SnapshotStays DEF channelVars
<1>4. CASE NodeRestarts
  BY <1>4, SnapshotRestarts
<1>5. CASE Gateway
  BY <1>5, SnapshotGateway
<1>6. CASE UNCHANGED vars
  BY <1>6, SnapshotStays DEF vars, nodeVars, channelVars
<1> QED
  BY <1>1, <1>2, <1>3, <1>4, <1>5, <1>6, Zenon DEF Next

\* Only the answer to the last read of a snapshot confirms an update.
LEMMA Confirming ==
  ASSUME Core, Next, Working, gw'.confirmed
  PROVE  HearsAnswer /\ Concludes(Head(answers)) /\ Result(Head(answers)) = "OK"
<1>1. GatewayTypes /\ gw.confirmed = FALSE /\ gw.confirmed \in BOOLEAN
  BY DEF Core, Job, GatewayTypes
<1>2. gw' # gw
  BY <1>1
<1>3. CASE Takes \/ Answers \/ NodeGoesOn
  BY <1>2, <1>3 DEF Takes, Answers, NodeGoesOn
<1>4. CASE NodeRestarts
  <2>1. gw' = [gw EXCEPT !.slow = TRUE]
    BY <1>2, <1>4 DEF NodeRestarts, NodeWasAway
  <2> QED
    BY <1>1, <2>1 DEF GatewayTypes, Fields
<1>5. CASE Gateway
  <2>1. UNCHANGED nodeVars
    BY <1>5, GatewayMoves
  <2>2. CASE StartJob \/ Asks
    BY <1>2, <2>2 DEF StartJob, Asks
  <2>3. CASE TesterPresentDue
    BY <1>1, <2>3 DEF TesterPresentDue, GatewayTypes, Fields
  <2>4. ASSUME ReadsAgain \/ ResetSent PROVE FALSE
    BY <1>1, <2>4 DEF ReadsAgain, ResetSent, Keeps, Fields
  <2>5. CASE SendFails \/ TimesOut
    BY <2>1, <2>4, <2>5, SendFailsKeeps, TimesOutKeeps
  <2>6. CASE Attempts \/ Reconnects
    <3>1. gw' = [gw EXCEPT !.step = "snapshot"]
      BY <2>1, <2>6, AttemptsKeeps
    <3> QED
      BY <1>1, <3>1 DEF GatewayTypes, Fields
  <2>7. CASE update_watchdog_expired
    BY <2>1, <2>7, ExpiryKeeps
  <2>8. CASE HearsAnswer
    <3> DEFINE h == Head(answers)
    <3>1. \/ Ends /\ (gw'.confirmed => Result(h) = "OK" /\ Concludes(h))
          \/ ReadsAgain
          \/ gw.step = "results" /\ gw' = gw
          \/ ResetSent
          \/ Result(h) = "OK" /\ (ReadsNext(h) \/ ReadsTwice \/ OpensSession \/ StepsOn)
      BY <2>8, HeardMoves
    <3> HIDE DEF h
    <3>2. ASSUME ReadsNext(h) \/ ReadsTwice \/ OpensSession \/ StepsOn PROVE FALSE
      BY <1>1, <3>2 DEF ReadsNext, ReadsTwice, OpensSession, StepsOn, Keeps, Fields
    <3> QED
      BY <1>2, <2>4, <2>8, <3>1, <3>2 DEF h
  <2> QED
    BY <1>5, <2>2, <2>3, <2>5, <2>6, <2>7, <2>8, GatewayMoves DEF JobStep
<1> QED
  BY <1>3, <1>4, <1>5, Zenon DEF Next

LEMMA ConfirmedThen ==
  ASSUME Core, SnapshotIsTrue, HearsAnswer, Concludes(Head(answers)),
         Result(Head(answers)) = "OK"
  PROVE  /\ Holds(gw.target, gw.package)
         /\ flash[gw.target][M!D!ConfirmOffset] = ConfirmField
<1> DEFINE h == Head(answers)
<1>1. /\ gw.step = "snapshot" /\ gw.did = 4 /\ gw.slow = FALSE
      /\ SeenNow(h).slot = gw.target /\ SeenNow(h).version = gw.package.image
  BY DEF Concludes
<1>2. DOMAIN gw.seen = {"slot", "version", "confirmed"}
  BY DEF Core, Job, GatewayTypes
<1>3. SeenNow(h) = [gw.seen EXCEPT !.confirmed = h.number = 1]
  BY <1>1, Names DEF SeenNow
<1> HIDE DEF h
<1>4. gw.seen.slot = gw.target /\ gw.seen.version = gw.package.image
  BY <1>1, <1>2, <1>3
<1>5. alive /\ gw.seen.slot = activeSlot /\ gw.seen.version = RunningImageVersion
  BY <1>1 DEF SnapshotIsTrue
<1>6. activeSlot = running /\ flash[running][M!D!ConfirmOffset] = ConfirmField
  BY <1>5, NodeStates DEF Core, NodeInv
<1> QED
  BY <1>4, <1>5, <1>6 DEF Holds, RunningImageVersion

\* CONFIRMED is reported only of a slot that holds the package's image, confirmed.
THEOREM ConfirmedInstalled == Spec => ConfirmedIsInstalled
<1>1. Init => SnapshotIsTrue
  <2> SUFFICES ASSUME Init PROVE SnapshotIsTrue
    OBVIOUS
  <2>1. gw.step = "idle"
    BY DEF Init, IdleGateway
  <2> QED
    BY <2>1 DEF SnapshotIsTrue
<1>2. Core /\ SnapshotIsTrue /\ [Next]_vars =>
        [Working /\ gw'.confirmed =>
           /\ Holds(gw.target, gw.package)
           /\ flash[gw.target][M!D!ConfirmOffset] = ConfirmField]_vars
  BY Confirming, ConfirmedThen
<1> QED
  BY <1>1, <1>2, SnapshotKept, CoreHolds, PTL DEF Spec, ConfirmedIsInstalled

----------------------------------------------------------------------------
(* How far the image is in the flash *)

\* The library and the application agree that a transfer goes on.
Filling == session.state = "TRANSFERRING" /\ server.xferIsActive

\* The bytes before received are the package's, and the rest is blank.
HoldsFirst(received) ==
  /\ session.received = received /\ session.size = gw.package.size
  /\ session.target \in M!D!Slots
  /\ \A off \in M!D!UnitOffsets :
       flash[session.target][off] = IF off < received THEN gw.package.image[off] ELSE Erased

InFlash == \E slot \in M!D!Slots : Holds(slot, gw.package)

\* No page is erased any more once the node has said so.
Prepared ==
  /\ gw.step = "results" /\ Accepted => session.state # "PREPARING"
  /\ gw.step \in {"download", "block", "tester", "exit", "reset", "reconnect"} =>
       session.state # "PREPARING"

\* While a transfer goes on, what it has programmed is what the job has sent, or a block more
\* whose answer is not heard yet.
Filled ==
  Filling =>
    /\ gw.step = "download" /\ Accepted => HoldsFirst(0)
    /\ gw.step \in {"block", "tester"} =>
         \/ ~ (gw.step = "block" /\ Accepted) /\ HoldsFirst(gw.offset)
         \/ /\ gw.step = "block" /\ ~ Empty(call) /\ Empty(inbox)
            /\ HoldsFirst(gw.offset + Chunk)
    /\ gw.step = "exit" => HoldsFirst(gw.offset)

Whole ==
  /\ gw.step = "exit" /\ Accepted => InFlash
  /\ gw.step \in {"reset", "reconnect"} => InFlash

Progress == Prepared /\ Filled /\ Whole

LEMMA NoProgress ==
  ASSUME gw'.step \notin {"results", "download", "block", "tester", "exit", "reset", "reconnect"}
  PROVE  Progress'
BY DEF Progress, Prepared, Filled, Whole

\* Nothing but the answers on their way has changed, and none is new.
LEMMA ProgressStays ==
  ASSUME Progress, UNCHANGED <<flash, session>>, server'.xferIsActive = server.xferIsActive,
         gw' = gw, call' = call, Empty(inbox) => Empty(inbox'), Accepted' => Accepted
  PROVE  Progress'
<1>1. /\ InFlash' = InFlash /\ Filling' = Filling /\ HoldsFirst(0)' = HoldsFirst(0)
      /\ HoldsFirst(gw.offset)' = HoldsFirst(gw.offset)
      /\ HoldsFirst(gw.offset + Chunk)' = HoldsFirst(gw.offset + Chunk)
  BY DEF InFlash, Holds, Filling, HoldsFirst, Chunk
<1>2. Prepared'
  BY DEF Progress, Prepared
<1>3. Filled'
  BY <1>1 DEF Progress, Filled, Empty
<1>4. Whole'
  BY <1>1 DEF Progress, Whole
<1> QED
  BY <1>2, <1>3, <1>4 DEF Progress

\* A whole image in the slot.
LEMMA WholeImage ==
  ASSUME NodeInv, GatewayTypes, Working, HoldsFirst(gw.package.size)
  PROVE  InFlash
<1> DEFINE slot == session.target
           image == gw.package.image
<1>1. /\ slot \in M!D!Slots /\ flash[slot] \in M!D!Areas
      /\ \A off \in M!D!UnitOffsets :
           flash[slot][off] = IF off < gw.package.size THEN image[off] ELSE Erased
  BY NodeStates DEF HoldsFirst
<1>2. /\ image \in [M!D!UnitOffsets -> Data \cup {Erased}]
      /\ image[M!D!ConfirmOffset] = Erased /\ gw.package.size \in Nat
      /\ \A off \in M!D!UnitOffsets : gw.package.size <= off => image[off] = Erased
  BY Packed
<1>3. \A off \in M!D!UnitOffsets : flash[slot][off] = image[off]
  BY <1>1, <1>2 DEF M!D!UnitOffsets
<1>4. DOMAIN flash[slot] = M!D!UnitOffsets
  BY <1>1 DEF M!D!Areas
<1> HIDE DEF slot, image
<1>5. [flash[slot] EXCEPT ![M!D!ConfirmOffset] = Erased] = image
  BY <1>2, <1>3, <1>4
<1> QED
  BY <1>1, <1>5 DEF InFlash, Holds, image

\* A whole number of units behind a unit is on a unit.
LEMMA DifferenceOfUnits ==
  ASSUME NEW x \in Nat, NEW y \in Nat, y <= x, x % ProgramUnit = 0, y % ProgramUnit = 0
  PROVE  (x - y) % ProgramUnit = 0
<1>1. ProgramUnit \in Nat \ {0}
  BY Constants
<1>2. PICK p \in Nat : x = ProgramUnit * p
  BY Constants, U!P!UnitMultiple
<1>3. PICK q \in Nat : y = ProgramUnit * q
  BY Constants, U!P!UnitMultiple
<1>4. x - y = ProgramUnit * (p - q)
  BY <1>1, <1>2, <1>3
<1>5. p - q \in Nat
  <2>1. SUFFICES ASSUME p + 1 <= q PROVE FALSE
    OBVIOUS
  <2>2. ProgramUnit * (p + 1) <= ProgramUnit * q
    BY <1>1, <2>1
  <2> QED
    BY <1>1, <1>2, <1>3, <2>2
<1>6. (ProgramUnit * (p - q)) % ProgramUnit = 0
  BY <1>1, <1>5
<1> QED
  BY <1>4, <1>6

----------------------------------------------------------------------------
(* The steps of the node *)

LEMMA ProgressTakes ==
  ASSUME Core, Progress, Takes
  PROVE  Progress'
<1>1. /\ ~ Empty(inbox) /\ Handle(inbox) /\ inbox' = None
      /\ call' = call /\ answers' = answers /\ gw' = gw
  BY DEF Takes
<1>2. /\ NodeInv /\ ChannelTypes /\ QueueInOrder /\ OwnAnswers /\ Lingering /\ Requests(inbox)
      /\ inbox \in Messages /\ GatewayTypes /\ Position
  BY <1>1 DEF Core, Job, ChannelTypes, Requested
<1>3. serving'.code = reply'.code
  BY TakesKeeps
<1>4. DownloadMove(inbox) \/ BlockMove(inbox) \/ ExitMove(inbox) \/ QuietMove(inbox)
        \/ StartMove(inbox)
  BY <1>1, <1>2, TransferMoves
<1>5. Empty(inbox')
  BY <1>1, EmptyMessage
<1>6. ASSUME gw.step \in Strict
      PROVE  /\ inbox = call /\ ~ Empty(call) /\ inbox.service = StepService
             /\ call = StepRequest /\ ~ Accepted /\ (Accepted' => reply'.code = "OK")
  <2>1. inbox = call /\ Empty(serving) /\ answers = <<>> /\ ~ Empty(call)
    BY <1>1, <1>2, <1>6, StrictPipe
  <2>2. call = StepRequest /\ Asking
    BY <2>1 DEF Core, Asked
  <2>3. StepRequest.service = StepService
    BY <1>2, <2>2, AskedIs
  <2>4. DOMAIN answers = {} /\ DOMAIN answers' = {}
    BY <1>1, <2>1
  <2> QED
    BY <1>3, <2>1, <2>2, <2>3, <2>4 DEF Accepted, Empty
<1>7. CASE gw.step = "results"
  <2>1. inbox.service = <<"0x31", "results">>
    BY <1>6, <1>7 DEF StepService, Strict
  <2>2. QuietMove(inbox)
    BY <1>4, <2>1 DEF DownloadMove, BlockMove, ExitMove, StartMove
  <2>3. reply'.code = "OK" => session'.state # "PREPARING"
    BY <2>1, <2>2 DEF QuietMove, TransferKept
  <2> QED
    BY <1>1, <1>6, <1>7, <2>3 DEF Progress, Prepared, Filled, Whole, Strict
<1>8. CASE gw.step = "download"
  <2>1. inbox.service = <<"0x34", "download">> /\ inbox.size = gw.package.size
    <3>1. Asking
      BY <1>8 DEF Asking, Working
    <3> QED
      BY <1>2, <1>6, <1>8, <3>1, AskedIs DEF StepService, Strict
  <2>2. DownloadMove(inbox)
    BY <1>4, <2>1 DEF BlockMove, ExitMove, QuietMove, StartMove
  <2>3. session.state # "PREPARING"
    BY <1>8 DEF Progress, Prepared
  <2>4. CASE reply'.code # "OK" /\ TransferKept
    BY <1>1, <1>6, <1>8, <2>3, <2>4 DEF Progress, Prepared, Filled, Whole, Strict, TransferKept
  <2>5. CASE /\ session'.state = "TRANSFERRING" /\ session'.target = session.target
             /\ session'.received = 0 /\ session'.size = inbox.size
             /\ session.target \in M!D!Slots
             /\ \A off \in M!D!UnitOffsets : flash[session.target][off] = Erased
    <3>1. flash' = flash
      BY <2>2 DEF DownloadMove
    <3>2. \A off \in M!D!UnitOffsets : ~ off < 0
      BY DEF M!D!UnitOffsets
    <3>3. HoldsFirst(0)'
      BY <1>1, <2>1, <2>5, <3>1, <3>2 DEF HoldsFirst
    <3> QED
      BY <1>1, <1>8, <2>5, <3>3 DEF Progress, Prepared, Filled, Whole
  <2> QED
    BY <2>2, <2>4, <2>5 DEF DownloadMove
<1>9. CASE gw.step = "block"
  <2>1. /\ inbox.service = <<"0x36", "block">> /\ inbox.size = Chunk /\ inbox.data = ChunkData
    <3>1. Asking
      BY <1>9 DEF Asking, Working
    <3> QED
      BY <1>2, <1>6, <1>9, <3>1, AskedIs DEF StepService, Strict
  <2>2. BlockMove(inbox)
    BY <1>4, <2>1 DEF DownloadMove, ExitMove, QuietMove, StartMove
  <2>3. session.state # "PREPARING"
    BY <1>9 DEF Progress, Prepared
  <2>4. CASE ~ server'.xferIsActive
    <3>1. session'.state # "PREPARING"
      BY <2>2, <2>3, <2>4 DEF BlockMove
    <3> QED
      BY <1>1, <1>9, <2>4, <3>1 DEF Progress, Prepared, Filled, Whole, Filling
  <2>5. CASE /\ session.state = "TRANSFERRING" /\ session'.state = "TRANSFERRING"
             /\ server.xferIsActive
             /\ session.target \in M!D!Slots
             /\ session'.target = session.target /\ session'.size = session.size
             /\ session'.received = session.received + inbox.size
             /\ \A off \in M!D!UnitOffsets :
                  flash'[session.target][off]
                    = IF session.received <= off /\ off < session.received + inbox.size
                      THEN inbox.data[off - session.received] ELSE flash[session.target][off]
    <3>1. HoldsFirst(gw.offset)
      BY <1>1, <1>9, <2>5 DEF Progress, Filled, Filling
    <3>2. /\ session.received = gw.offset /\ session.size = gw.package.size
          /\ \A off \in M!D!UnitOffsets :
               flash[session.target][off]
                 = IF off < gw.offset THEN gw.package.image[off] ELSE Erased
      BY <3>1 DEF HoldsFirst
    <3>3. /\ Chunk \in Nat \ {0}
          /\ \A off \in M!D!UnitsOf(Chunk) : ChunkData[off] = gw.package.image[gw.offset + off]
      BY <1>2, <1>9, BlockFits
    <3>4. gw.offset \in Nat /\ gw.offset % ProgramUnit = 0
      BY <1>2, <1>9 DEF GatewayTypes, Position
    <3>5. ASSUME NEW off \in M!D!UnitOffsets
          PROVE  flash'[session.target][off]
                   = IF off < gw.offset + Chunk THEN gw.package.image[off] ELSE Erased
      <4>1. off \in Nat /\ off % ProgramUnit = 0
        BY <3>5 DEF M!D!UnitOffsets
      <4>2. CASE gw.offset <= off /\ off < gw.offset + Chunk
        <5>1. off - gw.offset \in 0 .. Chunk - 1
          BY <3>3, <3>4, <4>1, <4>2
        <5>2. (off - gw.offset) % ProgramUnit = 0
          BY <3>4, <4>1, <4>2, DifferenceOfUnits
        <5>3. off - gw.offset \in M!D!UnitsOf(Chunk)
          BY <5>1, <5>2 DEF M!D!UnitsOf
        <5>4. gw.offset + (off - gw.offset) = off
          BY <3>4, <4>1
        <5>5. ChunkData[off - gw.offset] = gw.package.image[off]
          BY <3>3, <5>3, <5>4
        <5> QED
          BY <2>1, <2>5, <3>2, <3>5, <4>2, <5>5
      <4>3. CASE ~ (gw.offset <= off /\ off < gw.offset + Chunk)
        <5>1. flash'[session.target][off] = flash[session.target][off]
          BY <2>1, <2>5, <3>2, <3>5, <4>3
        <5>2. off < gw.offset <=> off < gw.offset + Chunk
          BY <3>3, <3>4, <4>1, <4>3
        <5> QED
          BY <3>2, <3>5, <5>1, <5>2
      <4> QED
        BY <4>2, <4>3
    <3>6. HoldsFirst(gw.offset + Chunk)'
      BY <1>1, <2>1, <2>5, <3>2, <3>5 DEF HoldsFirst, Chunk
    <3>7. ~ Empty(call)
      BY <1>6, <1>9 DEF Strict
    <3> QED
      BY <1>1, <1>5, <1>9, <2>5, <3>6, <3>7 DEF Progress, Prepared, Filled, Whole, Empty
  <2> QED
    BY <2>2, <2>4, <2>5 DEF BlockMove
<1>10. CASE gw.step = "tester"
  <2>1. inbox.service = <<"0x3E", "tester">>
    BY <1>6, <1>10 DEF StepService, Strict
  <2>2. TransferKept
    BY <1>4, <2>1 DEF DownloadMove, BlockMove, ExitMove, QuietMove, StartMove
  <2>3. HoldsFirst(gw.offset)' = HoldsFirst(gw.offset) /\ Filling' = Filling
    BY <1>1, <2>2 DEF HoldsFirst, TransferKept, Filling
  <2> QED
    BY <1>1, <1>10, <2>2, <2>3 DEF Progress, Prepared, Filled, Whole, TransferKept
<1>11. CASE gw.step = "exit"
  <2>1. inbox.service = <<"0x37", "exit">>
    BY <1>6, <1>11 DEF StepService, Strict
  <2>2. ExitMove(inbox)
    BY <1>4, <2>1 DEF DownloadMove, BlockMove, QuietMove, StartMove
  <2>3. ~ server'.xferIsActive /\ flash' = flash /\ session'.state # "PREPARING"
    BY <1>11, <2>2 DEF ExitMove, Progress, Prepared
  <2>4. reply'.code = "OK" => InFlash'
    <3>1. SUFFICES ASSUME reply'.code = "OK" PROVE InFlash
      BY <1>1, <2>3 DEF InFlash, Holds
    <3>2. Filling /\ session.received = session.size
      BY <2>2, <3>1 DEF ExitMove, Filling
    <3>3. HoldsFirst(gw.offset) /\ gw.offset = gw.package.size /\ Working
      BY <1>2, <1>11, <3>2 DEF Progress, Filled, Position, Working
    <3> QED
      BY <1>2, <3>3, WholeImage
  <2> QED
    BY <1>1, <1>6, <1>11, <2>3, <2>4 DEF Progress, Prepared, Filled, Whole, Filling, Strict
<1>12. CASE gw.step \in {"reset", "reconnect"}
  <2>1. inbox.service = <<"0x11", "HR">>
    <3>1. CASE gw.step = "reset"
      BY <1>6, <3>1 DEF StepService, Strict
    <3>2. CASE gw.step = "reconnect"
      <4>1. Empty(call)
        BY <3>2 DEF Core, Asked, Asking
      <4>2. MayLinger(inbox.service)
        BY <1>1, <1>2, <4>1 DEF Lingering
      <4> QED
        BY <3>2, <4>2 DEF MayLinger
    <3> QED
      BY <1>12, <3>1, <3>2
  <2>2. TransferKept
    BY <1>4, <2>1 DEF DownloadMove, BlockMove, ExitMove, QuietMove, StartMove
  <2> QED
    BY <1>1, <1>12, <2>2
    DEF Progress, Prepared, Filled, Whole, TransferKept, InFlash, Holds
<1>13. CASE gw.step \notin {"results", "download", "block", "tester", "exit", "reset",
                            "reconnect"}
  BY <1>1, <1>13, NoProgress
<1> QED
  BY <1>7, <1>8, <1>9, <1>10, <1>11, <1>12, <1>13

LEMMA ProgressRestarts ==
  ASSUME Core, Progress, NodeRestarts
  PROVE  Progress'
<1>1. /\ M!Restart /\ inbox' = None /\ serving' = None /\ NodeWasAway
      /\ call' = call /\ answers' = answers
  BY DEF NodeRestarts
<1>2. /\ NodeInv /\ NodeInv' /\ session'.state = "IDLE"
      /\ \A slot \in M!D!Slots, off \in M!D!UnitOffsets \ {M!D!ConfirmOffset} :
           flash'[slot][off] = flash[slot][off]
  BY <1>1, Restarted DEF Core
<1>3. gw'.step = gw.step /\ gw'.package = gw.package
  <2>1. /\ gw' = gw \/ gw' = [gw EXCEPT !.slow = TRUE]
        /\ gw' = gw \/ gw.step = "snapshot"
    BY <1>1 DEF NodeWasAway
  <2> QED
    BY <2>1, GatewayKept
<1>4. Accepted' => Accepted
  <2>1. Empty(serving')
    BY <1>1, EmptyMessage
  <2> QED
    BY <1>1, <2>1 DEF Accepted, Empty
<1>5. InFlash => InFlash'
  <2>1. SUFFICES ASSUME NEW slot \in M!D!Slots, Holds(slot, gw.package)
                 PROVE  Holds(slot, gw.package)'
    BY DEF InFlash
  <2>2. flash[slot] \in M!D!Areas
    BY <1>2, NodeStates
  <2>3. flash'[slot] \in M!D!Areas
    <3>1. (flash \in [M!D!Slots -> M!D!Areas])'
      BY <1>2, NodeStates, PTL
    <3> QED
      BY <3>1 DEF M!D!Slots, M!D!SLOT_A, M!D!SLOT_B, M!D!Areas, M!D!UnitOffsets, M!D!Cells
  <2>4. [flash'[slot] EXCEPT ![M!D!ConfirmOffset] = Erased]
          = [flash[slot] EXCEPT ![M!D!ConfirmOffset] = Erased]
    BY <1>2, <2>2, <2>3 DEF M!D!Areas
  <2> QED
    BY <1>3, <2>1, <2>4 DEF Holds, M!D!ConfirmOffset
<1>6. Prepared' /\ Filled'
  BY <1>2 DEF Prepared, Filled, Filling
<1>7. Whole'
  BY <1>3, <1>4, <1>5 DEF Progress, Whole
<1> QED
  BY <1>6, <1>7 DEF Progress

LEMMA ProgressNode ==
  ASSUME Core, Progress, Answers \/ NodeGoesOn
  PROVE  Progress'
<1>1. CASE Answers
  <2>1. /\ TransferKept /\ ~ Empty(serving) /\ Empty(serving')
        /\ answers' = answers \/ answers' = Append(answers, serving)
    BY <1>1, AnswersKeeps
  <2>2. gw' = gw /\ call' = call /\ inbox' = inbox
    BY <1>1 DEF Answers
  <2>3. Accepted' => Accepted
    <3>1. SUFFICES ASSUME NEW i \in DOMAIN answers', answers'[i].code = "OK" PROVE Accepted
      BY <2>1 DEF Accepted, Empty
    <3>2. CASE answers' = answers
      BY <3>1, <3>2 DEF Accepted
    <3>3. CASE answers' = Append(answers, serving)
      <4>1. answers \in Seq(Messages) /\ serving \in Messages
        BY DEF Core, ChannelTypes
      <4>2. /\ \A j \in DOMAIN answers : answers'[j] = answers[j]
            /\ answers'[Len(answers) + 1] = serving
            /\ DOMAIN answers' = 1 .. Len(answers) + 1
        BY <3>3, <4>1, AppendOf
      <4>3. i \in DOMAIN answers \/ i = Len(answers) + 1
        BY <3>1, <4>1, <4>2, Sequences
      <4> QED
        BY <2>1, <3>1, <4>2, <4>3 DEF Accepted
    <3> QED
      BY <2>1, <3>2, <3>3
  <2> QED
    BY <2>1, <2>2, <2>3, ProgressStays DEF TransferKept, Empty
<1>2. CASE NodeGoesOn
  <2>1. /\ gw' = gw /\ UNCHANGED channelVars
        /\ server'.xferIsActive = server.xferIsActive
        /\ \/ UNCHANGED <<flash, session>>
           \/ flash' = flash /\ session'.state = "IDLE"
           \/ session.state = "PREPARING"
    BY <1>2, NodeAlone DEF NodeGoesOn, Core
  <2>2. /\ call' = call /\ inbox' = inbox /\ Accepted' = Accepted
        /\ Empty(inbox') = Empty(inbox)
    BY <2>1 DEF channelVars, Accepted, Empty
  <2>3. CASE UNCHANGED <<flash, session>>
    BY <2>1, <2>2, <2>3, ProgressStays
  <2>4. CASE flash' = flash /\ session'.state = "IDLE"
    <3>1. InFlash' = InFlash /\ ~ Filling'
      BY <2>1, <2>4 DEF InFlash, Holds, Filling
    <3> QED
      BY <2>1, <2>2, <2>4, <3>1 DEF Progress, Prepared, Filled, Whole
  <2>5. CASE session.state = "PREPARING"
    <3>1. CASE gw.step = "results"
      <4>1. ~ Accepted
        BY <2>5, <3>1 DEF Progress, Prepared
      <4> QED
        BY <2>1, <2>2, <3>1, <4>1 DEF Progress, Prepared, Filled, Whole
    <3>2. CASE gw.step # "results"
      <4>1. gw.step \notin {"results", "download", "block", "tester", "exit", "reset",
                            "reconnect"}
        BY <2>5, <3>2 DEF Progress, Prepared
      <4> QED
        BY <2>1, <4>1, NoProgress
    <3> QED
      BY <3>1, <3>2
  <2> QED
    BY <2>1, <2>3, <2>4, <2>5
<1> QED
  BY <1>1, <1>2

----------------------------------------------------------------------------
(* The steps of the job *)

\* On a result that is not its answer's the job moves nowhere in the transfer.
LEMMA ProgressAsks ==
  ASSUME Core, Progress, Asks, UNCHANGED nodeVars
  PROVE  Progress'
<1>1. /\ Empty(call) /\ Asking /\ gw' = gw
      /\ serving' = Belated(serving) /\ answers' = BelatedAll(Drained)
  BY DEF Asks, UDSSendRequest
<1>2. /\ flash' = flash /\ session' = session /\ server' = server
  BY DEF nodeVars
<1>3. CASE gw.step \in Strict
  <2>1. Empty(serving) /\ answers = <<>> /\ serving \in Messages
    BY <1>1, <1>3, StrictPipe DEF Core, ChannelTypes
  <2>2. Empty(serving') /\ answers' = <<>>
    BY <1>1, <2>1, BelatedMessage, DrainedAnswers, Sequences DEF Core, ChannelTypes
  <2>3. DOMAIN answers' = {}
    BY <2>2
  <2>4. ~ Accepted'
    BY <2>2, <2>3 DEF Accepted, Empty
  <2>5. /\ InFlash' = InFlash /\ Filling' = Filling
        /\ HoldsFirst(gw.offset)' = HoldsFirst(gw.offset)
    BY <1>1, <1>2 DEF InFlash, Holds, Filling, HoldsFirst
  <2>6. Prepared' /\ Whole'
    BY <1>1, <1>2, <2>4, <2>5 DEF Progress, Prepared, Whole
  <2>7. Filled'
    BY <1>1, <2>4, <2>5 DEF Progress, Filled
  <2> QED
    BY <2>6, <2>7 DEF Progress
<1>4. CASE gw.step \notin Strict
  <2>1. gw.step = "snapshot"
    BY <1>1, <1>4 DEF Core, Job, GatewayTypes, Steps, Strict, Asking, Working
  <2> QED
    BY <1>1, <2>1, NoProgress
<1> QED
  BY <1>3, <1>4

\* After a result nothing of the request is left.
LEMMA NothingWaits == Core /\ Empty(call) /\ gw.step \in Strict => ~ Accepted
<1> SUFFICES ASSUME Core, Empty(call), gw.step \in Strict PROVE ~ Accepted
  OBVIOUS
<1>1. Empty(serving) /\ answers = <<>>
  BY StrictPipe DEF Core
<1>2. DOMAIN answers = {}
  BY <1>1
<1> QED
  BY <1>1, <1>2 DEF Accepted

LEMMA NothingAccepted ==
  ASSUME Core', Empty(call'), gw'.step \in Strict
  PROVE  ~ Accepted'
<1>1. (Core /\ Empty(call) /\ gw.step \in Strict => ~ Accepted)'
  BY NothingWaits, PTL
<1> QED
  BY <1>1 DEF Empty, Strict

LEMMA ProgressResult ==
  ASSUME Core, Core', Progress, SendFails \/ HearsAnswer \/ TimesOut, UNCHANGED nodeVars
  PROVE  Progress'
<1>1. /\ flash' = flash /\ session' = session /\ server' = server
  BY DEF nodeVars
<1>2. Empty(call')
  BY Onward, EmptyMessage
<1>3. gw'.step \in Strict => ~ Accepted'
  BY <1>2, NothingAccepted
<1>4. Filling' = Filling
  BY <1>1 DEF Filling
<1>5. CASE ResetSent
  <2>1. gw.step = "reset" /\ gw'.step = "reconnect" /\ gw'.package = gw.package
    BY <1>5 DEF ResetSent, Keeps, Fields
  <2>2. InFlash'
    BY <1>1, <2>1 DEF Progress, Whole, InFlash, Holds
  <2> QED
    BY <1>1, <2>1, <2>2 DEF Progress, Prepared, Filled, Whole
<1>6. CASE gw.step = "results" /\ gw' = gw
  BY <1>3, <1>6 DEF Progress, Prepared, Filled, Whole, Strict
<1>7. CASE StepsOn /\ Hears /\ Head(answers).code = "OK"
  <2>1. Accepted /\ Hears
    <3>1. Head(answers) = answers[1] /\ 1 \in DOMAIN answers
      BY <1>7, TailOf DEF Hears, Core, ChannelTypes
    <3> QED
      BY <1>7, <3>1 DEF Accepted
  <2>2. gw'.package = gw.package
    BY <1>7 DEF StepsOn, Keeps, Fields
  <2>3. CASE gw.step = "results" /\ gw'.step = "download"
    <3>1. session'.state # "PREPARING"
      BY <1>1, <2>1, <2>3 DEF Progress, Prepared
    <3> QED
      BY <1>3, <2>3, <3>1 DEF Progress, Prepared, Filled, Whole, Strict
  <2>4. CASE gw.step = "download" /\ gw'.step = "block" /\ gw'.offset = gw.offset
    <3>1. session'.state # "PREPARING" /\ gw'.offset = 0
      BY <1>1, <2>4 DEF Progress, Prepared, Core, Job, Position
    <3>2. Filling => HoldsFirst(gw.offset)'
      BY <1>1, <2>1, <2>2, <2>4, <3>1 DEF Progress, Filled, HoldsFirst
    <3> QED
      BY <1>3, <1>4, <2>4, <3>1, <3>2 DEF Progress, Prepared, Filled, Whole, Strict
  <2>5. CASE gw.step = "tester" /\ gw'.step = "block" /\ gw'.offset = gw.offset
    <3>1. session'.state # "PREPARING"
      BY <1>1, <2>5 DEF Progress, Prepared
    <3>2. Filling => HoldsFirst(gw.offset)'
      BY <1>1, <2>2, <2>5 DEF Progress, Filled, HoldsFirst
    <3> QED
      BY <1>3, <1>4, <2>5, <3>1, <3>2 DEF Progress, Prepared, Filled, Whole, Strict
  <2>6. CASE gw.step = "block" /\ gw'.offset = gw.offset + Chunk /\ gw'.step \in {"block", "exit"}
    <3>1. session'.state # "PREPARING"
      BY <1>1, <2>6 DEF Progress, Prepared
    <3>2. Filling => HoldsFirst(gw.offset)'
      BY <1>1, <2>1, <2>2, <2>6 DEF Progress, Filled, HoldsFirst
    <3> QED
      BY <1>3, <1>4, <2>6, <3>1, <3>2 DEF Progress, Prepared, Filled, Whole, Strict
  <2>7. CASE gw.step = "exit" /\ gw'.step = "reset"
    <3>1. session'.state # "PREPARING"
      BY <1>1, <2>7 DEF Progress, Prepared
    <3>2. InFlash'
      BY <1>1, <2>1, <2>2, <2>7 DEF Progress, Whole, InFlash, Holds
    <3> QED
      BY <2>7, <3>1, <3>2 DEF Progress, Prepared, Filled, Whole
  <2>8. CASE gw'.step \notin {"results", "download", "block", "tester", "exit", "reset",
                              "reconnect"}
    BY <2>8, NoProgress
  <2>9. CASE gw'.step = "results"
    BY <1>3, <2>9 DEF Progress, Prepared, Filled, Whole, Strict
  <2> QED
    BY <1>7, <2>3, <2>4, <2>5, <2>6, <2>7, <2>8, <2>9 DEF StepsOn
<1>8. CASE gw'.step \in {"idle", "snapshot", "attempt", "session"}
  BY <1>8, NoProgress
<1> QED
  BY <1>5, <1>6, <1>7, <1>8, Onward

LEMMA ProgressGateway ==
  ASSUME Core, Progress, Gateway
  PROVE  Progress'
<1>1. UNCHANGED nodeVars /\ flash' = flash /\ session' = session /\ server' = server
  BY GatewayMoves DEF nodeVars
<1>2. CASE StartJob
  <2>1. gw'.step = "snapshot"
    BY <1>2 DEF StartJob, IdleGateway
  <2> QED
    BY <2>1, NoProgress
<1>3. CASE TesterPresentDue
  <2>1. /\ gw.step = "block" /\ Empty(call) /\ gw' = [gw EXCEPT !.step = "tester"]
    BY <1>3 DEF TesterPresentDue
  <2>2. gw'.step = "tester" /\ gw'.offset = gw.offset /\ gw'.package = gw.package
    BY <2>1 DEF Core, Job, GatewayTypes, Fields
  <2>3. session'.state # "PREPARING" /\ Filling' = Filling
    BY <1>1, <2>1 DEF Progress, Prepared, Filling
  <2>4. Filling => HoldsFirst(gw.offset)'
    BY <1>1, <2>1, <2>2 DEF Progress, Filled, HoldsFirst
  <2> QED
    BY <2>2, <2>3, <2>4 DEF Progress, Prepared, Filled, Whole
<1>4. CASE Asks
  BY <1>1, <1>4, ProgressAsks
<1>5. CASE SendFails \/ HearsAnswer \/ TimesOut
  <2>1. Core'
    BY <1>1, <1>5, SendFailsKeeps, HearsAnswerKeeps, TimesOutKeeps
  <2> QED
    BY <1>1, <1>5, <2>1, ProgressResult
<1>6. CASE Attempts \/ Reconnects
  <2>1. Ends \/ gw' = [gw EXCEPT !.step = "snapshot"]
    BY <1>1, <1>6, AttemptsKeeps
  <2>2. gw'.step \in {"idle", "snapshot"}
    BY <2>1, EndKeeps DEF Core, Job, GatewayTypes, Fields
  <2> QED
    BY <2>2, NoProgress
<1>7. CASE update_watchdog_expired
  <2>1. gw'.step = "idle"
    BY <1>1, <1>7, ExpiryKeeps, EndKeeps
  <2> QED
    BY <2>1, NoProgress
<1> QED
  BY <1>2, <1>3, <1>4, <1>5, <1>6, <1>7, GatewayMoves DEF JobStep

LEMMA ProgressKept == Core /\ Progress /\ [Next]_vars => Progress'
<1> SUFFICES ASSUME Core, Progress, [Next]_vars PROVE Progress'
  OBVIOUS
<1>1. CASE UNCHANGED vars
  <2>1. /\ UNCHANGED <<flash, session>> /\ server' = server /\ gw' = gw /\ call' = call
        /\ inbox' = inbox /\ serving' = serving /\ answers' = answers
    BY <1>1 DEF vars, nodeVars, channelVars
  <2>2. Accepted' = Accepted /\ (Empty(inbox') = Empty(inbox))
    BY <2>1 DEF Accepted, Empty
  <2> QED
    BY <2>1, <2>2, ProgressStays
<1>2. CASE Next
  BY <1>2, ProgressTakes, ProgressNode, ProgressRestarts, ProgressGateway, Zenon DEF Next
<1> QED
  BY <1>1, <1>2

\* A job that goes on to the reset has left the whole image in one of the slots.
THEOREM TransferredInFlash == Spec => []TransferredIsInFlash
<1>1. Init => Progress
  <2> SUFFICES ASSUME Init PROVE Progress
    OBVIOUS
  <2>1. gw.step = "idle"
    BY DEF Init, IdleGateway
  <2> QED
    BY <2>1 DEF Progress, Prepared, Filled, Whole
<1>2. Progress => TransferredIsInFlash
  BY DEF Progress, Whole, InFlash, TransferredIsInFlash
<1> QED
  BY <1>1, <1>2, ProgressKept, CoreHolds, PTL DEF Spec
=============================================================================
