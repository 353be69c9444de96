----------------------------- MODULE UdsServer -----------------------------
(***************************************************************************)
(* The MCU's diagnostic server: can/uds/uds_server.c on top of the vendored*)
(* iso14229 server, composed with the download session and SecurityAccess. *)
(*                                                                         *)
(* The library and the application each keep a state of the transfer and   *)
(* of the access rights.  The server record is the library's; session, job *)
(* and sec are the application's.                                          *)
(*                                                                         *)
(* Everything runs on the OTA thread except ResetCommunication, which the  *)
(* main thread, of lower priority, runs with interrupts off.  An action is *)
(* what one turn of the OTA loop does about one event; timers may pass at  *)
(* any time.  A request is any one a client may send at that moment.       *)
(***************************************************************************)
EXTENDS SecurityAccess

CONSTANTS
  ProgramUnit, PageSize, SlotSize, Data, Erased, Torn,
  BscModulus, MaxPayload, Lengths, Sizes, ConfirmField, Images

VARIABLES
  flash, running, activeSlot, alive, session, job,   \* as in Download
  server,           \* s_server of the library
  reply,            \* the response kept until the P2 timer passes
  resetRequested    \* s_reset_requested of main.c

D == INSTANCE Download

\* The geometry and the constants are those the download session assumes.
ASSUME ServerConstants == D!FlashGeometry /\ D!FlashContents /\ D!DownloadConstants

downloadVars == <<flash, running, activeSlot, alive, session, job>>
vars == <<downloadVars, secVars, server, reply, resetRequested>>

----------------------------------------------------------------------------
(* The library's server *)

InitialServer ==
  [sessionType |-> "DS", securityLevel |-> 0,
   xferIsActive |-> FALSE, xferBsc |-> 0, xferBytes |-> 0, xferTotal |-> 0,
   requestInProgress |-> FALSE, notReadyToReceive |-> FALSE, ecuResetScheduled |-> FALSE,
   seedDelay |-> "boot"]  \* which SecurityAccess delay timer has not passed

\* Fault: a failed block leaves the transfer open.
Faulty_StaysOpen(s) == s

ResetTransfer(s) ==
  [s EXCEPT !.xferIsActive = FALSE, !.xferBsc = 1, !.xferBytes = 0, !.xferTotal = 0]

\* Fault: the counter goes on from the transfer before.
Faulty_KeepsCounter(s, total) ==
  [s EXCEPT !.xferIsActive = TRUE, !.xferBytes = 0, !.xferTotal = total]

BeginTransfer(s, total) ==
  [s EXCEPT !.xferIsActive = TRUE, !.xferBsc = 1, !.xferBytes = 0, !.xferTotal = total]

\* Fault: the counter is wider than a uint8_t.
Faulty_WideBlockCounter(s, length) == [s EXCEPT !.xferBsc = @ + 1, !.xferBytes = @ + length]

CountedBlock(s, length) ==
  [s EXCEPT !.xferBsc = (@ + 1) % BscModulus, !.xferBytes = @ + length]

NoReply == [service |-> "none", code |-> "OK", seed |-> ZeroSeed]
Reply(service, code) == [service |-> service, code |-> code, seed |-> ZeroSeed]

\* UDSServerPoll takes a request only when the last one is answered and no reset is due.
Hears == alive /\ ~ server.requestInProgress /\ ~ server.notReadyToReceive

\* The request is dealt with: the server becomes s and answers r.
Serve(s, r) ==
  /\ server' = [s EXCEPT !.requestInProgress = TRUE]
  /\ reply' = r
  /\ resetRequested' = resetRequested

----------------------------------------------------------------------------
(* uds_server.c: the decisions *)

require_programming_and_unlock(refusal) ==
  IF server.sessionType # "PRGS" THEN refusal
  ELSE IF ~ sec.unlocked THEN "SecurityAccessDenied" ELSE "OK"

SubfunctionAccess == require_programming_and_unlock("SubFunctionNotSupportedInActiveSession")
ServiceAccess == require_programming_and_unlock("ServiceNotSupportedInActiveSession")

download_result_to_nrc(result) ==
  CASE result = "OK"                   -> "OK"
    [] result = "INCORRECT_LENGTH"     -> "IncorrectMessageLengthOrInvalidFormat"
    [] result = "OUT_OF_RANGE"         -> "RequestOutOfRange"
    [] result = "TRANSFER_SUSPENDED"   -> "TransferDataSuspended"
    [] result = "SEQUENCE_ERROR"       -> "RequestSequenceError"
    [] result = "WRONG_BLOCK_SEQUENCE" -> "WrongBlockSequenceCounter"
    [] result = "REJECTED"             -> "UploadDownloadNotAccepted"
    [] result = "PROGRAMMING_FAILURE"  -> "GeneralProgrammingFailure"
    [] result = "NOT_READY"            -> "ConditionsNotCorrect"

\* Download_GetPreparationStatus, and what a request for the routine's results answers.
RoutineResultCode ==
  CASE session.state \in {"READY", "TRANSFERRING", "COMPLETE"} -> "OK"
    [] session.state = "PREPARATION_FAILED" -> "GeneralProgrammingFailure"
    [] session.state \in {"PREPARING", "IDLE"} -> "RequestSequenceError"

RequestDownloadCode(size) ==
  IF server.xferIsActive THEN "ConditionsNotCorrect"
  ELSE IF ServiceAccess # "OK" THEN ServiceAccess
  ELSE download_result_to_nrc(D!BeginResult(session, size))

\* Handle_0x36 and handle_transfer up to the flash write.  The library has already counted the
\* block when it calls the application, which takes one off again.
TransferDataCode(bsc, length) ==
  IF ~ server.xferIsActive THEN "UploadDownloadNotAccepted"
  ELSE IF bsc # server.xferBsc THEN "RequestSequenceError"
  ELSE IF server.xferBytes + length > server.xferTotal THEN "TransferDataSuspended"
  ELSE IF ServiceAccess # "OK" THEN ServiceAccess
  ELSE download_result_to_nrc(D!TransferCheck(session, bsc, length))

TransferExitCode ==
  IF ~ server.xferIsActive THEN "UploadDownloadNotAccepted"
  ELSE IF ServiceAccess # "OK" THEN ServiceAccess
  ELSE IF D!ExitAccepted(session) THEN "OK" ELSE "RequestSequenceError"

----------------------------------------------------------------------------
(* The services *)

\* 0x10: a change of session locks the server, and leaving the programming session ends the
\* download.  The library's own level and transfer stay as they are.
DiagnosticSessionControl(type) ==
  /\ Hears
  /\ IF type \in {"DS", "PRGS"}
     THEN /\ Serve([server EXCEPT !.sessionType = type], Reply("0x10", "OK"))
          /\ IF type # server.sessionType THEN SecurityAccess_ClearUnlock ELSE UNCHANGED secVars
          /\ IF type = "DS" /\ server.sessionType = "PRGS"
             THEN D!Download_Abort ELSE UNCHANGED downloadVars
     ELSE /\ Serve(server, Reply("0x10", "SubFunctionNotSupported"))
          /\ UNCHANGED <<downloadVars, secVars>>

\* 0x11: the server answers, and is deaf from then on.
EcuReset(type) ==
  /\ Hears
  /\ LET code == IF SubfunctionAccess # "OK" THEN SubfunctionAccess
                 ELSE IF type # "HR" THEN "SubFunctionNotSupported" ELSE "OK"
     IN  IF code = "OK"
         THEN Serve([server EXCEPT !.notReadyToReceive = TRUE, !.ecuResetScheduled = TRUE],
                    Reply("0x11", "OK"))
         ELSE Serve(server, Reply("0x11", code))
  /\ UNCHANGED <<downloadVars, secVars>>

\* What 0x27 answers while a delay timer has not passed.
SeedDelayCode ==
  IF server.seedDelay = "boot" THEN "RequiredTimeDelayNotExpired" ELSE "ExceedNumberOfAttempts"

\* 0x27, odd: the library answers a zero seed for the level it holds, and asks the application
\* otherwise.
RequestSeed ==
  /\ Hears
  /\ LET Refuse(code) == Serve(server, Reply("0x27 seed", code)) /\ UNCHANGED secVars
         ZeroSeedReply == Serve(server, Reply("0x27 seed", "OK")) /\ UNCHANGED secVars
     IN  IF server.seedDelay # "none" THEN Refuse(SeedDelayCode)
         ELSE IF server.securityLevel = 1 THEN ZeroSeedReply
         ELSE IF server.sessionType # "PRGS" THEN Refuse("SubFunctionNotSupportedInActiveSession")
         ELSE \/ /\ SecurityAccess_DrawSeed
                 /\ Serve(server, [Reply("0x27 seed", "OK") EXCEPT !.seed = drawn'])
              \/ /\ SecurityAccess_NoEntropy
                 /\ Serve(server, Reply("0x27 seed", "ConditionsNotCorrect"))
  /\ UNCHANGED downloadVars

\* 0x27, even: any refusal by the application starts the delay of the library.
SendKey(token) ==
  /\ Hears
  /\ LET Fail(code) == Serve([server EXCEPT !.seedDelay = "failed"], Reply("0x27 key", code))
     IN  IF server.seedDelay # "none"
         THEN Serve(server, Reply("0x27 key", SeedDelayCode)) /\ UNCHANGED secVars
         ELSE IF server.sessionType # "PRGS"
         THEN Fail("SubFunctionNotSupportedInActiveSession") /\ UNCHANGED secVars
         ELSE /\ SecurityAccess_SubmitKey(token)
              /\ CASE SubmitKeyResult(token) = "OK" ->
                        Serve([server EXCEPT !.securityLevel = 1], Reply("0x27 key", "OK"))
                   [] SubmitKeyResult(token) = "SEQUENCE_ERROR" -> Fail("RequestSequenceError")
                   [] SubmitKeyResult(token) = "INVALID_KEY" -> Fail("InvalidKey")
  /\ UNCHANGED downloadVars

\* 0x27, even, of another level, or with a key that is empty or too long: it is refused before the
\* application looks at the seed, and the library waits all the same.
SendUnusableKey ==
  /\ Hears
  /\ LET code == IF server.sessionType # "PRGS" THEN "SubFunctionNotSupportedInActiveSession"
                 ELSE "IncorrectMessageLengthOrInvalidFormat"
     IN  IF server.seedDelay # "none" THEN Serve(server, Reply("0x27 key", SeedDelayCode))
         ELSE Serve([server EXCEPT !.seedDelay = "failed"], Reply("0x27 key", code))
  /\ UNCHANGED <<downloadVars, secVars>>

\* 0x31 01 FF00: whatever the download was doing, it is aborted and prepared anew.
StartEraseMemory ==
  /\ Hears
  /\ LET outcome == D!PrepareOutcome(D!IdleSession, D!IdleJob)
     IN  IF SubfunctionAccess # "OK"
         THEN /\ Serve(server, Reply("0x31 start", SubfunctionAccess))
              /\ UNCHANGED <<session, job>>
         ELSE /\ Serve(server, Reply("0x31 start", download_result_to_nrc(outcome.result)))
              /\ session' = outcome.session /\ job' = outcome.job
  /\ UNCHANGED <<flash, running, activeSlot, alive, secVars>>

\* 0x31 03 FF00
EraseMemoryResults ==
  /\ Hears
  /\ Serve(server, Reply("0x31 results",
                         IF SubfunctionAccess # "OK" THEN SubfunctionAccess ELSE RoutineResultCode))
  /\ UNCHANGED <<downloadVars, secVars>>

\* 0x34
RequestDownload(size) ==
  /\ Hears
  /\ IF RequestDownloadCode(size) = "OK"
     THEN Serve(BeginTransfer(server, size), Reply("0x34", "OK")) /\ D!Download_Begin(size)
     ELSE Serve(server, Reply("0x34", RequestDownloadCode(size))) /\ UNCHANGED downloadVars
  /\ UNCHANGED secVars

\* 0x36: a block that either layer refuses ends the library's transfer, if there is one.
TransferDataRefused(bsc, length) ==
  /\ Hears
  /\ TransferDataCode(bsc, length) # "OK"
  /\ Serve(IF server.xferIsActive THEN ResetTransfer(server) ELSE server,
           Reply("0x36", TransferDataCode(bsc, length)))
  /\ UNCHANGED <<downloadVars, secVars>>

\* 0x36: a block that both layers take; so does the flash, or the transfer ends.
TransferDataTaken(bsc, buffer) ==
  /\ Hears
  /\ TransferDataCode(bsc, buffer.length) = "OK"
  /\ \/ /\ D!BlockIsWritten(buffer)
        /\ Serve(CountedBlock(server, buffer.length), Reply("0x36", "OK"))
     \/ /\ D!BlockFails(buffer)
        /\ Serve(ResetTransfer(server), Reply("0x36", "GeneralProgrammingFailure"))
  /\ UNCHANGED <<running, activeSlot, alive, job, secVars>>

\* 0x37
RequestTransferExit ==
  /\ Hears
  /\ Serve(IF server.xferIsActive THEN ResetTransfer(server) ELSE server,
           Reply("0x37", TransferExitCode))
  /\ IF TransferExitCode = "OK" THEN D!Download_Exit ELSE UNCHANGED downloadVars
  /\ UNCHANGED secVars

\* 0x22, 0x3E, and every other request refused for its format: nothing changes but the reply.
OtherRequest ==
  /\ Hears
  /\ Serve(server, Reply("other", "OK"))
  /\ UNCHANGED <<downloadVars, secVars>>

\* UDSServerPoll once the P2 timer has passed.
SendResponse ==
  /\ alive
  /\ server.requestInProgress
  /\ server' = [server EXCEPT !.requestInProgress = FALSE]
  /\ reply' = NoReply
  /\ UNCHANGED <<downloadVars, secVars, resetRequested>>

----------------------------------------------------------------------------
(* Timers, threads and resets *)

\* A second passed since the start, or since the last refused key.
SeedDelayPasses ==
  /\ alive
  /\ server.seedDelay # "none"
  /\ server' = [server EXCEPT !.seedDelay = "none"]
  /\ UNCHANGED <<downloadVars, secVars, reply, resetRequested>>

\* Fault: the download outlives the session.
Faulty_SessionTimeout ==
  /\ alive
  /\ server.sessionType # "DS"
  /\ SecurityAccess_ClearUnlock
  /\ server' = [server EXCEPT !.sessionType = "DS", !.securityLevel = 0]
  /\ UNCHANGED <<downloadVars, reply, resetRequested>>

\* Fault: the library's level outlives the session.
Faulty_KeepsLevel ==
  /\ alive
  /\ server.sessionType # "DS"
  /\ SecurityAccess_ClearUnlock
  /\ D!Download_Abort
  /\ server' = [server EXCEPT !.sessionType = "DS"]
  /\ UNCHANGED <<reply, resetRequested>>

\* No 0x10 or 0x3E for S3: the application is told, then the library forgets session and level.
SessionTimeout ==
  /\ alive
  /\ server.sessionType # "DS"
  /\ SecurityAccess_ClearUnlock
  /\ D!Download_Abort
  /\ server' = [server EXCEPT !.sessionType = "DS", !.securityLevel = 0]
  /\ UNCHANGED <<reply, resetRequested>>

\* Fault: the accepted reset does not reach main.c.
Faulty_DoScheduledReset ==
  /\ alive
  /\ server.ecuResetScheduled
  /\ server' = [server EXCEPT !.ecuResetScheduled = FALSE]
  /\ UNCHANGED <<downloadVars, secVars, reply, resetRequested>>

\* The power-down time passed; the OTA loop takes the accepted reset over in the same turn.
DoScheduledReset ==
  /\ alive
  /\ server.ecuResetScheduled
  /\ server' = [server EXCEPT !.ecuResetScheduled = FALSE]
  /\ resetRequested' = TRUE
  /\ UNCHANGED <<downloadVars, secVars, reply>>

Download_Poll ==
  /\ D!Download_Poll
  /\ UNCHANGED <<secVars, server, reply, resetRequested>>

\* UDS_Init by ResetCommunication, after LSS gave the node another identifier.
ResetCommunication ==
  /\ D!Download_Abort
  /\ SecurityAccess_ClearUnlock
  /\ server' = InitialServer
  /\ reply' = NoReply
  /\ resetRequested' = resetRequested

\* A ResetCommunication that fails ends in Error_Handler, where nobody reads what is in RAM:
\* all of it is taken to be initialised, as when the last step fails.
ResetCommunicationFails ==
  /\ alive
  /\ alive' = FALSE
  /\ session' = D!IdleSession
  /\ job' = D!IdleJob
  /\ SecurityAccess_ClearUnlock
  /\ server' = InitialServer
  /\ reply' = NoReply
  /\ resetRequested' = FALSE
  /\ UNCHANGED <<flash, running, activeSlot>>

Restart ==
  /\ D!Boot
  /\ SecurityAccess_ClearUnlock
  /\ server' = InitialServer
  /\ reply' = NoReply
  /\ resetRequested' = FALSE

PollReset == alive /\ resetRequested /\ Restart

\* Error_Handler stops the thread that feeds the watchdog.
WatchdogReset == ~ alive /\ Restart

PowerFailure == Restart

----------------------------------------------------------------------------
Init ==
  /\ D!Init
  /\ SecurityAccess_InitialState
  /\ server = InitialServer
  /\ reply = NoReply
  /\ resetRequested = FALSE

Request ==
  \/ \E type \in {"DS", "PRGS", "EXTDS"} : DiagnosticSessionControl(type)
  \/ \E type \in {"HR", "SR"} : EcuReset(type)
  \/ RequestSeed
  \/ \E token \in Tokens : SendKey(token)
  \/ SendUnusableKey
  \/ StartEraseMemory
  \/ EraseMemoryResults
  \/ \E size \in Sizes : RequestDownload(size)
  \/ \E bsc \in 0 .. BscModulus - 1, length \in Lengths : TransferDataRefused(bsc, length)
  \/ \E buffer \in D!Buffers(Lengths) : TransferDataTaken(server.xferBsc, buffer)
  \/ RequestTransferExit
  \/ OtherRequest

Next ==
  \/ Request
  \/ SendResponse
  \/ SeedDelayPasses
  \/ SessionTimeout
  \/ DoScheduledReset
  \/ Download_Poll
  \/ ResetCommunication
  \/ ResetCommunicationFails
  \/ PollReset
  \/ WatchdogReset
  \/ PowerFailure

\* The OTA thread goes round every millisecond as long as the node is alive, and the watchdog
\* runs on its own clock.
Fairness ==
  /\ WF_vars(SendResponse)
  /\ WF_vars(DoScheduledReset)
  /\ WF_vars(Download_Poll)
  /\ WF_vars(PollReset)
  /\ WF_vars(WatchdogReset)

Spec == Init /\ [][Next]_vars /\ Fairness

----------------------------------------------------------------------------
(* Properties *)

TypeOK ==
  /\ D!TypeOK
  /\ sec \in [seed : 0 .. MaxSeeds, unlocked : BOOLEAN]
  /\ drawn \in 0 .. MaxSeeds
  /\ lastTried \in 0 .. drawn
  /\ server \in [sessionType : {"DS", "PRGS"}, securityLevel : {0, 1},
                 xferIsActive : BOOLEAN, xferBsc : 0 .. BscModulus - 1,
                 xferBytes : 0 .. SlotSize, xferTotal : 0 .. SlotSize,
                 requestInProgress : BOOLEAN, notReadyToReceive : BOOLEAN,
                 ecuResetScheduled : BOOLEAN, seedDelay : {"none", "boot", "failed"}]
  /\ resetRequested \in BOOLEAN

\* A download that has begun in any way belongs to a programming session that is still
\* unlocked: no path out of the session, by request, timeout or reset, leaves it behind.
DownloadIsAuthorised ==
  session.state # "IDLE" => server.sessionType = "PRGS" /\ sec.unlocked

\* While both layers take blocks, they count the same blocks and bytes of the same image.
LayersAgree ==
  server.xferIsActive /\ session.state = "TRANSFERRING" =>
    /\ server.xferBsc = session.bsc
    /\ server.xferBytes = session.received
    /\ server.xferTotal = session.size

\* A seed is tried once: no token unlocks the server against a seed tried before, so a token
\* that was ever sent is of no use a second time.
SeedTriedOnce ==
  [][~ sec.unlocked /\ sec'.unlocked => sec.seed > lastTried]_vars

\* After an accepted reset request the server is deaf, but it comes back.
DeafnessEnds == server.notReadyToReceive ~> ~ server.notReadyToReceive

\* The update as its caller sees it.  A transfer the library gave up is over, although the
\* application's session is not told.
installPhase ==
  CASE session.state = "READY" -> "blank"
    [] session.state = "TRANSFERRING" /\ server.xferIsActive -> "filling"
    [] session.state = "COMPLETE" -> "full"
    [] OTHER -> "closed"

Install == INSTANCE ImageInstall WITH
  phase <- installPhase,
  image <- IF installPhase = "closed" THEN D!BlankArea ELSE flash[session.target],
  received <- IF installPhase = "closed" THEN 0 ELSE session.received,
  size <- IF installPhase = "closed" THEN 0 ELSE session.size

\* The two layers together install an image as ImageInstall says: the slot holds exactly the
\* blocks that were acknowledged and is blank behind them, and nothing resumes a broken transfer.
InstallsImage == Install!Spec

\* Claimed by gateway/docs/ota-executor.md: after a failure, "recovery starts a new
\* erase/download sequence".  So once the erase is done, a download must be accepted.
EraseEnablesDownload ==
  session.state = "READY" =>
    \A size \in Sizes \cap (1 .. SlotSize) : RequestDownloadCode(size) = "OK"
============================================================================
