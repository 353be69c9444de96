----------------------------- MODULE OtaSystem -----------------------------
(***************************************************************************)
(* An update from end to end: a job of the gateway (OtaExecutor) over the  *)
(* channel (UdsClient) on the node's diagnostic server, download and flash *)
(* (UdsServer).                                                            *)
(*                                                                         *)
(* The updater is the only client.  Between its steps the node may lose    *)
(* power, start either slot, let its session lapse or fail in its flash,   *)
(* and the updater may be ended by its total timeout and started again.    *)
(***************************************************************************)
EXTENDS OtaExecutor

CONSTANTS
  PageSize, SlotSize, Data, Erased, Torn,
  MaxPayload, Lengths, Sizes, ConfirmField, Images, MaxSeeds

VARIABLES
  flash, running, activeSlot, alive, session, job,
  sec, drawn, lastTried,
  server, reply, resetRequested,
  cut   \* since the node's start a job was cut off in its transfer (history)

M == INSTANCE UdsServer

\* The constants are those the node assumes.
ASSUME NodeConstants ==
  M!D!FlashGeometry /\ M!D!FlashContents /\ M!D!DownloadConstants /\ M!SeedBound

\* A package is a slot's image that nobody has confirmed, blank behind its size, as the release
\* tools make it (trailer_state=pending); a file too short for an image header is refused.
ASSUME PackageContents ==
  \A package \in Packages :
    /\ package.size \in Sizes \ {0}
    /\ package.image \in [M!D!UnitOffsets -> Data \cup {Erased}]
    /\ package.image[M!D!ConfirmOffset] = Erased
    /\ \A off \in M!D!UnitOffsets : package.size <= off => package.image[off] = Erased

\* The blocks of the client are among the payloads the node is asked to take.
ASSUME BlockPayloads ==
  TRANSFER_BLOCK_PAYLOAD \in Nat \ {0} /\ 1 .. TRANSFER_BLOCK_PAYLOAD \subseteq Lengths

nodeVars == <<flash, running, activeSlot, alive, session, job, sec, drawn, lastTried,
              server, reply, resetRequested>>
vars == <<nodeVars, channelVars, gw, cut>>

Init ==
  /\ M!Init
  /\ InitChannel
  /\ gw = IdleGateway
  /\ cut = FALSE

----------------------------------------------------------------------------
(* The node *)

\* A version names one image, and stands for it here.
RunningImageVersion == [flash[activeSlot] EXCEPT ![M!D!ConfirmOffset] = Erased]

\* A node that answers came through main(): its record verifies and its image is confirmed.
AnswerTo(request, r) ==
  [request EXCEPT
     !.code = r.code, !.size = 0,
     !.number = CASE request.service = <<"0x22", "ACTIVE_SLOT">> -> activeSlot
                  [] request.service = <<"0x22", "CONFIRM_RESULT">> -> 1
                  [] request.service = <<"0x27", "seed">> -> r.seed
                  [] request.service[1] = "0x36" -> request.number
                  [] OTHER -> 0,
     !.data = IF request.service = <<"0x22", "APP_VERSION">> THEN RunningImageVersion ELSE <<>>]

Handle(request) ==
  LET service == request.service
  IN  \/ service[1] \in {"0x22", "0x3E"} /\ M!OtherRequest
      \/ service[1] = "0x10" /\ M!DiagnosticSessionControl(service[2])
      \/ service[1] = "0x11" /\ M!EcuReset(service[2])
      \/ service = <<"0x27", "seed">> /\ M!RequestSeed
      \/ service = <<"0x27", "key">> /\ M!SendKey(request.number)
      \/ service = <<"0x31", "start">> /\ M!StartEraseMemory
      \/ service = <<"0x31", "results">> /\ M!EraseMemoryResults
      \/ service[1] = "0x34" /\ M!RequestDownload(request.size)
      \/ service[1] = "0x36" /\ M!TransferDataRefused(request.number, request.size)
      \/ service[1] = "0x36"
           /\ M!TransferDataTaken(request.number, [length |-> request.size, data |-> request.data])
      \/ service[1] = "0x37" /\ M!RequestTransferExit

\* The node takes the request that waits.
Takes ==
  /\ ~ Empty(inbox)
  /\ Handle(inbox)
  /\ serving' = AnswerTo(inbox, reply')
  /\ inbox' = None
  /\ UNCHANGED <<connected, call, answers, gw, cut>>

\* The answer gets to the socket, or nowhere.
Answers ==
  /\ M!SendResponse
  /\ \/ connected /\ Len(answers) < MaxAnswers /\ answers' = Append(answers, serving)
     \/ UNCHANGED answers
  /\ serving' = None
  /\ UNCHANGED <<connected, call, inbox, gw, cut>>

\* What the node does by itself.
NodeGoesOn ==
  /\ M!SeedDelayPasses \/ M!SessionTimeout \/ M!DoScheduledReset \/ M!Download_Poll
  /\ UNCHANGED <<channelVars, gw, cut>>

\* A reset, after which nothing of a request is left: the one asked for, the watchdog's, or a
\* loss of power, which may come at any time and does the same.
NodeRestarts ==
  /\ M!Restart
  /\ inbox' = None /\ serving' = None
  /\ cut' = FALSE
  /\ NodeWasAway
  /\ UNCHANGED <<connected, call, answers>>

----------------------------------------------------------------------------
(* The gateway *)

\* A job that ends between asking for the download and the answer to the transfer exit, with
\* no refusal of the node.
InTransfer == gw.step \in {"download", "block", "tester", "exit"}

Refused == Hears /\ IsNrc(Result(Head(answers)))

JobGoesOn ==
  /\ JobStep
  /\ cut' = (cut \/ (InTransfer /\ gw'.step = "idle" /\ ~ Refused))
  /\ UNCHANGED nodeVars

JobIsCutOff ==
  /\ update_watchdog_expired
  /\ cut' = (cut \/ InTransfer)
  /\ UNCHANGED nodeVars

Gateway ==
  \/ (StartJob \/ TesterPresentDue) /\ UNCHANGED <<nodeVars, cut>>
  \/ JobGoesOn
  \/ JobIsCutOff

Next == Takes \/ Answers \/ NodeGoesOn \/ NodeRestarts \/ Gateway

Spec == Init /\ [][Next]_vars

----------------------------------------------------------------------------
(* Properties *)

\* The slot holds the image of the package, confirmed or not.
Holds(slot, package) ==
  [flash[slot] EXCEPT ![M!D!ConfirmOffset] = Erased] = package.image

\* An update is reported as CONFIRMED only if the slot that did not run before it holds the
\* package's image and is confirmed, wherever the node restarted between the snapshots.
ConfirmedIsInstalled ==
  [][Working /\ gw'.confirmed =>
       /\ Holds(gw.target, gw.package)
       /\ flash[gw.target][M!D!ConfirmOffset] = ConfirmField]_vars

\* A job that goes on to the reset has left the whole image in one of the slots, and it stays
\* there: no lost, late or repeated answer counts for a block that was not programmed.
TransferredIsInFlash ==
  gw.step \in {"reset", "reconnect"} =>
    \E slot \in M!D!Slots : Holds(slot, gw.package)

\* A step that asks the node to do something goes on only from the answer to its own request,
\* never from one to a request given up before: what comes late can pass for a reading alone.
OnlyReadsTakeLateAnswers ==
  [][Hears /\ Head(answers).late /\ Result(Head(answers)) = "OK" /\ HearsAnswer =>
       call.service[1] = "0x22"]_vars

\* The updater leaves the key out only when the node is unlocked: with this client the level of
\* the library never outlives that of the application.
TokenSkippedOnlyWhenUnlocked ==
  [][inbox.service = <<"0x27", "seed">> /\ serving'.service = inbox.service /\
     serving'.code = "OK" /\ serving'.number = M!ZeroSeed
       => sec.unlocked]_vars

\* The library keeps a transfer that the application has given up, and so refuses the next
\* download until a restart, only after a job was cut off in its transfer.
StrandedOnlyByCutTransfer ==
  server.xferIsActive /\ ~ InTransfer => cut
=============================================================================
