---------------------------- MODULE OtaExecutor ----------------------------
(***************************************************************************)
(* A job of the gateway's updater: ota_executor.c with its snapshots,      *)
(* security_access.c and transfer.c, as mcu_update_run_image runs it.      *)
(*                                                                         *)
(* gw is where the job is and what it remembers.  Each step asks one thing *)
(* of the node and goes on from the client's result.  A deadline may have  *)
(* passed whenever the clock is read, and the process may be ended at any  *)
(* step.                                                                   *)
(***************************************************************************)
EXTENDS UdsClient

CONSTANTS
  ProgramUnit,
  BscModulus,
  Packages,                \* records of an image and its size
  TRANSFER_BLOCK_PAYLOAD   \* chunk_limit: 256 in the product, where 0x34 announces 258 with two of header

VARIABLE gw

Nothing == [slot |-> -1, version |-> <<>>, confirmed |-> FALSE]

IdleGateway ==
  [step |-> "idle", confirmed |-> FALSE, package |-> [image |-> <<>>, size |-> 0],
   phase |-> "before", round |-> 1, did |-> 1, seen |-> Nothing, slow |-> FALSE, first |-> Nothing,
   target |-> -1, token |-> 0, tested |-> FALSE, offset |-> 0, bsc |-> 1]

Working == gw.step # "idle"

\* The job is over with one of the states of OtaState_t; mcu_update_run_image answers 0 for one.
Ended(state) == {[IdleGateway EXCEPT !.confirmed = state = "CONFIRMED"]}

----------------------------------------------------------------------------
(* What each step asks *)

DIDs == <<"FACTORY_IDENTITY", "ACTIVE_SLOT", "APP_VERSION", "CONFIRM_RESULT">>

\* The bytes of the next block.
Chunk == IF gw.package.size - gw.offset > TRANSFER_BLOCK_PAYLOAD
         THEN TRANSFER_BLOCK_PAYLOAD ELSE gw.package.size - gw.offset

\* Fault: every block is taken from the start of the image.
Faulty_ChunkData ==
  [off \in {off \in 0 .. Chunk - 1 : off % ProgramUnit = 0} |-> gw.package.image[off]]

ChunkData ==
  [off \in {off \in 0 .. Chunk - 1 : off % ProgramUnit = 0} |-> gw.package.image[gw.offset + off]]

StepRequest ==
  CASE gw.step = "snapshot" -> Request(<<"0x22", DIDs[gw.did]>>, 0, 0, <<>>)
    [] gw.step = "session"  -> Request(<<"0x10", "PRGS">>, 0, 0, <<>>)
    [] gw.step = "seed"     -> Request(<<"0x27", "seed">>, 0, 0, <<>>)
    [] gw.step = "key"      -> Request(<<"0x27", "key">>, gw.token, 0, <<>>)
    [] gw.step = "erase"    -> Request(<<"0x31", "start">>, 0, 0, <<>>)
    [] gw.step = "results"  -> Request(<<"0x31", "results">>, 0, 0, <<>>)
    [] gw.step = "download" -> Request(<<"0x34", "download">>, 0, gw.package.size, <<>>)
    [] gw.step = "tester"   -> Request(<<"0x3E", "tester">>, 0, 0, <<>>)
    [] gw.step = "block"    -> Request(<<"0x36", "block">>, gw.bsc, Chunk, ChunkData)
    [] gw.step = "exit"     -> Request(<<"0x37", "exit">>, 0, 0, <<>>)
    [] gw.step = "reset"    -> Request(<<"0x11", "HR">>, 0, 0, <<>>)

Asking == Working /\ gw.step \notin {"attempt", "reconnect"}

----------------------------------------------------------------------------
(* How each step goes on *)

\* Fault: a slot that was swapped in is taken for the new image without a look at its version.
Faulty_classify_post_reset(after) ==
  IF after.slot = gw.target /\ after.confirmed THEN "CONFIRMED" ELSE "POST_RESET_CHECKED"

classify_post_reset(after) ==
  IF after.slot = gw.target /\ after.version = gw.package.image /\ after.confirmed
  THEN "CONFIRMED" ELSE "POST_RESET_CHECKED"

expected_inactive_slot(slot) == 1 - slot

\* read_snapshot_twice goes round again as long as its deadline has not passed; after the reset
\* it opens another socket first.
AnotherAttempt ==
  LET again == [gw EXCEPT !.round = 1, !.did = 1, !.seen = Nothing, !.slow = FALSE,
                          !.first = Nothing]
  IN  IF gw.phase = "after" THEN {[again EXCEPT !.step = "attempt"]}
      ELSE {again} \cup Ended("PACKAGE_VALIDATED")

\* Two snapshots agree on s.  The package may be for another node, whose identity never changes:
\* that ends the job at the first snapshot.
SnapshotTaken(s) ==
  IF gw.phase = "before"
  THEN {[gw EXCEPT !.step = "session", !.target = expected_inactive_slot(s.slot),
                   !.round = 1, !.did = 1, !.seen = Nothing, !.first = Nothing]}
       \cup Ended("PACKAGE_VALIDATED")
  ELSE Ended(classify_post_reset(s))

\* The four reads of a snapshot; one that took longer than OTA_SNAPSHOT_MAX_SPAN_MS is no good.
AfterRead(result, answer) ==
  LET s == CASE DIDs[gw.did] = "ACTIVE_SLOT" -> [gw.seen EXCEPT !.slot = answer.number]
             [] DIDs[gw.did] = "APP_VERSION" -> [gw.seen EXCEPT !.version = answer.data]
             [] DIDs[gw.did] = "CONFIRM_RESULT" -> [gw.seen EXCEPT !.confirmed = answer.number = 1]
             [] DIDs[gw.did] = "FACTORY_IDENTITY" -> gw.seen
  IN  IF result # "OK" THEN AnotherAttempt
      ELSE IF gw.did < Len(DIDs) THEN {[gw EXCEPT !.did = @ + 1, !.seen = s]}
      ELSE AnotherAttempt \cup
           IF gw.slow THEN {}
           ELSE IF gw.round = 1
           THEN {[gw EXCEPT !.round = 2, !.did = 1, !.first = s, !.seen = Nothing]}
           ELSE IF s = gw.first THEN SnapshotTaken(s) ELSE {}

\* security_access_unlock: a zero seed means that the node is unlocked already, any other is
\* signed by the TEE, if it can.
AfterSeed(result, seed) ==
  IF result # "OK" THEN Ended("SESSION_OPEN")
  ELSE IF seed = 0 THEN {[gw EXCEPT !.step = "erase"]}
  ELSE {[gw EXCEPT !.step = "key", !.token = seed]} \cup Ended("SESSION_OPEN")

\* wait_for_erase_completion: a node that is not done is asked again, until the deadline.
AfterResults(result) ==
  CASE result = "OK" -> {[gw EXCEPT !.step = "download"]}
    [] result = "RequestSequenceError" -> {gw} \cup Ended("AUTHORIZED")
    [] OTHER -> Ended("AUTHORIZED")

\* The loop of transfer_execute.
AfterBlock ==
  [gw EXCEPT !.offset = @ + Chunk, !.bsc = (@ + 1) % BscModulus, !.tested = FALSE,
             !.step = IF gw.offset + Chunk < gw.package.size THEN "block" ELSE "exit"]

\* A lost answer to the reset counts as sent.
AfterReset(result) ==
  IF result \in {"OK", "TIMEOUT"}
  THEN {[gw EXCEPT !.step = "reconnect", !.phase = "after", !.offset = 0, !.bsc = 1]}
  ELSE Ended("TRANSFERRED")

\* Fault: a request that timed out is sent again.
Faulty_Simply(result, next, state) ==
  CASE result = "OK"      -> {next}
    [] result = "TIMEOUT" -> {gw}
    [] OTHER              -> Ended(state)

\* A step that goes on to another, or ends the job.
Simply(result, next, state) == IF result = "OK" THEN {next} ELSE Ended(state)

\* Where the job may be after the client's result.
After(result, answer) ==
  CASE gw.step = "snapshot" -> AfterRead(result, answer)
    [] gw.step = "session"  -> Simply(result, [gw EXCEPT !.step = "seed"], "PACKAGE_VALIDATED")
    [] gw.step = "seed"     -> AfterSeed(result, answer.number)
    [] gw.step = "key"      ->
         Simply(result, [gw EXCEPT !.step = "erase", !.token = 0], "SESSION_OPEN")
    [] gw.step = "erase"    -> Simply(result, [gw EXCEPT !.step = "results"], "AUTHORIZED")
    [] gw.step = "results"  -> AfterResults(result)
    [] gw.step = "download" -> Simply(result, [gw EXCEPT !.step = "block"], "AUTHORIZED")
    [] gw.step = "tester"   ->
         Simply(result, [gw EXCEPT !.step = "block", !.tested = TRUE], "AUTHORIZED")
    [] gw.step = "block"    -> Simply(result, AfterBlock, "AUTHORIZED")
    [] gw.step = "exit"     -> Simply(result, [gw EXCEPT !.step = "reset"], "AUTHORIZED")
    [] gw.step = "reset"    -> AfterReset(result)

----------------------------------------------------------------------------
(* The job *)

\* mcu_update_run_image opens a socket of its own.
StartJob ==
  /\ ~ Working
  /\ \E package \in Packages :
       gw' = [IdleGateway EXCEPT !.step = "snapshot", !.package = package]
  /\ connected' = TRUE
  /\ UNCHANGED <<call, inbox, serving, answers>>

Asks ==
  /\ Asking
  /\ UDSSendRequest(StepRequest)
  /\ UNCHANGED gw

\* The job goes on from a result; one that is over has closed its socket.
GoesOn(result, answer, left) ==
  /\ gw' \in After(result, answer)
  /\ call' = None
  /\ IF gw'.step = "idle" THEN isotp_channel_close
     ELSE answers' = left /\ UNCHANGED connected
  /\ UNCHANGED <<inbox, serving>>

SendFails ==
  /\ Asking /\ Empty(call)
  /\ GoesOn("TPORT", None, Drained)

HearsAnswer ==
  /\ Hears
  /\ GoesOn(Result(Head(answers)), Head(answers), Tail(answers))

TimesOut ==
  /\ Waits
  /\ GoesOn("TIMEOUT", None, answers)

\* Two seconds since the last tester present, or since the download was accepted.
TesterPresentDue ==
  /\ gw.step = "block" /\ ~ gw.tested /\ Empty(call)
  /\ gw' = [gw EXCEPT !.step = "tester"]
  /\ UNCHANGED channelVars

\* The reconnection of read_snapshot_twice, whose failure does not count, and its deadline.
Attempts ==
  /\ gw.step = "attempt"
  /\ \/ gw' = [gw EXCEPT !.step = "snapshot"] /\ Reopen
     \/ gw' \in Ended("RECONNECTED") /\ isotp_channel_close
  /\ UNCHANGED <<call, inbox, serving>>

\* The reconnection after the reset.
Reconnects ==
  /\ gw.step = "reconnect"
  /\ Reopen
  /\ gw' \in IF connected' THEN {[gw EXCEPT !.step = "snapshot"]}
             ELSE Ended("RESET_SENT_OR_RESPONSE_LOST")
  /\ UNCHANGED <<call, inbox, serving>>

\* A restart of the node takes longer than a snapshot may.
NodeWasAway ==
  gw' = IF gw.step = "snapshot" /\ (gw.did > 1 \/ ~ Empty(call)) THEN [gw EXCEPT !.slow = TRUE] ELSE gw

\* SIGALRM, and the process starts anew.
update_watchdog_expired ==
  /\ Working
  /\ gw' \in Ended("NONE")
  /\ call' = None
  /\ isotp_channel_close
  /\ UNCHANGED <<inbox, serving>>

\* What the updater does of its own accord, step after step.
JobStep ==
  \/ Asks \/ SendFails \/ HearsAnswer \/ TimesOut \/ Attempts \/ Reconnects
=============================================================================
