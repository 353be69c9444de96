# can_boot: a TLA+ model of the update path

The repository is the firmware of an STM32U5 node on a CAN bus (`can/`), the Linux gateway that
updates it (`gateway/`), and the wire definitions they share. This directory holds TLA+ modules for
the parts whose correctness depends on order, failure and concurrency, the TLC configurations that
check them on small instances, and proofs that TLAPS checks for every instance.

    tlc -config MCDownload.cfg MCDownload      # model-check
    tlapm Download_proofs.tla                  # prove

`PROJECT.json` lists the components, the runs, the theorems, the hazards, a mutation of the model for
each property that the property must catch, and for each definition the source lines it models.

## 1. Inventory

### On the MCU

| component | source | state | operations | hard because |
|---|---|---|---|---|
| flash driver | `boot/flash_map.c` | the flash | open, read, erase a page, write units, sector of an offset | a call fails half way; a unit can be programmed once only |
| erase job | `download/erase_job.c` | area, offset | reset, start, poll | one page per poll, over many turns; dropped half way |
| download session | `download/download.c` | state, target slot, block counter, bytes received, size | init, abort, prepare, poll, begin, transfer, exit | two layers keep a session each; resets between calls |
| boot observation | `boot/boot_observation.c` | none; a record the bootloader leaves in a page of the flash | active slot, inactive slot, running version | the record may not verify |
| image confirmation | `boot/image_confirm.c` | last result | write the confirm field at start-up | a torn field stays torn |
| UDS server | `uds/uds_server.c`, `third_party/iso14229` | session type, security level, transfer, timers, one request in flight | 0x10 0x11 0x22 0x27 0x31 0x34 0x36 0x37 0x3E | the library and the application each hold part of the truth |
| security access | `security/security_access.c`, `security_token*.c` | seed, unlocked | seed, key, clear | a seed must serve once |
| scheduling | `Core/Src/main.c` | reset due, CAN receive ring, LSS word | OTA loop (1 ms), LSS on the main thread, heartbeat, log and watchdog threads | `ResetCommunication` re-initialises what other threads use |
| CAN driver, ISO-TP port | `transport/CO_driver_STM32.c`, `isotp_stm32.c` | transmit buffers, filters | send, interrupts | interrupt against thread |
| LSS slave, its storage | `main.c`, `CO_LSSslave.c`, CANopenNode storage | LSS state and service, identifiers; one word in flash and in RAM | frames in the interrupt, answers and storing on the main thread | interrupt against thread; power failure between erase and program |
| ULog over CAN | `transport/ulog_can*.c` | record queue, record and fragment in flight | enqueue, poll | queue full; transmit buffer full; re-initialisation |
| factory identity, watchdog | `identity/`, `watchdog/` | constant page; the hardware counter | read; feed | |

### On the gateway

| component | source | state | operations | hard because |
|---|---|---|---|---|
| OTA executor | `src/ota/ota_executor.c`, `ota_snapshot.c` | how far the update came | one run: snapshot, session, unlock, transfer, reset, verify | the MCU may restart, answers get lost, CONFIRMED must be true |
| transfer helper | `src/ota/transfer.c` | offset, block counter | erase and wait, request, blocks, exit | deadlines; no retry of an ambiguous block |
| UDS client, ISO-TP channel | `src/uds/`, `src/transport/` | one request in flight | send, wait, time out | late answers |
| package, token | `src/package/`, `src/security/` | none | parse; ask OP-TEE | |
| updater | `apps/mcu_updater/` | watchdog timer, reconnect | one job per process | a signal ends it anywhere |
| SWUpdate handler | `adapters/swupdate/remote_handler.c` | a REP socket and its file, a lock file | bind, receive, acknowledge, close | sessions end anywhere; a request does not name its session |
| LSS gateway | `apps/LSS_gateway/`, CANopenNode's `CO_gateway_ascii.c`, `CO_LSSmaster.c` | one client, a one-shot listener, interpreter and LSS master | epoll loop | clients are killed in the middle of a command, nodes in the middle of an answer |
| log receiver | `src/log/` | record under assembly | accept a frame, abort | lost fragments |

Calls go down (gateway executor, UDS client, CAN, `iso14229`, `uds_server.c`, `download.c`,
`erase_job.c`, `flash_map.c`); events come up as return codes. The only shared state between MCU
threads is the communication state `ResetCommunication` rebuilds with interrupts off, the receive ring
and the log queue.

### What makes each one correct

- *Flash, erase job, download*: the running image survives everything; READY means blank; nothing is
  programmed twice; a session completes only with the whole image; an erasure ends.
- *UDS server*: no download outlives its session and unlock; the two layers count the same blocks; an
  acknowledged block is in the flash, once, at its place; a deaf server comes back.
- *Security access*: a token is good for one try, of the seed it was signed for.
- *Log path*: what the receiver hands out is a record that was enqueued, whole.
- *Gateway*: CONFIRMED only if the node runs the new image and confirmed it; an attempt that failed
  can be followed by one that works; every run ends.
- *LSS slave*: after a restart the node has the identifier it last confirmed to have stored; an
  identifier it was given becomes active.
- *LSS gateway*: a client gets the replies to its own commands, the identifier of the node it addressed,
  and does not wait for ever; one client leaves nothing behind for the next.
- *Updater service*: success means that the artifact was installed, whole; one session leaves nothing behind
  that costs the next more than a refusal.

## 2. Modules

| module | models | state |
|---|---|---|
| `FlashMap` | `flash_map.c` over one slot: operators for erase and write, with every area a failed call may leave | none |
| `Download` | `download.c`, `erase_job.c`, `boot_observation.c`, `image_confirm.c` and the start of `main()` | `flash`, `running`, `activeSlot` (the bootloader's record), `alive`, `session` (`s_download`), `job` (`s_erase_job`) |
| `SecurityAccess` | `security_access.c`; a token is named by the seed it was signed for | `sec` (`s_security`), and two history variables |
| `UdsServer` | `uds_server.c` with the server half of `iso14229.c`, composed with `Download` and `SecurityAccess`, and `main.c`'s OTA loop, `ResetCommunication` and resets | those above, `server` (`s_server`), `reply`, `resetRequested` |
| `UdsTimers` | the P2, S3, reset and delay timers of `iso14229.c` and the delayed reset of `main.c`, on a clock that wraps | `tick` (`HAL_GetTick`), `server` (the timers of `s_server`), `resetDue`, and history variables |
| `ULogCan` | `ulog_can.c`, `ulog_can_wire.c`, the transmit half of `CO_driver_STM32.c` | `mcu` (per node: record queue, record and fragment in work, transmit buffer, FIFO), `written` |
| `LogReceiver` | `log_receiver.c` and its loop | `receiver` (`LogReceiver_t`), `sink` (the record just completed) |
| `LogPath` | the two composed, over a bus and a socket that lose frames | those, and two history variables |
| `CanTransport` | the receive ring of `main.c`, the ISO-TP link of `isotp.c`, and the library's poll against it | `s_can_rx_queue`, `link` (`phys_link`), `serving` |
| `LssSlave` | `CO_LSSslave.c`, and how `main.c` stores and reads the identifier | `lss` (`CO_LSSslave_t`), `s_lss_pending_node_id`, `s_lss_storage_word`, `storage` (the page), `mainThread`, one history variable |
| `NodeCommunication` | the two composed with the gateway's sender and the bus: interrupt, OTA thread, main thread | those, `up`, `otaThread`, the sender, the flow control on its way |
| `UdsClient` | `uds_client.c` with the client half of `iso14229.c` over `isotp_channel.c` | the call in progress, the node's inbox, the answers on their way, `connected` |
| `OtaExecutor` | a job: `ota_executor.c`, `ota_snapshot.c`, `transfer.c`, `security_access.c`, `update_job.c` | `gw`: the step and what it remembers |
| `OtaSystem` | the job over the channel on `UdsServer` | all of those, and one history variable |
| `LssMaster` | the daemon `LSS_gateway.c` with interpreter and LSS master, and its clients (`request_target_node`) | `client`, `armed` (the listener), `gtwa`, `master`, `clients`, the sockets |
| `LssCommissioning` | `LssMaster` and `LssSlave` over the bus | those, `up`, `identity` |
| `UpdaterService` | `remote_handler.c` and the transaction of `mcu_updater.c`, between SWUpdate (external) and systemd | `updater`, `endpoint` (the socket file), `image` (the memfd), `expected`, the requests and the answer on their way, `session` |
| `ImageInstall` | abstract: an image goes whole and in order into a blank slot, or not at all | `phase`, `image`, `received`, `size` |
| `*_proofs` | theorems about `Download`, `UdsServer`, `UdsTimers`, `NodeCommunication`, `LogPath`, `UpdaterService`, `OtaSystem`, `LssCommissioning` | |
| `MCDownload`, `MCUdsServer`, `MCOtaSystem` | constants for TLC | |

**Flash.** A slot is a function from the offset of each program unit to its content: a member of
`Data`, `Erased` (0xFF), or `Torn`, what a failed program or erase leaves. `WriteFailures` is the set of
areas `flash_area_write` may leave when it answers -1: the units before the one that failed stay
programmed. As in the code, a unit whose new content is all 0xFF is skipped, and its destination is not
read back.

**Download.** An action is one call; a call that is refused changes nothing and is a stutter, except
where the code resets the session (`Download_Prepare` after `Download_Reset`). `Download_Poll` has one
alternative for a page that is erased and one for each way it fails. `Boot` stands for a reset at any
time: MCUboot (external: it starts any slot whose image it accepts, and its record may not verify),
then the confirmation and `Error_Handler`. A power failure inside a flash call is the failed call
followed by `Boot`. The node begins as it serves for the first time, with a confirmed image that runs and any image, or none, in
the second slot.

**UdsServer.** An action is what one turn of the OTA loop does about one event. A request is heard only
when the last one is answered and no reset is due. For each service the order of the checks is that of
the code: first the library's (transfer open? counter? total?), then session, unlock, download session,
flash. Where the library gives a transfer up, `ResetTransfer` is part of the action. Both halves of
`SessionTimeout` happen in one turn. `ResetCommunication` runs on the lower-priority main thread with
interrupts off, so between turns; it ends what was in flight and keeps a scheduled reset of `main.c`,
as the code does.

**UdsTimers.** `UdsServer` lets every timer pass when it likes, which shows what holds whatever the
timing; this module keeps the timing and drops the services. An action is one turn of the OTA loop, one or
two milliseconds after the last: expired timers first, then an answer that is due, else a request. The
count is taken modulo `Modulus`, and the comparison is that of `iso14229.h:656`. `ResetCommunication`
makes a new server whose clock stands at 0 until the next turn (`uds_server.c:336`), whatever
`HAL_GetTick` says. The assumption that a turn fits in P2 is the profile's: the board must show that a page
erase and a write do (`can/docs/uds-can-profile.md:67`). A request is answered at the first turn at which P2 has
passed (`iso14229.c:2681-2698`), so its answer leaves up to one turn less a millisecond after P2: with turns of 1 ms at P2
exactly, with a page erase in the turn later than the 50 ms that `uds-can-profile.md:43` announces.

**ULogCan, LogReceiver, LogPath.** A record is its node, its number and its length. `ULogCan_Poll` is two
actions, because `CO_CANsend` locks interrupts and the code before it does not: `ULogCan_Build` up to the
built frame and `ULogCan_Send`. The transmit interrupt and the main thread (priority 10, the log thread has
20) may come between. `TransmitComplete` is the end of a transmission with its interrupt: the free place of
the FIFO goes to the log's waiting buffer or to another's. `ResetCommunication` empties FIFO and buffers
(the controller's re-initialisation is external) and sets the frame length to 8 if the node has an
identifier. `LogPath` lets it come at any point, which is more than the code does: only a node without an identifier
resets (`ResetCutsNothingShort`), and such a node does not log. The receiver is the code's, state for state.

**CanTransport, LssSlave, NodeCommunication.** A frame carries its type, its PDU and its place; payloads
and lengths are left out. The interrupt (`ReceiveUdsCanFrame`, `CO_LSSslave_receive`) may come between any
two steps; the main thread runs only while the OTA thread sleeps, as the priorities have it. A PDU is taken
from the ring one frame at a time, with the guard that lets flow controls pass a request that waits. Storing
is three steps: the RAM copy, the erase, the program, each of the last two may fail or lose power, and a
torn word read back is a hang (ECC, `stm32u5xx_it.c`) or a value that is refused. Assumed of the gateway: it
honours flow control, starts a request only when the node has emptied its ring since the last frame of the one
before (P2 is 50 ms, a turn 1 ms), and sends LSS frames only while no request is under way. Receive timeouts
(N_Cr, N_Bs, 1 s) may pass whenever the partner is silent.

**UdsClient, OtaExecutor, OtaSystem.** A request is one step from send to the node, one to its handling,
one to the answer; any of them may be lost, and an answer may come late, when the client has gone on to
another request. The library's checks of an answer (SID, sub-function) decide whether it is taken. The
executor's step is what it does between two requests. Assumed: a version names one image; a node that
answers started through `main()`, so its record is valid and its image is confirmed; the node never
answers 0x78; nothing outlives its request by more than one further request (`MaxAnswers`); and *a
restart of the node takes longer than a snapshot may* (`OTA_SNAPSHOT_MAX_SPAN_MS`, 500 ms). Without the last
one TLC finds an update that is reported as CONFIRMED and is not: four restarts that alternate between the
slots, inside the reads of the two snapshots. The payload of a block is a constant;
the code takes it from the answer to 0x34 and the client's limit (256 against 258 with two of header). A package for another node ends the job at the first snapshot.

**LssMaster, LssCommissioning.** An action of the daemon is one turn of its loop: the event, then
`CO_GTWA_process` as a whole. The master's functions are operators that return what the function returns and
the master after it. The interrupt of the slave and its main thread are those of `LssSlave`. The address of a
node is one bit, so a fastscan has three steps. An answer and the end of its service are one step of the
slave, and the four frames of a selection are one: that is sound while no node is in configuration when it begins, which
TLC confirmed for one updater at a time (a node in configuration would answer, and miss what follows). `DaemonRestarts` is a
kill or a failure; on SIGTERM the daemon closes its client, which deselects. Assumed: frames are not lost while the node is up; the node answers before a timeout passes (100 or 1000 ms, against a page erase and
program); the daemon takes ready descriptors in turn, so answers do not pile up in its CAN socket (`MaxUnread`).
In the product there is one updater at a time and it receives a whole image before it connects; `OneUpdater`
says so. With two at once a client may be told the identifier of another node (the node is busy with the killed
client's service, hears neither the deselection nor the fastscan, and answers to the next client's commands); the
update is then still refused, by the identity that is read over UDS.

**UpdaterService.** DATA is one block or "one that is too long"; an artifact is 1 to `MaxChunks` blocks, or
too large. An update is one step with either result. The process may be killed anywhere, systemd starts it
again and keeps the directory of the socket file (`RuntimeDirectoryPreserve=restart`) unless the service is
stopped. Sessions give up at any point, and what they sent is still delivered, which is how ZeroMQ treats the
requests of clients that are gone. The endpoint is a REP socket, which takes its peers in turn: the requests of one
session are received in the order they were sent, those of different sessions in any order. Requests do not name their
session; the model remembers it to say what was installed. Left out: a second instance (the lock), a failing `memfd_create`, the
receive timeout of `INT_MAX` ms.

*Abstracted in `UdsServer`*: the suppress-positive-response bit and requests of a wrong format (both are
`OtherRequest`: they change nothing but the reply; the exception is 0x27 with a key of another level, empty or too long,
`SendUnusableKey`, after which the library makes the next one wait), P2 and S3 values (timers may pass at any time), the
text of a token. Seeds are numbered and never repeat. That is an assumption: a seed is four bytes of the hardware
generator (`shared/uds_protocol.h:56`), so two are equal with a probability of one in 2^32.

## 3. Runs

| run | question | bounds |
|---|---|---|
| `download` | does the session keep its promises under any caller, flash and power? | two slots of 2 pages of 2 units; images of 3 (odd), 6, 8 bytes, and refused ones (0, 9); blocks of half a unit to more than the maximum; a counter modulo 3, which wraps within an image |
| `uds_server` | do library and application agree, do they install an image, and does a deaf server come back? | two slots of 2 pages of 1 unit; blocks and images of 0 to 3; 2 seeds; counter modulo 3 |
| `uds_timers` | do the timers hold when the clock wraps? | a clock of 16 counts; P2 2, S3 5, power-down 3, delays 4, turns of 1 or 2: each delay shorter than half the clock, as in the product, and P2 shorter than the power-down time, as `iso14229.h:189` insists |
| `answered_within_p2` | what a comment and the profile say, violated | as `uds_timers` |
| `log_path` | what does the receiver hand out when frames are lost? | one node; 4 records of 0, 3, 4 or 5 units in frames of 2, so one to three fragments, the last full or not; a queue of 2, a FIFO of 2 |
| `one_record_at_a_time` | what the protocol's document says, violated | two nodes, a record of two fragments each |
| `node_communication` | do requests arrive whole, and identifiers survive? | a ring of 6, block size 2, PDUs of 4 frames, sequence numbers modulo 3, two PDUs (symmetric), one identifier; block size + 3 is below the ring, as in the product (8 and 32) |
| `ota_system` | is CONFIRMED true, and where can an update get stuck? | two slots of 2 pages of 1 unit, two images, an update of two blocks, one seed (two were checked as well), one late answer |
| `lss_commissioning` | is a client told the right identifier, and does it come back? | two clients in turn, identifiers 2 and 3, both addresses, 2 answers in the socket |
| `updater_service` | what can a session that was cut short do to the next one? | images of 1 or 2 blocks, and one that is too large; 4 session numbers; requests of different sessions in any order |
| `acked_is_installed` | what two documents say, violated | as `updater_service` |
| `erase_enables_download` | what a document says, violated | as `uds_server` |

Two pages are enough for "erased in part" and "erased"; two units in a page for a write or an erase
that stops half way; a block of two units crosses a unit, one of the maximum and one above it meet both
sides of the limit. The second page begins with the confirm field, so the download's end meets it.
Two seeds are needed for a token of an older one. No property depends on three of anything else.

**Properties of `download`.** `RunningImagePreserved`: whatever is asked and wherever the flash fails,
the running image stays one MCUboot starts. `PreparedSlotIsBlank`: READY only with the whole inactive slot
blank. `JobMatchesSession`: the job is the session's or there is none. `ProgrammedOnce`: a unit that is not blank changes only under
the erase job. `PreparationEnds`: PREPARING leads to something else.

**Properties of `uds_server`.** `DownloadIsAuthorised`: a download exists only in an unlocked programming
session. `LayersAgree`: same counter, bytes and total on both layers while both take blocks.
`SeedTriedOnce`: no token unlocks against a seed that was tried. `DeafnessEnds`: after 0x11 the server ignores requests
until the node restarts, or LSS re-initialises it; the accepted reset is never lost for good. `InstallsImage`: refinement of
`ImageInstall`. `Download` alone does not refine it: `flash_map.c:225-228` skips units of 0xFF without
reading their destination, so a block that failed half way and is sent again with other content would
be taken over units already programmed. The library closes this hole by ending its transfer at the first
block refused; the refinement mapping therefore calls a transfer "filling" only while `xferIsActive`.

**Properties of `uds_timers`.** `SessionLapses`: no programming session outlives S3 without a request that
keeps it. `SessionNotCutShort`: and none ends before. `KeyDelayed`: two wrong keys are more than the delay
apart. `AnsweredInTime`: no request is still unanswered after the first turn at which P2 has passed since it came, that
turn counted, as long as the P2 timer is younger than half the clock. `AnsweredBeforeReset`: the answer to 0x11 leaves before the reset is handed on.

**Properties of `log_path`.** `OneLossIsSeen`: a record that is handed out was written, whole, unless two
fragments in a row went missing since it began, or it was padded (below). The bound is tight: frames carry
an index and no record number, so the loss of the end of one record and of the start of the next joins
them. A full FIFO dropped by `ResetCommunication` is such a loss. `FramesInOrder`: no frame overtakes, overwrites
or repeats another on its way through the waiting buffer. `WaitingEnds`: a waiting buffer always has an
interrupt to come. *Padded*: `ResetCommunication` between `ULogCan_Build` and `ULogCan_Send` sets the
frame's length to 8, so a short last fragment arrives with zeros behind it. The run finds it if `Padded`
is taken out of `SpoiltBy`. The firmware does not reach it, as section 2 says.

**Properties of `node_communication`.** `PduIsWhole`: what the link hands to the server is one request, in order,
whatever was lost or given up. `RingKeepsUp`: a sender that honours flow control never fills the ring.
`ResetCutsNothingShort`: `ResetCommunication` meets only a node
nobody can talk to. `NoLostAssignment`: a node is never deaf to requests and to fastscan at once.
`StoredIdentifierComesBack`: a confirmed identifier is there after any restart.

**Properties of `ota_system`.** `ConfirmedIsInstalled`: CONFIRMED only if the target slot holds the image,
confirmed. `TransferredIsInFlash`: a job that goes on to the reset has left the whole image in a slot.
`OnlyReadsTakeLateAnswers`: a late answer passes for the answer to a 0x22 and to nothing else; the double
snapshot is there for those. `TokenSkippedOnlyWhenUnlocked`: with this client the zero seed is honest
(with others it is not, see below). `StrandedOnlyByCutTransfer`: the state of `EraseEnablesDownload` arises only after a job
was cut off in its transfer.

**Properties of `lss_commissioning`.** `QueriedIsAddressed`: the identifier a client is told is
that of the node it named, also after sessions that were cut short. `AssignedIsStored`: the daemon reports an
identifier only when the node has it in its flash. `EveryClientIsServed`: nobody waits for ever. `ReplyIsOwn`: no
client reads a reply that was made for another one.

**Properties of `updater_service`.** `OneLeftIsHarmless`: a session that succeeds was installed, whole and
confirmed, unless the sessions before it had left more than one request: whatever that one is, and wherever it comes
between the requests of the session, it cannot bring it an ACK that is not its own. The bound is tight
(`AckedIsInstalled` fails with two). `RefusedOnce`: a session that was cut short costs one refusal.

### Fairness

Weak fairness of the steps of the OTA thread (`SendResponse`, `DoScheduledReset`, `Download_Poll`,
`PollReset`): it has a loop that runs every millisecond (`main.c:386-408`) and nothing in it blocks.
Weak fairness of `SendResponse` leaves out what `AnsweredWithinP2` shows: it says the P2 timer passes.
Weak fairness of `WatchdogReset`: the independent watchdog runs on its own clock, and `Error_Handler`
turns off the interrupts that let its feeding thread run. No fairness for requests, timeouts of the
session, LSS or power. In `Download`, only of `Download_Poll`. In `LssCommissioning`: of the daemon's loop
(its timer never stops), of frames on the bus, of the slave's main thread and its restart of communication,
and of clients reading what is there; none for power, kills, or new clients. The other modules state none: what
they promise is safety, and their retries end by deadlines on wall-clock time.

### What the violated runs show

1. `EraseEnablesDownload`. A transfer left by 0x10 01, by S3 or by starting FF00 again is aborted in
   `download.c` but stays open in the library (`xferIsActive`). The next erase succeeds and 0x34 is answered
   0x22, until some 0x36 or 0x37 fails and resets it. The gateway sends neither after a failed attempt.
   `gateway/docs/ota-executor.md:37-38`, `can/docs/uds-can-profile.md:93-94`.
2. `AnsweredWithinP2`. `p2_timer` is set when an answer goes out and not when a request comes in. After
   half the clock's range without an answer (24.8 days) it lies in the future, and requests wait until the
   clock comes round; so they do after LSS in the upper half of the clock. `iso14229.h:663`. The two delay
   timers of 0x27 have the same flaw (`iso14229.c:1614`, `:1618`).
3. `OneRecordAtATime`. One receiver takes the frames of all nodes and `log_frame.c` drops the identifier:
   the start of one node's record abandons the other's, whose next fragment completes the wrong one, with
   no frame lost. `can/docs/ulog-can-protocol.md:33-35`; that document also says that a rejection by the
   FIFO ends the record, and the code keeps the fragment and sends it later.
4. `AckedIsInstalled`. `install_remote_image` takes INIT and DATA from whoever sends them, and the REP socket takes
   its peers in turn (`remote_handler.c:124`). Two sessions gave up and left an INIT each, as they do when SWUpdate is
   restarted twice during an update. The INIT of the third is received first, then one of the two, which ends the
   transaction, then the other, which opens one for more blocks; the last block of the third session is a block in the
   middle of that one and gets its ACK: success, and nothing was installed. `gateway/docs/module-boundaries.md:356-357`,
   `gateway/docs/systemd-hawkbit-runtime.md:164`. The same freedom mixes images, even with one request left: the
   process is restarted between the INIT and the DATA of a session that gives up, the next INIT is accepted first, and
   the old DATA is its first block. The update then gets an image of both (MCUboot refuses it:
   no signature covers the mixture).

### Seen while modelling, without a run

- A locked server answers a zero seed: a change of session clears the application's unlock (`uds_server.c:90`) and not
  the library's level, which only a session timeout does (`iso14229.c:2651`), so after 0x10 01, 0x10 02 the seed is zero
  and the application refuses what follows. `iso14229.c:1662-1663` says that this shall never be. On `MCUdsServer` TLC
  finds `[][RequestSeed /\ reply' = Reply("0x27 seed", "OK") => sec.unlocked]_vars` violated.
- A second start of FF00 restarts the job; `can/docs/uds-can-profile.md:51-52` says NRC 0x24
  (`StartEraseMemory` in `UdsServer`).
- A client of the LSS gateway is killed right after it selected a node. The node owes its answer and drops the
  deselection (`CO_LSSslave.c:47`); still in configuration, it acknowledges the fastscan of the next session although it
  has an identifier (`:163-167`), and is given one anew (`gateway/docs/systemd-hawkbit-runtime.md:98-99`,
  `CO_LSSmaster.h:195`).
- The total timeout (`update_job.c:38`) and a request that is too long (`remote_handler.c:181`) end the updater without
  an answer (`gateway/docs/module-boundaries.md:356-357`).
- A process killed between `zmq_bind` and `chmod` leaves an endpoint that later ones refuse (`endpoint = "private"`),
  until the service is stopped.
- `ReplyIsOwn` was also checked with two clients at once (`OneUpdater = FALSE`, one identifier): it holds.

## 4. Proofs

`Download_proofs` proves, from the assumptions `FlashGeometry`, `FlashContents` and `DownloadConstants`
alone (a slot is a whole number of pages, a page of units; `Erased`, `Torn` and `Data` differ; the confirm
field lies on a unit and is blank in an image), for any geometry, counter width, images and caller:

    TypeCorrect           Spec => []TypeOK
    RunningImageSafe      Spec => []RunningImagePreserved
    PreparationComplete   Spec => []PreparedSlotIsBlank
    JobOwned              Spec => []JobMatchesSession
    NoPartialImage        Spec => []ReceivedWithinImage
    ConfirmedServes       Spec => []ServesConfirmed
    NothingOverwritten    Spec => ProgrammedOnce

(`NoPartialImage`: a session has whole units within its image, and all of it when it completes.
`ConfirmedServes`: the image of a node that is alive has its confirm field, since `image_confirm.c` either wrote it or
kept the node from serving.)
The inductive invariant `IInv` is their conjunction with four facts none of them is inductive without:
`RecordIsTrue` (a node that lives trusts a record that names the running slot) and
`SessionOwnsInactive` (a session that owns a slot owns the other one) keep erasures and writes off the running
image; `ErasedBehindJob` (what lies below the job's offset is blank) makes the last poll leave a blank
slot; `NothingReceived` starts the count at 0. There is a lemma per action. Under them lie lemmas on
offsets (`SameUnit`: two units less than a unit apart are one), on what a failed erase or write leaves
(`WriteFailureIsArea`, `WriteTakesBlankUnits`), and on the confirm field (`ConfirmWriteIsLocal`,
`BootableIgnoresConfirm`).

`UdsServer_proofs` reuses that invariant through an instance and adds `ServerTypes`, `Seeds` (no seed above
those drawn) and `Transfer` (what library and application each hold of a transfer, for each state of the session), from
`ServerConstants`. Each step lemma shows `Preserved`: the invariant after the step, and a step or a stutter of
`ImageInstall`. The refinement and the invariant are proved together because the mapping calls a transfer "filling"
from `xferIsActive`, which only `Transfer` ties to the session.

    TypeCorrect, DownloadAuthorised, LayersInStep, RunningImageSafe, SeedUsedOnce, ImplementsImageInstall

`UdsTimers_proofs` works on the circle of the clock: `Past(now, t, k)` says that the clock stands k ticks after t,
and the invariant `TimerInv` bounds, for each timer, how far it can lie behind or ahead. From `ClockConstants` (every
delay shorter than half the clock; P2 at most the power-down time, which `iso14229.h:189-190` enforces), for any width of
the clock:

    TypeCorrect, SessionEnds, SessionLastsItsTime, KeysAreDelayed, AnswersInTime, AnswerPrecedesReset

`NodeCommunication_proofs` has two halves. In the one about the identifier `IdentityInv` is `Shape` (types),
`ThreadFollowsSlave` (the main thread is busy with the service the slave is answering), `SilentUnassigned` (a node without identifier
has nothing under way), `StoreHolds` (what was confirmed is in RAM, and in flash or about to be) and `NoLostAssignment`.
The one about the way of a request builds on it: `RingInv` (which frames the ring can hold, and how many controls among them),
`LinkWhole` (what the link has is a prefix of one PDU), `InStep` (sender, ring and link agree on the frame to
come) and `FewControls`. From `TransportSizes`, `NodeIdentifiers` and `TornWord`, and for `RingNeverFull` from
`BlockSize + 3 < CAN_RX_QUEUE_CAPACITY`, which the product's 8 and 32 satisfy:

    TypeCorrect, AssignmentNeverLost, ResetIsHarmless, IdentifierSurvives, RequestNeverOverwritten,
    FlowControlGetsThrough; RequestIsWhole, RingNeverFull

`LogPath_proofs`: `LogInv` says of each node that its queue, its buffer and its FIFO hold frames of which each
precedes the next, all of them done with respect to what is still to be built. For one node, `LoneInv` adds that what is
under assembly begins the record of the frame that came last. From `LogConstants` and `NoneIsNothing`, for any number of
nodes, except the last, which is false for two (`OneRecordAtATime`):

    TypeCorrect, WaitAlwaysEnds, NoneOvertakes; SingleLossSeen for one node

Of the listed ones, `ConfirmedServes`, `RequestNeverOverwritten` (a complete request leaves the link for the server only) and
`FlowControlGetsThrough` (the flow control the node waits for gets past it) state properties no run checks.

`UpdaterService_proofs`: `ServiceInv` is `Shape` (types, and a transaction that is not full), `OneAtATime` (the
session that waits has one request, or one answer, or is the one the process owes an answer) and `Fate`, which says of the
session in progress which of six courses it takes while at most one request was left to disturb it: nothing was received
yet (`Beginning`), the transaction holds its own blocks and nothing else so far (`Undisturbed`), or all of them
(`Complete`), or it was installed; another request came between, so that the transaction cannot be finished by its last
block (`Disturbed`); or nothing will answer it any more (`Unanswered`). Success follows only from the fourth. From
`ServiceBounds` alone, for images of any length, any number of session numbers and any order of reception:

    OneLeftDoesNoHarm, OneRefusal

`OtaSystem_proofs` covers the whole job, over a channel that loses and delays, on a node that restarts anywhere, for
every geometry, package and number of late answers. It assumes `NodeConstants` (what the proofs about the node assume),
`PackageContents` (an image has a size the node accepts, nothing beyond it, and no confirm field of its own) and
`BlockPayloads` (a block can have any length up to the payload):

    LateAnswersAreReadings    Spec => OnlyReadsTakeLateAnswers
    TokenSkipped              Spec => TokenSkippedOnlyWhenUnlocked
    StrandedByCut             Spec => []StrandedOnlyByCutTransfer
    ConfirmedInstalled        Spec => ConfirmedIsInstalled
    TransferredInFlash        Spec => []TransferredIsInFlash

All of them rest on `Core`, the invariant of `UdsServer` carried over by an instance, and what the channel can hold: at
most one request, behind it answers of which the late ones come first (`QueueInOrder`); each of them was made for
the request of the present step, or for a reading that was given up (`Asked`, `OwnAnswers`, `Lingering`); an answer that
grants something to the job describes the node as it is (`Requested`, `Granted`). The first theorem follows from `Core`
alone. `Level` adds that the library's level means "unlocked"; it is not inductive without the fact that a request behind
an answer that is still due is a reading. `Stranded` says which answers mean that the library has closed its
transfer. `SnapshotIsTrue` says that what a snapshot has read so far still holds, unless a restart made it too slow to
count; two snapshots that agree with the target then fix slot and version, and a version names one image.
`Progress` follows the image into the slot: no page is erased once the job was told so (`Prepared`); while both layers
have the transfer open the slot holds what the job has sent and is blank behind it, or one block more, whose answer is
not heard yet (`Filled`); after the exit it holds the whole image (`Whole`).

`LssCommissioning_proofs` covers the daemon, its clients and the node for any number of clients, identifiers and
addresses, from `MasterConstants`, `NodeIdentifiers` and `TornWord`:

    Sessions                             Spec => [](Session /\ Node)
    ReplyOwn                             Spec => []ReplyIsOwn
    QueriedAddressed   OneUpdater  =>   (Spec => []QueriedIsAddressed)
    AssignedStored     OneUpdater  =>   (Spec => AssignedIsStored)

`TurnsTo` says once what a turn of the interpreter can come to (nothing, a wait, a request, a stored identifier, an
end), command by command; the rest is proved from it. `Session` is inductive whoever the clients are: a client waits
in the queue or is the one that is served (`Queue`), the daemon works on the command that one waits for, and holds a reply
only if that one is dead (`ServesOwn`), what the master sends and awaits belongs to the command (`Commanded`). So
`ReplyOwn` needs no assumption about clients. `QueriedIsAddressed` fails with two at a time, as section 2 says;
`AssignedIsStored` does not on the instance of the run (TLC, `OneUpdater = FALSE`), but its proof needs `Link`, which does
fail: what a killed client asked for may still be under way when the next one is served. With one updater at a time the
bus is idle when an updater connects, and `Updating` holds: between two updaters nothing is claimed (`Free`); while one is
served, one request or answer is under way (`Pipe`), the answers to CFG_NODE_ID and CFG_STORE are true of the node
(`Configured`), a fastscan without an answer means a node out of configuration (`Scanned`), and a node in configuration
when the selection is acknowledged is the one that was named (`Selected`). TLC checked `Session`, `Node` and `Updating` on
the instance of the run first.

*Model-checked only*: liveness (`PreparationEnds`, `DeafnessEnds`, `EveryClientIsServed`), which TLAPS does not
do. Every safety property of a passing run has its theorem: four of them under the condition on the constants named
above (`BlockSize`, one node, `OneUpdater`), the others for all that the modules' assumptions allow.

## 5. Not modelled

- Cryptography (COSE, ECDSA, the entropy source, OP-TEE): a token is the seed it was signed for.
- Package metadata, factory identity, `byte_order.c`: pure functions over a constant file or page. A package is for
  this node or refused.
- The heartbeat thread, statistics, printing: no state another part reads.
- The watchdog beyond its effect on a node in `Error_Handler`.
- MCUboot beyond "it starts an image it accepts"; the kernel's ISO-TP beyond flow control; ZeroMQ, SWUpdate and
  systemd beyond what the code relies on.
- CAN filters, bus-off and error states of the driver; the commands of the interpreter the updater does not send.
- Two instances of `mcu-updater` (the lock keeps the second out).
- The services of `iso14229.c` that no event handler of the node accepts.
- Vendored code: HAL, CMSIS (the CMSIS DSP library and device headers alone are most of the
  1.15 million lines of this repository), RT-Thread, QCBOR, t_cose. CANopenNode and `iso14229` are modelled where the program runs through them.
