-------------------------- MODULE NodeCommunication --------------------------
(***************************************************************************)
(* The communication of one node: its identifier (LssSlave) decides        *)
(* whether and where it hears requests (CanTransport), and getting one     *)
(* restarts both.  The CAN interrupt, the OTA thread and the main thread   *)
(* interleave; the main thread runs only while the OTA thread sleeps.      *)
(*                                                                         *)
(* The other end is the gateway: one updater, that first talks LSS through *)
(* the LSS gateway, and then sends requests through the ISO-TP socket of   *)
(* the kernel, which honours flow control.                                 *)
(***************************************************************************)
EXTENDS CanTransport, LssSlave, TLC

VARIABLES
  up,             \* the node runs
  otaThread,      \* "asleep", or where it is in its turn
  sender,         \* the request the gateway's kernel is sending
  flowControl,    \* a flow control of the node is on its way to the gateway
  clientOwes,     \* the gateway's kernel has the first frame of an answer
  heardSince      \* the OTA thread has emptied the ring since the last frame of a request

busVars == <<sender, flowControl, clientOwes, heardSince>>
vars == <<transportVars, lssVars, up, otaThread, busVars>>

IdleSender(pdu) == [state |-> "idle", pdu |-> pdu, next |-> 0, credit |-> 0]

Init ==
  /\ InitTransport
  /\ InitLss
  /\ up = TRUE
  /\ otaThread = "asleep"
  /\ \E pdu \in Pdus : sender = IdleSender(pdu)
  /\ flowControl = FALSE
  /\ clientOwes = FALSE
  /\ heardSince = TRUE

----------------------------------------------------------------------------
(* The gateway, and the bus *)

\* A frame gets to the interrupt if the node listens at all; the controller's FIFO may lose it.
OnBus(frame) ==
  /\ \/ up /\ ~ Unassigned /\ ReceiveUdsCanFrame(frame)
     \/ UNCHANGED s_can_rx_queue
  /\ UNCHANGED <<link, serving, lssVars, up, otaThread>>

\* A request is started when the one before was answered or given up, which takes longer than a
\* turn of the OTA thread and than a frame needs on the bus.
StartRequest(pdu) ==
  /\ sender.state = "idle"
  /\ heardSince /\ ~ flowControl
  /\ pdu # sender.pdu
  /\ \/ /\ sender' = IdleSender(pdu)
        /\ OnBus([type |-> "SF", pdu |-> pdu, index |-> 0])
     \/ /\ sender' = [state |-> "waiting", pdu |-> pdu, next |-> 1, credit |-> 0]
        /\ OnBus([type |-> "FF", pdu |-> pdu, index |-> 0])
  /\ heardSince' = FALSE
  /\ UNCHANGED <<flowControl, clientOwes>>

SendConsecutive ==
  /\ sender.state = "sending"
  /\ OnBus([type |-> "CF", pdu |-> sender.pdu, index |-> sender.next])
  /\ sender' = CASE sender.next = PduFrames - 1 -> IdleSender(sender.pdu)
                 [] sender.next < PduFrames - 1 ->
                      [sender EXCEPT !.next = @ + 1, !.credit = @ - 1,
                                     !.state = IF sender.credit = 1 THEN "waiting" ELSE @]
  /\ heardSince' = FALSE
  /\ UNCHANGED <<flowControl, clientOwes>>

\* A flow control that nobody waits for is ignored.
FlowControlArrives ==
  /\ flowControl
  /\ flowControl' = FALSE
  /\ sender' = IF sender.state # "waiting" THEN sender
               ELSE [sender EXCEPT !.state = "sending", !.credit = GrantedFrames]
  /\ UNCHANGED <<transportVars, lssVars, up, otaThread, clientOwes, heardSince>>

\* No flow control came in time, or the updater ended.
GivesUp ==
  /\ sender.state # "idle"
  /\ sender' = IdleSender(sender.pdu)
  /\ UNCHANGED <<transportVars, lssVars, up, otaThread, flowControl, clientOwes, heardSince>>

\* The kernel asks for the rest of an answer.
ClientFlowControl ==
  /\ clientOwes
  /\ clientOwes' = FALSE
  /\ OnBus([type |-> "FC", pdu |-> sender.pdu, index |-> 0])
  /\ UNCHANGED <<sender, flowControl, heardSince>>

\* An LSS frame: the updater has none of its requests under way then.
LssFrame ==
  /\ up
  /\ sender.state = "idle" /\ heardSince
  /\ CO_LSSslave_receive
  /\ UNCHANGED <<transportVars, up, otaThread, busVars>>

----------------------------------------------------------------------------
(* OtaThreadEntry *)

Wakes ==
  /\ up /\ otaThread = "asleep" /\ ~ Unassigned
  /\ otaThread' = "polling"
  /\ UNCHANGED <<transportVars, lssVars, up, busVars>>

PollsFrame ==
  /\ up /\ otaThread = "polling"
  /\ PollUdsCanFrame
  /\ flowControl' = (flowControl \/ SendsFlowControl)
  /\ UNCHANGED <<lssVars, up, otaThread, sender, clientOwes, heardSince>>

RingPolled ==
  /\ up /\ otaThread = "polling"
  /\ RingEmpty
  /\ otaThread' = "serving"
  /\ heardSince' = TRUE
  /\ UNCHANGED <<transportVars, lssVars, up, sender, flowControl, clientOwes>>

\* UDS_Poll, and to sleep.
UDS_Poll ==
  /\ up /\ otaThread = "serving"
  /\ otaThread' = "asleep"
  /\ \E l \in isotp_poll :
       \/ (TakeRequest(l) \/ NothingToDo(l) \/ ShortAnswer(l)) /\ UNCHANGED clientOwes
       \/ LongAnswer(l) /\ clientOwes' = TRUE
  /\ UNCHANGED <<s_can_rx_queue, lssVars, up, sender,
                 flowControl, heardSince>>

----------------------------------------------------------------------------
(* The main thread *)

MainThread ==
  /\ up /\ otaThread = "asleep"
  /\ \/ Inquire \/ RequestResetCommunication \/ ConfigureNodeId
     \/ StoreLssConfiguration \/ EraseStorage \/ ProgramStorage
  /\ UNCHANGED <<transportVars, up, otaThread, busVars>>

\* Interrupts are off throughout; a node that cannot do it stops in Error_Handler.
ResetCommunication ==
  /\ up /\ otaThread = "asleep"
  /\ mainThread.at = "reset"
  /\ TransportCleared
  /\ lss' = CO_LSSslave_init(s_lss_pending_node_id)
  /\ mainThread' = InLoop
  /\ up' \in BOOLEAN
  /\ heardSince' = TRUE
  /\ UNCHANGED <<s_lss_pending_node_id, s_lss_storage_word, storage, storedAs, otaThread, sender,
                 flowControl, clientOwes>>

\* What was in RAM is gone.
PowerFails ==
  /\ up
  /\ up' = FALSE
  /\ storage' \in StorageLeft
  /\ TransportCleared
  /\ otaThread' = "asleep"
  /\ mainThread' = InLoop
  /\ heardSince' = TRUE
  /\ UNCHANGED <<lss, s_lss_pending_node_id, s_lss_storage_word, storedAs,
                 sender, flowControl, clientOwes>>

Restart ==
  /\ ~ up
  /\ up' = TRUE
  /\ StartLss
  /\ UNCHANGED <<transportVars, otaThread, busVars>>

Next ==
  \/ \E pdu \in Pdus : StartRequest(pdu)
  \/ SendConsecutive \/ FlowControlArrives \/ GivesUp \/ ClientFlowControl \/ LssFrame
  \/ Wakes \/ PollsFrame \/ RingPolled \/ UDS_Poll
  \/ MainThread \/ ResetCommunication \/ PowerFails \/ Restart

Spec == Init /\ [][Next]_vars

----------------------------------------------------------------------------
(* Properties *)

\* The names of PDUs are interchangeable.
Names == Permutations(Pdus)

Identifiers == NodeIds \cup {CO_LSS_NODE_ID_ASSIGNMENT}

\* Every variable holds what its C counterpart can hold: an identifier in use or chosen is a
\* valid one or the one of no identifier, and the ring keeps one slot empty.
TypeOK ==
  /\ s_can_rx_queue \in Seq(Frames) /\ Len(s_can_rx_queue) < CAN_RX_QUEUE_CAPACITY
  /\ link.receive_status \in {"IDLE", "INPROGRESS", "FULL"}
  /\ link.send_status \in {"IDLE", "WAITING", "SENDING"}
  /\ link.received \in Seq(Frames) /\ Len(link.received) <= PduFrames
  /\ lss.activeNodeID \in Identifiers /\ s_lss_pending_node_id \in Identifiers
  /\ storage \in Words \cup {Torn} /\ s_lss_storage_word \in Words \cup {Torn}
  /\ mainThread.at \in {"loop", "erasing", "programming", "reset"}
  /\ storedAs \in Identifiers \cup {BadNodeId}

WholePdu(frames) ==
  /\ \A i \in DOMAIN frames : frames[i].pdu = frames[1].pdu /\ frames[i].index = i - 1
  /\ Len(frames) = IF frames[1].type = "SF" THEN 1 ELSE PduFrames

\* What the link hands to the server is one request, whole and in order, whatever frames the bus
\* lost and whichever request the gateway gave up half-way (isotp_on_can_message).
PduIsWhole == link.receive_status = "FULL" => WholePdu(link.received)

\* A sender that honours the block size cannot fill the ring, so the interrupt never drops a
\* frame, also when flow controls of answers that came too late are in it (ReceiveUdsCanFrame).
RingKeepsUp == ~ RingFull

\* A request that is complete leaves the link only for the server, or with a restart: neither a
\* later request nor ResetCommunication takes its place (the guard in PollUdsCanFrames).
PendingRequestStays ==
  [][link.receive_status = "FULL" /\ link'.receive_status # "FULL"
       => serving' # serving \/ (up /\ ~ up')]_vars

\* The flow control an answer waits for gets to it even while a complete request holds the link
\* (the other half of the guard in PollUdsCanFrames).
FlowControlIsHeard ==
  [][up' /\ ~ RingEmpty /\ link.send_status = "WAITING"
       /\ s_can_rx_queue' = Tail(s_can_rx_queue) /\ NextFrame.type = "FC"
       => link'.send_status = "SENDING"]_vars

\* The main thread resets the communication only of a node nobody can talk to yet: no frame, no
\* request, no answer and no log record (all of which need an identifier) is lost to it.
ResetCutsNothingShort ==
  mainThread.at = "reset" =>
    Unassigned /\ Chosen /\ RingEmpty /\ link = IdleLink /\ ~ serving

\* A node that left configuration with its first identifier has it, or is about to restart its
\* communication with it: it is never deaf to requests and to fastscan at once
\* (CO_LSSslave_receive against CO_LSSslave_process).
NoLostAssignment ==
  up /\ lss.lssState = "WAITING" /\ Chosen /\ Unassigned =>
    lss.service = "SWITCH_STATE_GLOBAL" \/ mainThread.at = "reset"

\* A node that confirmed CFG_STORE, and was not asked to store anything else since, starts with
\* that identifier (StoreLssConfiguration, CO_storageBlank_auto_process).
StoredIdentifierComesBack ==
  [][storedAs # BadNodeId /\ ~ up /\ up' => lss'.activeNodeID = storedAs]_vars
=============================================================================
