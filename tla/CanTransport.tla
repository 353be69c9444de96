---------------------------- MODULE CanTransport ----------------------------
(***************************************************************************)
(* How a UDS request gets from the node's CAN controller to its server:    *)
(* the receive ring of can/Core/Src/main.c, filled by the interrupt and    *)
(* emptied by the OTA thread, and the ISO-TP link of isotp.c behind it,    *)
(* as the library's server drives it.                                      *)
(*                                                                         *)
(* A frame carries its type, the PDU it belongs to and its place in it     *)
(* (0 is the single or first frame).  A PDU of more than one frame has     *)
(* PduFrames of them.  Lengths and payloads are left out.                  *)
(***************************************************************************)
EXTENDS Integers, Sequences

CONSTANTS
  CAN_RX_QUEUE_CAPACITY,  \* slots of the ring: 32 in the product
  BlockSize,              \* ISO_TP_DEFAULT_BLOCK_SIZE: 8 in the product
  SnModulus,              \* the sequence number of a consecutive frame has 4 bits
  PduFrames,              \* frames of a segmented PDU
  Pdus                    \* names of PDUs

ASSUME TransportSizes ==
  /\ CAN_RX_QUEUE_CAPACITY \in Nat \ {0, 1}
  /\ BlockSize \in Nat \ {0}
  /\ SnModulus \in Nat /\ SnModulus > BlockSize
  /\ PduFrames \in Nat \ {0, 1}

VARIABLES
  s_can_rx_queue,  \* the frames from s_can_rx_tail up to s_can_rx_head
  link,            \* s_uds_transport.phys_link
  serving          \* the server works on a request, or waits for P2 to answer it

transportVars == <<s_can_rx_queue, link, serving>>

Frames == [type : {"SF", "FF", "CF", "FC"}, pdu : Pdus, index : 0 .. PduFrames - 1]

IdleLink == [receive_status |-> "IDLE", received |-> <<>>, send_status |-> "IDLE"]

\* What ResetCommunication and a start leave.
TransportCleared ==
  /\ s_can_rx_queue' = <<>>
  /\ link' = IdleLink
  /\ serving' = FALSE

InitTransport ==
  /\ s_can_rx_queue = <<>>
  /\ link = IdleLink
  /\ serving = FALSE

----------------------------------------------------------------------------
(* The ring *)

\* One slot stays empty: a head that caught up with the tail would look like an empty ring.
RingFull == Len(s_can_rx_queue) = CAN_RX_QUEUE_CAPACITY - 1
RingEmpty == s_can_rx_queue = <<>>

\* The interrupt of a frame with the identifier of the node; a full ring drops it.
ReceiveUdsCanFrame(frame) ==
  s_can_rx_queue' = IF RingFull THEN s_can_rx_queue ELSE Append(s_can_rx_queue, frame)

NextFrame == Head(s_can_rx_queue)

\* A request that is complete stays until the server takes it; flow controls pass.
Delivers(frame) == link.receive_status # "FULL" \/ frame.type = "FC"

----------------------------------------------------------------------------
(* The ISO-TP link *)

FirstFrame(l, frame) == [l EXCEPT !.receive_status = "INPROGRESS", !.received = <<frame>>]

\* receive_sn is 1 after the first frame and counts on.
ExpectedSn(l, frame) == frame.index % SnModulus = Len(l.received) % SnModulus

\* Fault: the last frame is not waited for.
Faulty_Complete(received) == Len(received) >= PduFrames - 1

\* receive_offset has reached receive_size.
Complete(received) == Len(received) = PduFrames

ConsecutiveFrame(l, frame) ==
  IF l.receive_status # "INPROGRESS" THEN l
  ELSE IF ~ ExpectedSn(l, frame) THEN [l EXCEPT !.receive_status = "IDLE", !.received = <<>>]
  ELSE [l EXCEPT !.received = Append(@, frame),
                 !.receive_status = IF Complete(Append(l.received, frame)) THEN "FULL" ELSE @]

isotp_on_can_message(l, frame) ==
  CASE frame.type = "SF" -> [l EXCEPT !.receive_status = "FULL", !.received = <<frame>>]
    [] frame.type = "FF" -> FirstFrame(l, frame)
    [] frame.type = "CF" -> ConsecutiveFrame(l, frame)
    [] frame.type = "FC" -> IF l.send_status = "WAITING"
                            THEN [l EXCEPT !.send_status = "SENDING"] ELSE l

\* Fault: the flow control puts no limit to the frames that follow.
Faulty_GrantedFrames == PduFrames

\* What a flow control grants: its block size.
GrantedFrames == BlockSize

\* The frame just taken earns the sender another block: a first frame, or the last of a block.
GrantsBlock(l) ==
  l.receive_status = "INPROGRESS" /\ (Len(l.received) - 1) % BlockSize = 0

\* One turn of the loop of PollUdsCanFrames; the link is touched with interrupts on again, but
\* by this thread alone.
PollUdsCanFrame ==
  /\ ~ RingEmpty
  /\ s_can_rx_queue' = Tail(s_can_rx_queue)
  /\ link' = IF Delivers(NextFrame) THEN isotp_on_can_message(link, NextFrame) ELSE link
  /\ UNCHANGED serving

\* That turn sends a flow control.
SendsFlowControl ==
  /\ Delivers(NextFrame)
  /\ NextFrame.type = "FF" \/ (NextFrame.type = "CF" /\ link'.received # link.received)
  /\ GrantsBlock(link')

\* isotp_poll: an answer under way goes on, ends, or gets no flow control in time; so does a
\* reception that gets no further frame.
isotp_poll ==
  LET receptions == {link} \cup IF link.receive_status # "INPROGRESS" THEN {}
                                ELSE {[link EXCEPT !.receive_status = "IDLE", !.received = <<>>]}
  IN  receptions \cup {[l EXCEPT !.send_status = "IDLE"] : l \in receptions}

\* UDSServerPoll: takes a whole request when it has none, and answers once P2 has passed.  An
\* answer is dropped when the one before is still being sent.
TakeRequest(l) ==
  /\ ~ serving /\ l.receive_status = "FULL"
  /\ serving' = TRUE
  /\ link' = [l EXCEPT !.receive_status = "IDLE", !.received = <<>>]

NothingToDo(l) ==
  /\ serving \/ l.receive_status # "FULL"
  /\ link' = l
  /\ UNCHANGED serving

\* An answer of one frame, or one that cannot be sent.
ShortAnswer(l) ==
  /\ serving
  /\ serving' = FALSE
  /\ link' = l

\* The first frame of a longer one.
LongAnswer(l) ==
  /\ serving /\ l.send_status = "IDLE"
  /\ serving' = FALSE
  /\ link' = [l EXCEPT !.send_status = "WAITING"]
=============================================================================
