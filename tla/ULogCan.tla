------------------------------- MODULE ULogCan -------------------------------
(***************************************************************************)
(* The log backend of a node: ulog_can.c, ulog_can_wire.c, the transmit    *)
(* path of CO_driver_STM32.c it uses, and what main.c's ResetCommunication *)
(* does to them.                                                           *)
(*                                                                         *)
(* A record is named by its node and its number; of its text only the      *)
(* length is kept.  A record that is too long or finds the queue full is   *)
(* dropped, which is the same as never written.                            *)
(***************************************************************************)
EXTENDS Integers, Sequences

CONSTANTS
  Nodes,
  Lengths,        \* of the records written
  PayloadSize,    \* MCU_LOG_CAN_PAYLOAD_SIZE: 7
  QueueCapacity,  \* ULOG_CAN_QUEUE_CAPACITY: 16
  FifoDepth,      \* transmit FIFO elements of the controller: 3
  MaxRecords,     \* bound: records written by a node
  None,
  Other           \* a frame of another transmit buffer: heartbeat, LSS, a response

ASSUME LogConstants ==
  /\ Lengths \subseteq Nat
  /\ PayloadSize \in Nat \ {0}
  /\ QueueCapacity \in Nat \ {0}
  /\ FifoDepth \in Nat \ {0}
  /\ MaxRecords \in Nat

VARIABLES
  mcu,      \* each node's backend, transmit buffer and controller
  written   \* how many records each has written (history)

Records == [node : Nodes, number : 1 .. MaxRecords, length : Lengths]

\* The index of a record's last fragment.
LastFragment(record) ==
  IF record.length = 0 THEN 0 ELSE (record.length - 1) \div PayloadSize

PayloadOf(record, index) ==
  LET remaining == record.length - index * PayloadSize
  IN IF remaining < PayloadSize THEN remaining ELSE PayloadSize

\* Fault: a last fragment that fills its frame is not marked.
Faulty_BuildFrame(record, index) ==
  [record |-> record, index |-> index, start |-> index = 0,
   end |-> PayloadOf(record, index) < PayloadSize,
   payload |-> PayloadOf(record, index)]

ULogCanWire_BuildFrame(record, index) ==
  [record |-> record, index |-> index, start |-> index = 0,
   end |-> index * PayloadSize + PayloadOf(record, index) = record.length,
   payload |-> PayloadOf(record, index)]

Frames ==
  [record : Records, index : Nat, start : BOOLEAN, end : BOOLEAN, payload : 0 .. PayloadSize]

ASSUME NoneIsNothing == None \notin Records /\ None \notin Frames

\* A node that has just started; its identifier may be unassigned.
StartedNode(assigned) ==
  [queue |-> <<>>, active |-> None, fragment |-> 0, built |-> FALSE,
   frame |-> None, bufferFull |-> FALSE, fifo |-> <<>>,
   assigned |-> assigned, registered |-> assigned]

InitNodes ==
  /\ mcu \in [Nodes -> {StartedNode(assigned) : assigned \in BOOLEAN}]
  /\ written = [n \in Nodes |-> 0]

----------------------------------------------------------------------------
(* The backend and its thread *)

BlocksInUse(node) == Len(node.queue) + (IF node.active = None THEN 0 ELSE 1)

ULogCan_Enqueue(n, length) ==
  /\ mcu[n].registered
  /\ written[n] < MaxRecords
  /\ BlocksInUse(mcu[n]) < QueueCapacity
  /\ written' = [written EXCEPT ![n] = @ + 1]
  /\ mcu' = [mcu EXCEPT ![n].queue =
       Append(@, [node |-> n, number |-> written[n] + 1, length |-> length])]

\* Fault: the poll does not look whether its buffer is still full.
Faulty_MayBuild(node) ==
  node.assigned /\ node.registered /\ ~ node.built

MayBuild(node) ==
  node.assigned /\ node.registered /\ ~ node.built /\ ~ node.bufferFull

\* ULogCan_Poll up to the call of CO_CANsend.  Threads of higher priority may come in here.
ULogCan_Build(n) ==
  LET node == mcu[n]
      fresh == node.active = None
      record == IF fresh THEN Head(node.queue) ELSE node.active
      index == IF fresh THEN 0 ELSE node.fragment
  IN /\ MayBuild(node)
     /\ fresh => node.queue # <<>>
     /\ mcu' = [mcu EXCEPT ![n] =
          [node EXCEPT !.queue = IF fresh THEN Tail(@) ELSE @,
                       !.active = record, !.fragment = index, !.built = TRUE,
                       !.frame = ULogCanWire_BuildFrame(record, index)]]
     /\ UNCHANGED written

\* With interrupts off: into the FIFO, or it waits in its buffer for a transmission to end.
CO_CANsend(node) ==
  IF Len(node.fifo) < FifoDepth
  THEN [node EXCEPT !.fifo = Append(@, node.frame)]
  ELSE [node EXCEPT !.bufferFull = TRUE]

\* CO_CANsend refuses a buffer that was full, although it may have sent it.
ULogCan_Send(n) ==
  LET node == mcu[n]
      sent == [CO_CANsend(node) EXCEPT !.built = FALSE]
  IN /\ node.built
     /\ mcu' = [mcu EXCEPT ![n] =
          IF node.bufferFull THEN sent
          ELSE [sent EXCEPT !.fragment = IF node.frame.end THEN 0 ELSE @ + 1,
                            !.active = IF node.frame.end THEN None ELSE @]]
     /\ UNCHANGED written

----------------------------------------------------------------------------
(* The controller, the other threads, LSS *)

OtherTraffic(n) ==
  /\ Len(mcu[n].fifo) < FifoDepth
  /\ mcu' = [mcu EXCEPT ![n].fifo = Append(@, Other)]
  /\ UNCHANGED written

\* HAL_FDCAN_TxBufferCompleteCallback: the free place goes to the log's buffer or to another one,
\* whose index is lower or whose thread was faster.
TransmitComplete(node) ==
  LET rest == Tail(node.fifo)
  IN {[node EXCEPT !.fifo = Append(rest, Other)],
      IF node.bufferFull
      THEN [node EXCEPT !.fifo = Append(rest, node.frame), !.bufferFull = FALSE]
      ELSE [node EXCEPT !.fifo = rest]}

\* Fault: the buffers keep what they held.
Faulty_Reinitialised(node, assigned) ==
  [node EXCEPT !.fifo = <<>>, !.assigned = assigned, !.registered = @ \/ assigned]

\* CO_CANmodule_init empties FIFO and buffers; with an identifier CO_CANtxBufferInit sets the
\* length of the log's frame to 8, also of one that is built and not sent yet.
Reinitialised(node, assigned) ==
  [node EXCEPT
     !.fifo = <<>>, !.bufferFull = FALSE,
     !.assigned = assigned, !.registered = @ \/ assigned,
     !.frame = IF assigned /\ node.built THEN [@ EXCEPT !.payload = PayloadSize] ELSE @]

ResetCommunication(n) ==
  /\ \E assigned \in BOOLEAN :
       mcu' = [mcu EXCEPT ![n] = Reinitialised(mcu[n], assigned)]
  /\ UNCHANGED written

Restart(n) ==
  /\ \E assigned \in BOOLEAN : mcu' = [mcu EXCEPT ![n] = StartedNode(assigned)]
  /\ UNCHANGED written

NodeTypeOK(node) ==
  /\ node.queue \in Seq(Records) /\ BlocksInUse(node) <= QueueCapacity
  /\ node.active \in Records \cup {None}
  /\ node.active # None => node.fragment \in 0 .. LastFragment(node.active)
  /\ node.frame \in Frames \cup {None}
  /\ node.built => node.frame # None
  /\ node.fifo \in Seq(Frames \cup {Other}) /\ Len(node.fifo) <= FifoDepth
  /\ {node.built, node.bufferFull, node.assigned, node.registered} \subseteq BOOLEAN
=============================================================================
