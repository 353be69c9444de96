------------------------------- MODULE LogPath -------------------------------
(***************************************************************************)
(* The log's way from the nodes to the gateway's receiver, over a bus and  *)
(* a socket that may lose frames.                                          *)
(***************************************************************************)
EXTENDS ULogCan, LogReceiver

VARIABLES
  before,   \* the last frame of each node that arrived (history)
  spoilt    \* more is wrong with the record under assembly than one lost frame (history)

vars == <<mcu, written, receiver, sink, before, spoilt>>

Init ==
  /\ InitNodes
  /\ InitReceiver
  /\ before = [n \in Nodes |-> None]
  /\ spoilt = FALSE

\* How many fragments are missing, at least, between two frames of a node.
Missing(earlier, frame) ==
  IF earlier.record = frame.record
  THEN frame.index - earlier.index - 1
  ELSE (LastFragment(earlier.record) - earlier.index)
         + (frame.record.number - earlier.record.number - 1) + frame.index

Padded(frame) == frame.payload # PayloadOf(frame.record, frame.index)

SpoiltBy(earlier, frame) ==
  \/ Padded(frame)
  \/ ~ frame.start /\ (spoilt \/ earlier = None \/ Missing(earlier, frame) >= 2)

Arrives(frame) ==
  /\ log_receiver_accept(frame)
  /\ before' = [before EXCEPT ![frame.record.node] = frame]
  /\ spoilt' = SpoiltBy(before[frame.record.node], frame)

\* The frame at the head of the FIFO has left.
Sent(n) == /\ mcu[n].fifo # <<>>
           /\ \E node \in TransmitComplete(mcu[n]) : mcu' = [mcu EXCEPT ![n] = node]
           /\ UNCHANGED written

Transmit(n) ==
  /\ Sent(n)
  /\ Head(mcu[n].fifo) # Other
  /\ Arrives(Head(mcu[n].fifo))

\* It is lost, or the receiver has nothing to do with it.
TransmitUnseen(n) ==
  /\ Sent(n)
  /\ sink' = <<>>
  /\ UNCHANGED <<receiver, before, spoilt>>

\* A frame of the log's identifiers that is not one of the log.
Malformed ==
  /\ log_receiver_abort
  /\ UNCHANGED <<mcu, written, before, spoilt>>

Node(n) ==
  /\ \/ \E length \in Lengths : ULogCan_Enqueue(n, length)
     \/ ULogCan_Build(n)
     \/ ULogCan_Send(n)
     \/ OtherTraffic(n)
     \/ ResetCommunication(n)
     \/ Restart(n)
  /\ sink' = <<>>
  /\ UNCHANGED <<receiver, before, spoilt>>

Next ==
  \/ \E n \in Nodes : Node(n) \/ Transmit(n) \/ TransmitUnseen(n)
  \/ Malformed

Spec == Init /\ [][Next]_vars

----------------------------------------------------------------------------
(* Properties *)

TypeOK ==
  /\ DOMAIN mcu = Nodes /\ \A n \in Nodes : NodeTypeOK(mcu[n])
  /\ written \in [Nodes -> 0 .. MaxRecords]
  /\ receiver.line \in Seq(Frames) /\ sink \in Seq(Frames)
  /\ receiver.next_fragment = Len(receiver.line)
  /\ before \in [Nodes -> Frames \cup {None}]
  /\ spoilt \in BOOLEAN

\* The fragments of a record, all of them, as its node built them.
Whole(line) ==
  \E record \in {frame.record : frame \in {line[i] : i \in DOMAIN line}} :
    line = [i \in 1 .. LastFragment(record) + 1 |-> ULogCanWire_BuildFrame(record, i - 1)]

\* With one node, a record that is handed out is one that was written, whole, unless it was
\* padded or two fragments in a row went missing: no single loss, abort, restart or
\* re-initialisation joins two records or cuts one.
OneLossIsSeen == sink # <<>> /\ ~ spoilt => Whole(sink)

\* Frames arrive in the order the records were written, none twice: the buffer that waits for
\* the FIFO is neither overtaken nor overwritten nor sent again.
FramesInOrder ==
  [][\A n \in Nodes :
       before'[n] # before[n] /\ before[n] # None => Missing(before[n], before'[n]) >= 0]_before

\* A buffer that waits has a transmission under way, whose end will empty it: after LSS, too, the
\* log thread does not wait for an interrupt that never comes.
WaitingEnds == \A n \in Nodes : mcu[n].bufferFull => mcu[n].fifo # <<>>

\* Claimed by can/docs/ulog-can-protocol.md: the receiver discards an incomplete record whenever a
\* fragment is missing, out of order or superseded by a new start frame.
OneRecordAtATime ==
  \A i, j \in DOMAIN sink : sink[i].record = sink[j].record
=============================================================================
