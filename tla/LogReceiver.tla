----------------------------- MODULE LogReceiver -----------------------------
(***************************************************************************)
(* log_receiver.c and the loop of log_receiver_main.c: one record under    *)
(* assembly, for the frames of all nodes, told apart by nothing.  The      *)
(* lengths are in range by the format of a frame: 64 fragments of at most  *)
(* 7 bytes fill the line.                                                  *)
(***************************************************************************)
EXTENDS Integers, Sequences

VARIABLES
  receiver,  \* LogReceiver_t; its line is the sequence of frames copied into it
  sink       \* the record the last frame completed, <<>> if none

ResetReceiver == [active |-> FALSE, line |-> <<>>, next_fragment |-> 0]

InitReceiver == receiver = ResetReceiver /\ sink = <<>>

\* Fault: a fragment is taken whatever its index.
Faulty_Accepts(r, frame) == r.active

Accepts(r, frame) == r.active /\ r.next_fragment = frame.index

\* A start frame abandons what was under assembly.
AtFrame(r, frame) ==
  IF frame.start THEN [active |-> TRUE, line |-> <<>>, next_fragment |-> 0] ELSE r

log_receiver_accept(frame) ==
  LET r == AtFrame(receiver, frame)
      line == Append(r.line, frame)
  IN IF ~ Accepts(r, frame)
     THEN receiver' = ResetReceiver /\ sink' = <<>>
     ELSE IF frame.end
          THEN receiver' = ResetReceiver /\ sink' = line
          ELSE /\ receiver' = [active |-> TRUE, line |-> line,
                               next_fragment |-> r.next_fragment + 1]
               /\ sink' = <<>>

log_receiver_abort == receiver' = ResetReceiver /\ sink' = <<>>
=============================================================================
