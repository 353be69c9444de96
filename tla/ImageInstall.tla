---------------------------- MODULE ImageInstall ----------------------------
(***************************************************************************)
(* What an update promises, with nothing of how it is done: an image goes  *)
(* into a blank slot block by block, in order, each block whole and where  *)
(* the last one ended, and counts as complete only when all of it is       *)
(* there.  It may be given up at any time, but never resumed.              *)
(***************************************************************************)
EXTENDS FlashMap

CONSTANTS Lengths, Sizes

VARIABLES
  phase,    \* "closed", "blank", "filling" or "full"
  image,    \* what the slot holds, in the last three
  received, \* how many bytes of the image came
  size      \* how many there are to be

vars == <<phase, image, received, size>>

Closed == phase = "closed" /\ image = BlankArea /\ received = 0 /\ size = 0

Init == Closed

GiveUp == phase # "closed" /\ Closed'

Blank ==
  /\ phase = "closed"
  /\ phase' = "blank"
  /\ UNCHANGED <<image, received, size>>

Open(total) ==
  /\ phase = "blank"
  /\ total \in 1 .. SlotSize
  /\ phase' = "filling"
  /\ size' = total
  /\ UNCHANGED <<image, received>>

Append(block) ==
  /\ block.length \in 1 .. size - received
  /\ block.length % ProgramUnit = 0
  /\ image' = [off \in UnitOffsets |->
                 IF off \in received .. received + block.length - 1
                 THEN block.data[off - received] ELSE image[off]]
  /\ received' = received + block.length
  /\ UNCHANGED <<phase, size>>

Seal ==
  /\ phase = "filling"
  /\ received = size
  /\ phase' = "full"
  /\ UNCHANGED <<image, received, size>>

Next ==
  \/ GiveUp
  \/ Blank
  \/ \E total \in Sizes : Open(total)
  \/ phase = "filling" /\ \E block \in Buffers(Lengths) : Append(block)
  \/ Seal

Spec == Init /\ [][Next]_vars
=============================================================================
