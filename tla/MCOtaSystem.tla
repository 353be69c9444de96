---------------------------- MODULE MCOtaSystem ----------------------------
(***************************************************************************)
(* Two slots of two pages of one unit: the confirm field, and the rest of  *)
(* an image, which is a or b.  An update has two blocks.                   *)
(***************************************************************************)
EXTENDS OtaSystem

CONSTANTS a, b, confirm, blank, torn

MCData == {a, b, confirm}

Image(content) == [off \in 0 .. SlotSize - 1 |-> IF off = SlotSize - 1 THEN content ELSE blank]

MCImages == {Image(a), Image(b)}

MCPackages == {[image |-> Image(a), size |-> SlotSize]}
=============================================================================
