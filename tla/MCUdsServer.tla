---------------------------- MODULE MCUdsServer ----------------------------
(***************************************************************************)
(* A slot of two pages of one unit each: the confirm field and the boot    *)
(* magic.  Three blocks wrap the counter.                                  *)
(***************************************************************************)
EXTENDS UdsServer

CONSTANTS a, confirm, blank, torn

MCData == {a, confirm}

MCImages == {[off \in 0 .. SlotSize - 1 |-> IF off = SlotSize - 1 THEN a ELSE blank]}
============================================================================
