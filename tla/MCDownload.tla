----------------------------- MODULE MCDownload -----------------------------
(***************************************************************************)
(* A slot of two pages of two program units; the confirm field is the      *)
(* first unit of the second page.  Two images differ in their first unit.  *)
(***************************************************************************)
EXTENDS Download

CONSTANTS a, b, confirm, blank, torn

MCData == {a, b, confirm}

MCImage(head) == [off \in UnitOffsets |-> IF off = 0 THEN head ELSE IF off = 2 THEN a ELSE blank]

MCImages == {MCImage(a), MCImage(b)}
=============================================================================
