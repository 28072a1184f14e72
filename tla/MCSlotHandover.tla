-------------------------- MODULE MCSlotHandover --------------------------
(* Two ids.  The slots that could be mistaken for each other, neighbours   *)
(* and slot 3 and slot 0 of the next subframe, belong to different users,  *)
(* to the same one, or one of them to nobody.                              *)
EXTENDS SlotHandover

RowOf(a, b, c, d) == [s \in Slots |-> <<a, b, c, d>>[s + 1]]

MCRows ==
  {EmptyRow, RowOf(1, 2, 1, 2), RowOf(2, 1, 2, 1), RowOf(1, 1, 2, 2),
   RowOf(1, 2, 1, 0), RowOf(2, 0, 1, 0), RowOf(0, 1, 0, 2), RowOf(1, 1, 1, 1),
   RowOf(2, 2, 2, 0), RowOf(0, 0, 0, 1)}
===========================================================================
