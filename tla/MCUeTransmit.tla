--------------------------- MODULE MCUeTransmit ---------------------------
(* Slots of 5 symbols, the fewest that hold a random access request, and a *)
(* frame of 2 subframes.  The scheduler runs as early as it can or as late *)
(* as it may: before the last symbol but one is written.  The sets of data *)
(* slots have every slot with and without each of its neighbours, those on *)
(* the other side of a subframe boundary included.                         *)
EXTENDS UeTransmit

EarlyOrLate == {0, 2 * SLOT_LEN + 2}

WithAndWithoutNeighbours == {{}, {0}, {3}, {1, 2}, {0, 3}, 0 .. 3}
===========================================================================
