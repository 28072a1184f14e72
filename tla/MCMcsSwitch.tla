--------------------------- MODULE MCMcsSwitch ---------------------------
(* Users 2 and 15 of the table of 16, two modulations; an order lives for  *)
(* eight subframes, and a slot comes within three.                         *)
EXTENDS McsSwitch
===========================================================================
