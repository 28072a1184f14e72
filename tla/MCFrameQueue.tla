--------------------------- MODULE MCFrameQueue ---------------------------
(* A ring of three cells that turns round more than once, frames of one or *)
(* two bytes, slots that take one: any order of the steps.                 *)
EXTENDS FrameQueue
===========================================================================
