-------------------------- MODULE MCMacScheduler --------------------------
(* A frame of 4 subframes and a table of 8 ids, of which 2 .. 7 are users. *)
EXTENDS MacScheduler
===========================================================================
