--------------------------- MODULE MCMacSession ---------------------------
(* Two clients, which draw from two random ids, and two user ids.          *)
EXTENDS MacSession
===========================================================================
