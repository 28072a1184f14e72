---------------------------- MODULE MCEtherMap ----------------------------
(* Two clients and two ids.  Two addresses are behind the first client;    *)
(* the second takes ids, and gives them back.                              *)
EXTENDS EtherMap

CONSTANTS c1, c2, a1, a2
MCBehind == [c \in Clients |-> IF c = c1 THEN {a1, a2} ELSE {}]
===========================================================================
