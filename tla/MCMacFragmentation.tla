------------------------ MODULE MCMacFragmentation ------------------------
(* A small fragmenter and reassembler: 3 sequence numbers, 3 fragment      *)
(* numbers and frames that need between one and five fragments.            *)
EXTENDS MacFragmentation

MCFrameSizes == {1, 4, 5}
MCSlotSizes == {4, 6}
===========================================================================
