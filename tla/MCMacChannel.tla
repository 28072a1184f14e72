--------------------------- MODULE MCMacChannel ---------------------------
(* Channels of 6 usable bytes and the messages each direction has, with    *)
(* field values at the ends of their ranges.                               *)
EXTENDS MacChannel

MCUlMessages ==
  {UlReq(n) : n \in {0, 255, 256, 8191}} \cup
  {Keepalive, ControlAck(dl_mcs_info), McsChangeReq(1, 6), McsChangeReq(0, 15)}
MCDlMessages ==
  {McsInfo(dl_mcs_info, 0), McsInfo(ul_mcs_info, 6), SessionEnd,
   TimingAdvance(0), TimingAdvance(8191)}
MCBroadcastMessages ==
  {AssociateResponse(2, 7, 0, 0), AssociateResponse(15, 8, 0, 300),
   AssociateResponse(0, 15, 1, -1)}
MCRandomBytes == {0, 255, 96, 32}
===========================================================================
