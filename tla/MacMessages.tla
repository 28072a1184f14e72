---------------------------- MODULE MacMessages ----------------------------
(***************************************************************************)
(* The binary form of the MAC messages: mac/mac_messages.c.  A message is  *)
(* a record of its type, a CtrlID_e, and the fields of its header; a data  *)
(* message has a payload of bytes besides.  Header writes what the create  *)
(* function of the type leaves in hdr_bin, and Parse reads it back.        *)
(***************************************************************************)
EXTENDS Integers, Sequences

Byte == 0 .. 255
NULL == [type |-> 0]

associate_response == 1
dl_mcs_info == 2
ul_mcs_info == 3
timing_advance == 4
session_end == 5
dl_data == 7
ul_req == 9
channel_quality == 10
keepalive == 11
control_ack == 12
mcs_change_req == 13
ul_data == 15

MsgTypes == {associate_response, dl_mcs_info, ul_mcs_info, timing_advance,
             session_end, dl_data, ul_req, channel_quality, keepalive,
             control_ack, mcs_change_req, ul_data}

IsData(type) == type \in {dl_data, ul_data}

(* mac_msg_get_hdrlen.                                                     *)
HdrLen(type) ==
  CASE type \in {associate_response, dl_data, ul_data} -> 3
    [] type \in {timing_advance, ul_req} -> 2
    [] OTHER -> 1

PayloadLen(m) == IF IsData(m.type) THEN Len(m.data) ELSE 0
MsgLen(m) == HdrLen(m.type) + PayloadLen(m)

---------------------------------------------------------------------------
(* The create functions: fields are cut to the width they have on the air. *)

AssociateResponse(userid, rachuserid, response, ta) ==
  [type |-> associate_response, userid |-> userid % 16,
   rachuserid |-> rachuserid % 16, response |-> response % 8,
   protoVersion |-> 0, timing_advance |-> ta % 256]

McsInfo(type, mcs) == [type |-> type, mcs |-> mcs % 32]
TimingAdvance(ta) == [type |-> timing_advance, timingAdvance |-> ta % 8192]
SessionEnd == [type |-> session_end]
UlReq(size) == [type |-> ul_req, packetqueuesize |-> size % 8192]
Keepalive == [type |-> keepalive]
ControlAck(type) == [type |-> control_ack, acked_ctrl_id |-> type % 8]
McsChangeReq(is_ul, mcs) ==
  [type |-> mcs_change_req, ul_flag |-> is_ul % 2, mcs |-> mcs % 16]
DataMsg(type, final, seqNr, fragNr, data) ==
  [type |-> type, data_length |-> Len(data) % 4096, final_flag |-> final % 2,
   seqNr |-> seqNr % 8, fragNr |-> fragNr % 32, data |-> data]

(* What they leave of the control messages of clients, of the base         *)
(* station to one user, and to all.                                        *)
UlControl ==
  [type : {ul_req}, packetqueuesize : 0 .. 8191]
    \cup [type : {keepalive}]
    \cup [type : {control_ack}, acked_ctrl_id : 0 .. 7]
    \cup [type : {mcs_change_req}, ul_flag : 0 .. 1, mcs : 0 .. 15]
DlControl ==
  [type : {dl_mcs_info, ul_mcs_info}, mcs : 0 .. 31]
    \cup [type : {timing_advance}, timingAdvance : 0 .. 8191]
    \cup [type : {session_end}]
BroadcastControl ==
  [type : {associate_response}, userid : 0 .. 15, rachuserid : 0 .. 15,
   response : 0 .. 7, protoVersion : {0}, timing_advance : 0 .. 255]

(* The control id is the low 3 bits of the type, in the top of byte 1.     *)
CtrlId(type) == (type % 8) * 32

Header(m) ==
  LET id == CtrlId(m.type)
  IN  CASE m.type = associate_response ->
             <<id + m.userid * 2 + m.rachuserid \div 8,
               (m.rachuserid % 8) * 32 + m.response * 4 + m.protoVersion,
               m.timing_advance>>
        [] m.type \in {dl_mcs_info, ul_mcs_info} -> <<id + m.mcs>>
        [] m.type = timing_advance ->
             <<id + m.timingAdvance \div 256, m.timingAdvance % 256>>
        [] m.type = ul_req ->
             <<id + m.packetqueuesize \div 256, m.packetqueuesize % 256>>
        [] m.type = control_ack -> <<id + m.acked_ctrl_id * 4>>
        [] m.type = mcs_change_req -> <<id + m.ul_flag * 16 + m.mcs>>
        [] IsData(m.type) ->
             <<id + m.data_length \div 128,
               (m.data_length % 128) * 2 + m.final_flag,
               m.seqNr * 32 + m.fragNr>>
        [] m.type \in {session_end, keepalive} -> <<id>>
        [] m.type = channel_quality -> <<0>>

(* mac_msg_generate.                                                       *)
Generate(m) == IF IsData(m.type) THEN Header(m) \o m.data ELSE Header(m)

---------------------------------------------------------------------------
(* The type of the message that starts with byte b; uplink types are       *)
(* numbered from 8.                                                        *)
TypeOf(b, ul_flag) == (b \div 32) + (IF ul_flag THEN 8 ELSE 0)

(* The parse functions of the types.                                       *)
ParseHeader(type, buf) ==
  CASE type = associate_response ->
         [type |-> type, userid |-> (buf[1] % 32) \div 2,
          rachuserid |-> (buf[1] % 2) * 8 + buf[2] \div 32,
          response |-> (buf[2] % 32) \div 4, protoVersion |-> buf[2] % 4,
          timing_advance |-> buf[3]]
    [] type \in {dl_mcs_info, ul_mcs_info} ->
         [type |-> type, mcs |-> buf[1] % 32]
    [] type = timing_advance ->
         [type |-> type, timingAdvance |-> (buf[1] % 32) * 256 + buf[2]]
    [] type = ul_req ->
         [type |-> type, packetqueuesize |-> (buf[1] % 32) * 256 + buf[2]]
    [] type = control_ack ->
         [type |-> type, acked_ctrl_id |-> (buf[1] % 32) \div 4]
    [] type = mcs_change_req ->
         [type |-> type, ul_flag |-> (buf[1] % 32) \div 16,
          mcs |-> buf[1] % 16]
    [] IsData(type) ->
         [type |-> type,
          data_length |-> (buf[1] % 32) * 128 + buf[2] \div 2,
          final_flag |-> buf[2] % 2,
          seqNr |-> buf[3] \div 32, fragNr |-> buf[3] % 32]
    [] OTHER -> [type |-> type]

(* mac_msg_parse: NULL when buf is empty, starts with a byte that ends the *)
(* channel or is of no type, or is shorter than the message.               *)
Parse(buf, ul_flag) ==
  IF buf = <<>> \/ buf[1] \div 32 = 0 THEN NULL
  ELSE LET type == TypeOf(buf[1], ul_flag)
       IN  IF type \notin MsgTypes \/ Len(buf) < HdrLen(type) THEN NULL
           ELSE LET hdr == ParseHeader(type, buf)
                    first == HdrLen(type) + 1
                IN  IF ~IsData(type) THEN hdr
                    ELSE IF Len(buf) < HdrLen(type) + hdr.data_length THEN NULL
                    ELSE [type |-> type, data_length |-> hdr.data_length,
                          final_flag |-> hdr.final_flag, seqNr |-> hdr.seqNr,
                          fragNr |-> hdr.fragNr,
                          data |-> SubSeq(buf, first,
                                          first + hdr.data_length - 1)]
===========================================================================
