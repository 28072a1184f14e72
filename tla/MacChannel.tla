---------------------------- MODULE MacChannel ----------------------------
(***************************************************************************)
(* A logical channel, mac/mac_channels.c: the sender collects messages in  *)
(* the bytes of one slot, fills the rest with random bytes and adds a CRC; *)
(* the receiver verifies the CRC and takes messages out until there is no  *)
(* further one.  What separates the messages from the random bytes behind  *)
(* them is a single byte 0, and nothing when the channel is full.          *)
(*                                                                         *)
(* The messages wait in a control queue or come from the fragmenter with   *)
(* the size that the channel has left, as in mac_bs_map_slot.              *)
(***************************************************************************)
EXTENDS MacMessages, SequencesExt, FiniteSetsExt

CONSTANTS
  SLOT_BYTES,     (* chan->payload_len: the bytes of the slot              *)
  CrcType,        (* chan->crc_type: the bytes of the CRC                  *)
  UlMessages,         (* control messages that clients send                *)
  DlMessages,         (* that the base station sends to one user           *)
  BroadcastMessages,  (* and that it sends to all                          *)
  FragmentByte,   (* what fragments consist of                             *)
  RandomBytes,    (* values of rand()                                      *)
  MaxCtrl         (* bound: control messages waiting                       *)

ASSUME ChannelAssumption ==
  /\ SLOT_BYTES \in Nat /\ CrcType \in 1 .. 2 /\ SLOT_BYTES > CrcType
  /\ SLOT_BYTES <= 4096         (* the length of a fragment has 12 bits    *)
  /\ UlMessages \subseteq UlControl /\ DlMessages \subseteq DlControl
  /\ BroadcastMessages \subseteq BroadcastControl
  /\ FragmentByte \in Byte
  /\ RandomBytes \subseteq Byte /\ RandomBytes # {}
  /\ MaxCtrl \in Nat

VARIABLES
  ul_flag,      (* the channel is an uplink channel                        *)
  ctrl_queue,   (* the control messages that wait                          *)
  data,         (* chan->data, without the bytes of the CRC                *)
  writepos,     (* chan->writepos                                          *)
  phase,        (* "fill", "air", "parse" or "end"                         *)
  crc_ok,       (* the CRC is that of data                                 *)
  added,        (* history: the messages that were added                   *)
  parsed        (* history: the messages taken out, of which it keeps one  *)
                (* more at most than were added                            *)

channelVars == <<ul_flag, ctrl_queue, data, writepos, phase, crc_ok, added, parsed>>

DataType == IF ul_flag THEN ul_data ELSE dl_data

Usable == SLOT_BYTES - CrcType

(* Changed form: the bytes of the CRC are taken to be free.                *)
UnusedAndCrc == SLOT_BYTES - writepos

(* lchan_unused_bytes.                                                     *)
Unused == Usable - writepos

ChannelInit ==
  /\ ul_flag \in BOOLEAN
  /\ \/ ul_flag /\ ctrl_queue \in SeqOf(UlMessages, MaxCtrl)
     \/ ~ul_flag /\ ctrl_queue \in SeqOf(DlMessages, MaxCtrl)
                                 \cup SeqOf(BroadcastMessages, MaxCtrl)
  /\ data = [i \in 1 .. Usable |-> 0]
  /\ writepos = 0
  /\ phase = "fill"
  /\ crc_ok = FALSE
  /\ added = <<>>
  /\ parsed = <<>>

(* The bytes b written to data behind writepos.                            *)
Written(b) ==
  [i \in 1 .. Usable |-> IF i \in writepos + 1 .. writepos + Len(b)
                         THEN b[i - writepos] ELSE data[i]]

(* lchan_add_message, for a message that fits: the next byte is set to 0.  *)
AddMessage(m) ==
  /\ MsgLen(m) <= Unused
  /\ data' = Written(Generate(m) \o
                     (IF MsgLen(m) < Unused THEN <<0>> ELSE <<>>))
  /\ writepos' = writepos + MsgLen(m)
  /\ added' = Append(added, m)

(* Changed form: the loop goes on while a single byte is left.             *)
RoomForCtrlAny == Unused > 0

(* The loop's estimate of whether a message fits.                          *)
RoomForCtrl == Unused > 1

(* One iteration of lchan_add_all_msgs.  The next message is taken from    *)
(* the queue, and is lost when it does not fit.                            *)
AddCtrl ==
  /\ phase = "fill"
  /\ ctrl_queue # <<>> /\ RoomForCtrl
  /\ ctrl_queue' = Tail(ctrl_queue)
  /\ \/ AddMessage(Head(ctrl_queue))
     \/ /\ MsgLen(Head(ctrl_queue)) > Unused
        /\ UNCHANGED <<data, writepos, added>>
  /\ UNCHANGED <<ul_flag, phase, crc_ok, parsed>>

(* Then a fragment is cut to what is left: the whole of it, if it is not   *)
(* the last one of its frame.  At least a header's room is taken to be     *)
(* left, which the real slot and queue sizes ensure.                       *)
AddFragment ==
  /\ phase = "fill"
  /\ ctrl_queue = <<>> \/ ~RoomForCtrl
  /\ ~\E i \in DOMAIN added : IsData(added[i].type)
  /\ Unused >= HdrLen(DataType)
  /\ \E n \in 0 .. Unused - HdrLen(DataType), final \in 0 .. 1 :
       /\ final = 1 \/ n = Unused - HdrLen(DataType)
       /\ AddMessage(DataMsg(DataType, final, n, n, [i \in 1 .. n |-> FragmentByte]))
  /\ UNCHANGED <<ul_flag, ctrl_queue, phase, crc_ok, parsed>>

(* Changed form: every unused byte is filled.                              *)
FillFromWritepos == writepos

(* The index of the first byte that is filled: byte writepos stays 0.      *)
FillFrom == writepos + 1

(* lchan_calc_crc: the unused bytes but one become random.                 *)
CalcCrc ==
  /\ phase = "fill"
  /\ ctrl_queue = <<>> \/ ~RoomForCtrl
  /\ phase' = "air"
  /\ crc_ok' = TRUE
  /\ \E r \in RandomBytes :
       data' = [i \in 1 .. Usable |-> IF i - 1 >= FillFrom THEN r ELSE data[i]]
  /\ UNCHANGED <<ul_flag, ctrl_queue, writepos, added, parsed>>

(* The slot is received, damaged or not.                                   *)
Receive ==
  /\ phase = "air"
  /\ writepos' = 0
  /\ crc_ok' \in BOOLEAN
  /\ phase' = IF crc_ok' THEN "parse" ELSE "end"
  /\ UNCHANGED <<ul_flag, ctrl_queue, data, added, parsed>>

(* Changed form: only the payload is counted, so that a control message    *)
(* does not move writepos on.                                              *)
NextPosPayload(msg) == writepos + PayloadLen(msg)

(* Where the message after msg begins.                                     *)
NextPos(msg) == writepos + MsgLen(msg)

(* lchan_parse_next_msg.                                                   *)
ParseNext ==
  /\ phase = "parse"
  /\ LET msg == Parse(SubSeq(data, writepos + 1, Usable), ul_flag)
     IN  IF msg # NULL
         THEN /\ parsed' = IF Len(parsed) > Len(added) THEN parsed
                           ELSE Append(parsed, msg)
              /\ writepos' = NextPos(msg)
              /\ phase' = phase
         ELSE /\ writepos' = SLOT_BYTES
              /\ phase' = "end"
              /\ parsed' = parsed
  /\ UNCHANGED <<ul_flag, ctrl_queue, data, crc_ok, added>>

ChannelNext == AddCtrl \/ AddFragment \/ CalcCrc \/ Receive \/ ParseNext

ChannelSpec ==
  ChannelInit /\ [][ChannelNext]_channelVars /\ WF_channelVars(ParseNext)

---------------------------------------------------------------------------
(* A channel's types; and neither side gets into the bytes of the CRC: the *)
(* receiver passes over them only at the end.                              *)
ChannelTypeOK ==
  /\ data \in [1 .. Usable -> Byte]
  /\ writepos \in 0 .. Usable \/ (phase = "end" /\ writepos = SLOT_BYTES)
  /\ phase \in {"fill", "air", "parse", "end"}
  /\ crc_ok \in BOOLEAN
  /\ \A i \in DOMAIN parsed : parsed[i].type \in MsgTypes
  /\ \A i \in DOMAIN added : added[i].type \in MsgTypes

(* The receiver takes out what the sender put in, message for message and  *)
(* field for field, and never one that is made of the random bytes behind. *)
ParsedIsAdded ==
  /\ IsPrefix(parsed, added)
  /\ phase = "end" /\ crc_ok => parsed = added

(* No control message is taken from its queue and lost for want of space:  *)
(* the loop's estimate, 2 bytes, never lets a longer one be dequeued (the  *)
(* TODO at line 59 of mac_common.c doubts it).                             *)
NoMessageLost ==
  [][ctrl_queue' # ctrl_queue => added' # added]_channelVars

(* The receiver gets to the end of every channel: its loop ends with a     *)
(* call that finds no message, so that every call that finds one must have *)
(* passed over it.                                                         *)
ParseEnds == phase = "parse" ~> phase = "end"
===========================================================================
