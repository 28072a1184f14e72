------------------------- MODULE MacFragmentation -------------------------
(***************************************************************************)
(* Fragmentation and reassembly of ethernet frames, one direction of one   *)
(* user: mac/mac_fragmentation.c.  The fragmenter cuts the queued frames   *)
(* into MAC messages, one per assigned slot; the reassembler puts the      *)
(* messages that pass the CRC of their slot together again.  There is no   *)
(* retransmission: 2 bits of sequence number and 5 bits of fragment number *)
(* are all the receiver has to notice that something is missing.           *)
(*                                                                         *)
(* A fragment carries, besides the header fields that are on the air, what *)
(* the payload really is: the session and the frame it was cut from, its   *)
(* position in that frame, the offset and the length of its bytes.         *)
(***************************************************************************)
EXTENDS Integers, Sequences, SequencesExt

CONSTANTS
  MAX_SEQNR,    (* values of the sequence number field: 2 bits, 4          *)
  MAX_FRAGNR,   (* values of the fragment number field: 5 bits, 32         *)
  HDR_LEN,      (* bytes of a data message's header, 3                     *)
  MAX_QUEUED,   (* frames the queue holds: MAC_DATA_BUF_SIZE - 1           *)
  MAC_MTU,      (* bytes of the longest frame that is taken                *)
  FrameSizes,   (* sizes of the frames the network interface hands over    *)
  SlotSizes,    (* bytes a slot leaves for the data message                *)
  MaxFrames,    (* bound: frames cut per session                           *)
  MaxSessions,  (* bound: sessions                                         *)
  None

ASSUME FragAssumption ==
  /\ MAX_SEQNR \in Nat \ {0}
  /\ MAX_FRAGNR \in Nat \ {0}
  /\ HDR_LEN \in Nat
  /\ MAX_QUEUED \in Nat
  /\ MAC_MTU \in Nat
  /\ FrameSizes \subseteq Nat
  /\ SlotSizes \subseteq {n \in Nat : n >= HDR_LEN}
  /\ MaxFrames \in Nat
  /\ MaxSessions \in Nat
  /\ None \notin Nat

VARIABLES
  frame_queue,    (* fragmenter: sizes of the frames waiting               *)
  bytes_buffered, (* fragmenter: bytes of the frames waiting               *)
  curr_frame,     (* fragmenter: size of the frame being cut, or None      *)
  bytes_sent,     (* fragmenter: bytes of it already cut                   *)
  seqNr,          (* fragmenter: sequence number of curr_frame             *)
  fragNr,         (* fragmenter: number of the next fragment, unbounded    *)
  link,           (* the data message in the current slot, or None         *)
  frame_open,     (* reassembler: a frame is being collected               *)
  openSeqNr,      (* reassembler: the sequence number it is collected for  *)
  fragments,      (* reassembler: the fragments stored; fragNr is Len      *)
  frame_len,      (* reassembler: bytes stored                             *)
  delivered,      (* the fragments of the frame delivered last             *)
  session,        (* history: which fragmenter, they are replaced          *)
  frameNo         (* history: frames this fragmenter has started           *)

fragmenterVars == <<frame_queue, bytes_buffered, curr_frame, bytes_sent,
                    seqNr, fragNr, session, frameNo>>
reassemblerVars == <<frame_open, openSeqNr, fragments, frame_len, delivered>>
vars == <<fragmenterVars, link, reassemblerVars>>

Fragment == [seqNr : 0 .. MAX_SEQNR - 1, fragNr : 0 .. MAX_FRAGNR - 1,
             final_flag : BOOLEAN,
             session : Nat, frame : Nat, nr : Nat,
             offset : Nat, len : Nat, size : Nat]

Init ==
  /\ frame_queue = <<>>
  /\ bytes_buffered = 0
  /\ curr_frame = None
  /\ bytes_sent = 0
  /\ seqNr = 0
  /\ fragNr = 0
  /\ link = None
  /\ frame_open = FALSE
  /\ openSeqNr = 0
  /\ fragments = <<>>
  /\ frame_len = 0
  /\ delivered = <<>>
  /\ session = 0
  /\ frameNo = 0

---------------------------------------------------------------------------
(* The fragmenter. *)

(* A frame from the network interface is queued unless it is too long or   *)
(* the ring is full.                                                       *)
AddFrame(size) ==
  /\ frameNo + Len(frame_queue) < MaxFrames
  /\ size <= MAC_MTU
  /\ Len(frame_queue) < MAX_QUEUED
  /\ frame_queue' = Append(frame_queue, size)
  /\ bytes_buffered' = bytes_buffered + size
  /\ UNCHANGED <<curr_frame, bytes_sent, seqNr, fragNr, session, frameNo>>
  /\ UNCHANGED <<link, reassemblerVars>>

HasFragment == frame_queue # <<>> \/ curr_frame # None

GetBuffersize == IF curr_frame # None
                 THEN (curr_frame - bytes_sent) + bytes_buffered
                 ELSE bytes_buffered

(* The message cut from frame number no of the given size, of which sent   *)
(* bytes in nr messages are gone, for a slot with room for max_frag_size   *)
(* bytes.  The fields that go on the air are as wide as the header's.      *)
CutFragment(no, size, seq, nr, sent, max_frag_size) ==
  LET final == max_frag_size >= (size - sent) + HDR_LEN
  IN  [seqNr |-> seq, fragNr |-> nr % MAX_FRAGNR, final_flag |-> final,
       session |-> session, frame |-> no, nr |-> nr,
       offset |-> sent,
       len |-> IF final THEN size - sent ELSE max_frag_size - HDR_LEN,
       size |-> size]

SendFragment(f) ==
  /\ link' = f
  /\ fragNr' = f.nr + 1
  /\ bytes_sent' = f.offset + f.len
  /\ curr_frame' = IF f.final_flag THEN None ELSE f.size

(* mac_frag_get_fragment: goes on with the open frame, or fetches the next *)
(* one and gives it the next sequence number.  The schedulers call it only *)
(* when there is something to send.                                        *)
GetFragment(max_frag_size) ==
  /\ link = None
  /\ UNCHANGED <<session, reassemblerVars>>
  /\ \/ /\ curr_frame # None
        /\ SendFragment(CutFragment(frameNo, curr_frame, seqNr, fragNr,
                                    bytes_sent, max_frag_size))
        /\ UNCHANGED <<frame_queue, bytes_buffered, seqNr, frameNo>>
     \/ /\ curr_frame = None
        /\ frame_queue # <<>>
        /\ frame_queue' = Tail(frame_queue)
        /\ bytes_buffered' = bytes_buffered - Head(frame_queue)
        /\ seqNr' = (seqNr + 1) % MAX_SEQNR
        /\ frameNo' = frameNo + 1
        /\ SendFragment(CutFragment(frameNo + 1, Head(frame_queue),
                                    (seqNr + 1) % MAX_SEQNR, 0, 0,
                                    max_frag_size))

(* A base station makes a new fragmenter for each association, while the   *)
(* client keeps its reassembler for as long as it runs.                    *)
RestartFragmenter ==
  /\ session < MaxSessions
  /\ session' = session + 1
  /\ frameNo' = 0
  /\ frame_queue' = <<>>
  /\ bytes_buffered' = 0
  /\ curr_frame' = None
  /\ bytes_sent' = 0
  /\ seqNr' = 0
  /\ fragNr' = 0
  /\ UNCHANGED <<link, reassemblerVars>>

---------------------------------------------------------------------------
(* The reassembler. *)

(* Changed forms: the sequence number is not compared with that of the     *)
(* open frame, or the fragment number with the number stored.              *)
ContinuesAnySeqNr(f) == frame_open /\ f.fragNr = Len(fragments)
ContinuesAnyFragNr(f) == frame_open /\ f.seqNr = openSeqNr

(* Fragment f starts a frame when none is open, or is the next one of the  *)
(* open frame.                                                             *)
Opens(f) == ~frame_open /\ f.fragNr = 0
Continues(f) ==
  frame_open /\ f.seqNr = openSeqNr /\ f.fragNr = Len(fragments)

(* What is stored once fragment f has been looked at: when it is not the   *)
(* expected one all that was stored is thrown away, and a fragment 0 is    *)
(* taken as a new start.                                                   *)
Stored(f) ==
  IF Continues(f) THEN Append(fragments, f)
  ELSE IF f.fragNr = 0 THEN <<f>>
  ELSE <<>>

(* Changed form: it keeps the bytes of the frame that is thrown away.      *)
StoredLenKeepsOld(f) ==
  IF Opens(f) \/ Continues(f) THEN frame_len + f.len
  ELSE IF f.fragNr = 0 THEN f.len
  ELSE frame_len

StoredLen(f) ==
  IF Opens(f) \/ Continues(f) THEN frame_len + f.len
  ELSE IF f.fragNr = 0 THEN f.len
  ELSE IF frame_open THEN 0
  ELSE frame_len

(* Changed form: the frame stays open after its final fragment.            *)
ReassembleStaysOpen ==
  /\ link # None
  /\ link' = None
  /\ UNCHANGED fragmenterVars
  /\ LET stored == Stored(link)
         complete == stored # <<>> /\ link.final_flag
     IN  /\ frame_open' = (stored # <<>>)
         /\ openSeqNr' = IF stored # <<>> THEN link.seqNr ELSE openSeqNr
         /\ fragments' = stored
         /\ frame_len' = StoredLen(link)
         /\ delivered' = IF complete THEN stored ELSE delivered

(* mac_assmbl_reassemble. *)
Reassemble ==
  /\ link # None
  /\ link' = None
  /\ UNCHANGED fragmenterVars
  /\ LET stored == Stored(link)
         complete == stored # <<>> /\ link.final_flag
     IN  /\ frame_open' = (stored # <<>> /\ ~complete)
         /\ openSeqNr' = IF stored # <<>> THEN link.seqNr ELSE openSeqNr
         /\ fragments' = IF complete THEN <<>> ELSE stored
         /\ frame_len' = IF complete THEN 0 ELSE StoredLen(link)
         /\ delivered' = IF complete THEN stored ELSE delivered

(* A slot whose CRC is wrong is dropped as a whole, and so is one that the *)
(* receiver does not listen to.                                            *)
LoseSlot ==
  /\ link # None
  /\ link' = None
  /\ UNCHANGED <<fragmenterVars, reassemblerVars>>

(* For the uplink it is the base station that has a new reassembler.       *)
RestartReassembler ==
  /\ frame_open' = FALSE
  /\ openSeqNr' = 0
  /\ fragments' = <<>>
  /\ frame_len' = 0
  /\ UNCHANGED <<fragmenterVars, link, delivered>>

Next ==
  \/ \E size \in FrameSizes : AddFrame(size)
  \/ \E n \in SlotSizes : GetFragment(n)
  \/ RestartFragmenter
  \/ Reassemble
  \/ LoseSlot
  \/ RestartReassembler

Spec == Init /\ [][Next]_vars

---------------------------------------------------------------------------
(* Type invariant of the fragmenter, the slot and the reassembler. *)
TypeOK ==
  /\ frame_queue \in Seq(FrameSizes)
  /\ bytes_buffered \in Int
  /\ curr_frame \in Nat \cup {None}
  /\ bytes_sent \in Nat
  /\ seqNr \in 0 .. MAX_SEQNR - 1
  /\ fragNr \in Nat
  /\ link \in Fragment \cup {None}
  /\ frame_open \in BOOLEAN
  /\ openSeqNr \in 0 .. MAX_SEQNR - 1
  /\ fragments \in Seq(Fragment)
  /\ frame_len \in Nat
  /\ delivered \in Seq(Fragment)
  /\ session \in Nat
  /\ frameNo \in Nat

SameFrame(f, g) == f.session = g.session /\ f.frame = g.frame

(* f was cut before g. *)
Before(f, g) ==
  \/ f.session < g.session
  \/ f.session = g.session /\ f.frame < g.frame
  \/ SameFrame(f, g) /\ f.nr < g.nr

(* The bytes of the fragments d are those of one frame, from its first     *)
(* byte to its last and without a gap.                                     *)
Intact(d) ==
  /\ d[1].offset = 0
  /\ \A i \in 1 .. Len(d) - 1 :
       /\ SameFrame(d[i], d[i + 1])
       /\ d[i + 1].offset = d[i].offset + d[i].len
  /\ d[Len(d)].offset + d[Len(d)].len = d[Len(d)].size

(* The header fields can tell the fragments d apart: they were cut by one  *)
(* fragmenter, from frames fewer than MAX_SEQNR apart, and no fragment has *)
(* a number beyond what the field holds.                                   *)
WithinWindow(d) ==
  /\ \A i \in 1 .. Len(d) :
       /\ d[i].session = d[1].session
       /\ d[i].nr < MAX_FRAGNR
  /\ d[Len(d)].frame - d[1].frame < MAX_SEQNR

(* A delivered frame is one of the frames that were sent, complete and     *)
(* with its bytes in order, however slots are lost and sessions restart,   *)
(* unless the loss is so long that the header fields repeat.               *)
DeliveredIntact ==
  delivered # <<>> /\ WithinWindow(delivered) => Intact(delivered)

(* The array of 32 fragments is never written beyond its end, however many *)
(* fragments a frame is cut into: the store at line 190 is always in it.   *)
FragmentsFit == Len(fragments) <= MAX_FRAGNR

(* How many bytes frames or fragments of these sizes have together.        *)
Total(sizes) == FoldLeft(LAMBDA sum, n : sum + n, 0, sizes)
Lens(d) == [i \in DOMAIN d |-> d[i].len]

(* Both byte counters stay exact over frames that are abandoned and        *)
(* sessions that restart: a frame is allocated with the bytes that are     *)
(* copied into it, and the queue size a client reports is what is left to  *)
(* be sent.                                                                *)
CountsExact ==
  /\ frame_len = Total(Lens(fragments))
  /\ GetBuffersize = Total(frame_queue)
                       + (IF curr_frame # None THEN curr_frame - bytes_sent ELSE 0)

(* No frame is delivered twice or after a later one: what is delivered     *)
(* next starts after the end of what was delivered before.                 *)
DeliveredOnceInOrder ==
  [][delivered' # delivered /\ delivered # <<>> =>
       Before(delivered[Len(delivered)], delivered'[1])]_vars

===========================================================================
