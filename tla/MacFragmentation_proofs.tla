--------------------- MODULE MacFragmentation_proofs ----------------------
(***************************************************************************)
(* Proofs about MacFragmentation, for every width of the header fields,    *)
(* every size of frames, slots and queue, and any number of frames and     *)
(* sessions; and about MacChannel, which carries its fragments and the     *)
(* control messages, for every size of slot and every message.             *)
(***************************************************************************)
EXTENDS MacFragmentation, MacChannel, SequenceTheorems, WellFoundedInduction,
        TLAPS

---------------------------------------------------------------------------
(* Counters modulo m, which the sequence and fragment numbers are. *)

(* A remainder modulo m is below m.                                        *)
LEMMA ModRange ==
  ASSUME NEW m \in Nat \ {0}, NEW a \in Nat
  PROVE  a % m \in 0 .. m - 1
  OBVIOUS

(* A number below m is its own remainder.                                  *)
LEMMA ModSmall ==
  ASSUME NEW m \in Nat \ {0}, NEW a \in 0 .. m - 1
  PROVE  a % m = a
  OBVIOUS

(* Quotient and remainder make up the number.                              *)
LEMMA DivMod ==
  ASSUME NEW m \in Nat \ {0}, NEW a \in Nat
  PROVE  /\ a \div m \in Nat
         /\ a = m * (a \div m) + (a % m)
  OBVIOUS

(* Different multiples of m are at least m apart.                          *)
LEMMA MultipleGap ==
  ASSUME NEW m \in Nat \ {0}, NEW p \in Nat, NEW q \in Nat, p < q
  PROVE  m * q >= m * p + m
<1>1. m * q = m * p + m * (q - p)
  OBVIOUS
<1>2. m * (q - p) >= m
  OBVIOUS
<1> QED
  BY <1>1, <1>2

(* Two numbers that agree modulo m and differ by less than m are equal.    *)
LEMMA ModWindow ==
  ASSUME NEW m \in Nat \ {0}, NEW a \in Nat, NEW b \in Nat,
         a % m = b % m, a <= b, b - a < m
  PROVE  a = b
<1> DEFINE p == a \div m
           q == b \div m
<1>1. /\ p \in Nat /\ q \in Nat
      /\ a = m * p + (a % m)
      /\ b = m * q + (b % m)
      /\ a % m \in 0 .. m - 1
  BY DivMod, ModRange
<1> HIDE DEF p, q
<1>2. CASE p < q
  <2>1. m * q >= m * p + m
    BY <1>1, <1>2, MultipleGap
  <2> QED
    BY <1>1, <2>1
<1>3. CASE q < p
  <2>1. m * p >= m * q + m
    BY <1>1, <1>3, MultipleGap
  <2> QED
    BY <1>1, <2>1
<1>4. CASE p = q
  BY <1>1, <1>4
<1> QED
  BY <1>1, <1>2, <1>3, <1>4

(* The successor modulo m steps on by one, or goes back to 0.              *)
LEMMA ModStep ==
  ASSUME NEW m \in Nat \ {0}, NEW a \in 0 .. m - 1
  PROVE  (a + 1) % m = IF a + 1 = m THEN 0 ELSE a + 1
  OBVIOUS

(* A number is determined modulo m by its quotient and remainder.          *)
LEMMA ModUnique ==
  ASSUME NEW m \in Nat \ {0}, NEW q \in Nat, NEW r \in 0 .. m - 1
  PROVE  (m * q + r) % m = r
<1> DEFINE a == m * q + r
           p == a \div m
           s == a % m
<1>1. a \in Nat
  OBVIOUS
<1>2. p \in Nat /\ a = m * p + s /\ s \in 0 .. m - 1
  BY <1>1, DivMod, ModRange
<1>3. a = m * q + r
  OBVIOUS
<1> HIDE DEF a, p, s
<1>4. CASE p < q
  <2>1. m * q >= m * p + m
    BY <1>2, <1>4, MultipleGap
  <2> QED
    BY <1>2, <1>3, <2>1
<1>5. CASE q < p
  <2>1. m * p >= m * q + m
    BY <1>2, <1>5, MultipleGap
  <2> QED
    BY <1>2, <1>3, <2>1
<1>6. CASE p = q
  BY <1>2, <1>3, <1>6 DEF a, s
<1> QED
  BY <1>2, <1>4, <1>5, <1>6

(* A counter that is stepped modulo m at a time holds the count modulo m:  *)
(* the sequence number after any number of frames                          *)
(* (mac_fragmentation.c:123).                                              *)
LEMMA ModSuccessor ==
  ASSUME NEW m \in Nat \ {0}, NEW a \in Nat
  PROVE  ((a % m) + 1) % m = (a + 1) % m
<1> DEFINE q == a \div m
           r == a % m
<1>1. q \in Nat /\ r \in 0 .. m - 1 /\ a = m * q + r
  BY DivMod, ModRange
<1>0. r = a % m
  OBVIOUS
<1> HIDE DEF q, r
<1>2. CASE r + 1 < m
  <2>1. (m * q + (r + 1)) % m = r + 1
    BY <1>1, <1>2, ModUnique
  <2>2. (r + 1) % m = r + 1
    BY <1>1, <1>2, ModSmall
  <2>3. a + 1 = m * q + (r + 1)
    BY <1>1
  <2> QED
    BY <1>0, <2>1, <2>2, <2>3
<1>3. CASE r + 1 = m
  <2>1. a + 1 = m * (q + 1) + 0
    BY <1>1, <1>3, m * (q + 1) = m * q + m
  <2>2. (m * (q + 1) + 0) % m = 0
    BY <1>1, ModUnique
  <2>3. (r + 1) % m = 0
    BY <1>1, <1>3, ModStep
  <2> QED
    BY <1>0, <2>1, <2>2, <2>3
<1> QED
  BY <1>1, <1>2, <1>3

---------------------------------------------------------------------------
(* The parts of the inductive invariant. *)

(* The header of f says, modulo the width of its fields, where f comes     *)
(* from; a first fragment has the first bytes, a final one the last bytes. *)
Genuine(f) ==
  /\ f.seqNr = f.frame % MAX_SEQNR
  /\ f.fragNr = f.nr % MAX_FRAGNR
  /\ f.nr = 0 => f.offset = 0
  /\ f.final_flag => f.offset + f.len = f.size

(* Of two fragments cut one after the other from a frame, the second has   *)
(* the bytes that follow those of the first.                               *)
Linked(f, g) ==
  SameFrame(f, g) /\ g.nr = f.nr + 1 => g.offset = f.offset + f.len

(* What the reassembler stores under sequence number s: genuine fragments  *)
(* with the numbers 0, 1, 2, ..., cut in this order.                       *)
Chain(d, s) ==
  /\ \A i \in 1 .. Len(d) :
       Genuine(d[i]) /\ d[i].fragNr = i - 1 /\ d[i].seqNr = s
  /\ \A i, j \in 1 .. Len(d) : i < j => Before(d[i], d[j])
  /\ \A i \in 1 .. Len(d) - 1 : Linked(d[i], d[i + 1])

(* f was cut before what the fragmenter will cut next, and if it is the    *)
(* last fragment cut from the current frame it ends where that stands.     *)
Past(f) ==
  /\ \/ f.session < session
     \/ f.session = session /\ f.frame < frameNo
     \/ f.session = session /\ f.frame = frameNo /\ f.nr < fragNr
  /\ f.session = session /\ f.frame = frameNo /\ f.nr + 1 = fragNr
       => f.offset + f.len = bytes_sent

FragmenterInv ==
  /\ seqNr = frameNo % MAX_SEQNR
  /\ curr_frame # None => bytes_sent <= curr_frame
  /\ curr_frame # None /\ fragNr = 0 => bytes_sent = 0

LinkInv ==
  link # None =>
    /\ Genuine(link)
    /\ Past(link)
    /\ \A i \in 1 .. Len(fragments) :
         Before(fragments[i], link) /\ Linked(fragments[i], link)
    /\ delivered # <<>> => Before(delivered[Len(delivered)], link)

ReassemblerInv ==
  /\ frame_open <=> fragments # <<>>
  /\ Chain(fragments, openSeqNr)
  /\ Len(fragments) <= MAX_FRAGNR
  /\ \A i \in 1 .. Len(fragments) : Past(fragments[i])
  /\ delivered # <<>> =>
       /\ \E s \in 0 .. MAX_SEQNR - 1 : Chain(delivered, s)
       /\ delivered[Len(delivered)].final_flag
       /\ Past(delivered[Len(delivered)])
       /\ \A i \in 1 .. Len(fragments) :
            Before(delivered[Len(delivered)], fragments[i])

(* The inductive invariant.                                                *)
IInv == TypeOK /\ FragmenterInv /\ LinkInv /\ ReassemblerInv

---------------------------------------------------------------------------
(* What the assumptions say of the constants, in the form the proofs use.  *)
LEMMA Constants ==
  /\ MAX_SEQNR \in Nat \ {0} /\ MAX_FRAGNR \in Nat \ {0}
  /\ HDR_LEN \in Nat
  /\ \A size \in FrameSizes : size \in Nat
  /\ \A n \in SlotSizes : n \in Nat /\ n >= HDR_LEN
  /\ 0 \in 0 .. MAX_SEQNR - 1
  /\ None \notin Nat
  BY FragAssumption

(* The invariant holds of a new fragmenter and a new reassembler           *)
(* (mac_frag_init, mac_assmbl_init).                                       *)
LEMMA InitInv == Init => IInv
<1> SUFFICES ASSUME Init
             PROVE  IInv
  OBVIOUS
<1> USE Constants DEF Init
<1>1. TypeOK
  <2>1. /\ bytes_buffered \in Int /\ bytes_sent \in Nat /\ fragNr \in Nat
        /\ frame_len \in Nat /\ session \in Nat /\ frameNo \in Nat
        /\ curr_frame \in Nat \cup {None}
        /\ seqNr \in 0 .. MAX_SEQNR - 1 /\ openSeqNr \in 0 .. MAX_SEQNR - 1
    OBVIOUS
  <2>2. frame_queue \in Seq(FrameSizes)
    OBVIOUS
  <2>3. fragments \in Seq(Fragment) /\ delivered \in Seq(Fragment)
    OBVIOUS
  <2>4. link \in Fragment \cup {None} /\ frame_open \in BOOLEAN
    OBVIOUS
  <2> HIDE DEF Init
  <2> QED
    BY <2>1, <2>2, <2>3, <2>4 DEF TypeOK
<1>2. FragmenterInv
  BY ModSmall DEF FragmenterInv
<1>3. LinkInv /\ ReassemblerInv
  BY DEF LinkInv, ReassemblerInv, Chain
<1> QED
  BY <1>1, <1>2, <1>3 DEF IInv

(* What is Past stays Past when the fragmenter cuts on.                    *)
LEMMA PastGrows ==
  ASSUME NEW f \in Fragment, TypeOK, TypeOK', Past(f), session' = session,
         \/ frameNo' = frameNo + 1
         \/ frameNo' = frameNo /\ fragNr' = fragNr + 1
  PROVE  Past(f)'
<1>1. /\ f.session \in Nat /\ f.frame \in Nat /\ f.nr \in Nat
      /\ session \in Nat /\ frameNo \in Nat /\ fragNr \in Nat
      /\ frameNo' \in Nat /\ fragNr' \in Nat
  BY DEF TypeOK, Fragment
<1> QED
  BY <1>1 DEF Past

(* Queueing a frame (mac_frag_add_frame) keeps the invariant.              *)
LEMMA AddFrameInv ==
  ASSUME IInv, NEW size \in FrameSizes, AddFrame(size)
  PROVE  IInv'
<1> USE DEF IInv, AddFrame, reassemblerVars
<1>1. TypeOK'
  BY FragAssumption DEF TypeOK
<1>2. FragmenterInv'
  BY DEF FragmenterInv
<1>3. LinkInv' /\ ReassemblerInv'
  BY DEF LinkInv, ReassemblerInv, Past, Chain
<1> QED
  BY <1>1, <1>2, <1>3

(* f is a well-formed fragment with number nr of the frame no, and its     *)
(* bytes are those from sent on, within the frame.                         *)
IsCut(f, no, size, seq, nr, sent) ==
  /\ f \in Fragment
  /\ f.seqNr = seq /\ f.fragNr = nr % MAX_FRAGNR
  /\ f.session = session /\ f.frame = no /\ f.nr = nr
  /\ f.offset = sent /\ f.size = size
  /\ f.offset + f.len <= size
  /\ f.final_flag => f.offset + f.len = size

(* The fragment that mac_frag_get_fragment cuts has the header fields and  *)
(* the bytes that the invariant asks for, whether it is the final one of   *)
(* its frame or not.                                                       *)
LEMMA CutFragmentIsCut ==
  ASSUME NEW no \in Nat, NEW size \in Nat, NEW seq \in 0 .. MAX_SEQNR - 1,
         NEW nr \in Nat, NEW sent \in Nat, NEW n \in SlotSizes,
         sent <= size, session \in Nat
  PROVE  IsCut(CutFragment(no, size, seq, nr, sent, n), no, size, seq, nr, sent)
<1> DEFINE f == CutFragment(no, size, seq, nr, sent, n)
<1>1. nr % MAX_FRAGNR \in 0 .. MAX_FRAGNR - 1
  BY Constants, ModRange
<1>2. n \in Nat /\ n >= HDR_LEN /\ HDR_LEN \in Nat
  BY Constants
<1>3. /\ f.seqNr = seq /\ f.fragNr = nr % MAX_FRAGNR
      /\ f.session = session /\ f.frame = no /\ f.nr = nr
      /\ f.offset = sent /\ f.size = size
      /\ f.final_flag = (n >= (size - sent) + HDR_LEN)
      /\ f.len = IF n >= (size - sent) + HDR_LEN THEN size - sent
                 ELSE n - HDR_LEN
  BY DEF CutFragment
<1>4. f.len \in Nat /\ f.offset + f.len <= size
  BY <1>2, <1>3
<1>5. f.final_flag => f.offset + f.len = size
  <2>1. CASE n >= (size - sent) + HDR_LEN
    BY <1>2, <1>3, <2>1
  <2>2. CASE ~(n >= (size - sent) + HDR_LEN)
    BY <1>3, <2>2
  <2> QED
    BY <2>1, <2>2
<1>6. f = [seqNr |-> f.seqNr, fragNr |-> f.fragNr, final_flag |-> f.final_flag,
           session |-> f.session, frame |-> f.frame, nr |-> f.nr,
           offset |-> f.offset, len |-> f.len, size |-> f.size]
  BY DEF CutFragment
<1>7. f.final_flag \in BOOLEAN
  BY <1>3
<1> HIDE DEF f
<1>8. f \in Fragment
  BY <1>1, <1>3, <1>4, <1>6, <1>7 DEF Fragment
<1> QED
  BY <1>3, <1>4, <1>5, <1>8 DEF f, IsCut

(* Cutting a fragment (mac_frag_get_fragment) keeps the invariant, for the *)
(* frame being cut and for one that is just taken from the queue.          *)
LEMMA GetFragmentInv ==
  ASSUME IInv, NEW n \in SlotSizes, GetFragment(n)
  PROVE  IInv'
<1> USE Constants
<1>0. /\ TypeOK /\ FragmenterInv /\ LinkInv /\ ReassemblerInv
      /\ link = None
      /\ session' = session /\ UNCHANGED reassemblerVars
  BY DEF IInv, GetFragment
(* Both cases cut a fragment f that is new, and leave the fragmenter       *)
(* standing at its end.                                                    *)
<1>1. \E f \in Fragment :
        /\ SendFragment(f)
        /\ f.session = session /\ f.frame = frameNo'
        /\ f.seqNr = seqNr' /\ f.fragNr = f.nr % MAX_FRAGNR
        /\ f.offset + f.len <= f.size
        /\ f.final_flag => f.offset + f.len = f.size
        /\ f.nr = 0 => f.offset = 0
        /\ seqNr' = frameNo' % MAX_SEQNR
        /\ \/ /\ frameNo' = frameNo /\ f.nr = fragNr
              /\ f.offset = bytes_sent
           \/ /\ frameNo' = frameNo + 1 /\ f.nr = 0
        /\ frame_queue' \in Seq(FrameSizes) /\ bytes_buffered' \in Int
        /\ seqNr' \in 0 .. MAX_SEQNR - 1 /\ frameNo' \in Nat
  <2>1. CASE curr_frame # None
    <3> DEFINE f == CutFragment(frameNo, curr_frame, seqNr, fragNr,
                                bytes_sent, n)
    <3>1. curr_frame \in Nat /\ bytes_sent <= curr_frame
      BY <1>0, <2>1 DEF TypeOK, FragmenterInv
    <3>2. /\ SendFragment(f)
          /\ UNCHANGED <<frame_queue, bytes_buffered, seqNr, frameNo>>
      BY <2>1 DEF GetFragment
    <3>3. IsCut(f, frameNo, curr_frame, seqNr, fragNr, bytes_sent)
      <4>1. /\ session \in Nat /\ frameNo \in Nat /\ fragNr \in Nat
            /\ seqNr \in 0 .. MAX_SEQNR - 1 /\ bytes_sent \in Nat
        BY <1>0 DEF TypeOK
      <4> QED
        BY ONLY n \in SlotSizes, <3>1, <4>1, CutFragmentIsCut
    <3> HIDE DEF f
    <3> QED
      BY <1>0, <2>1, <3>2, <3>3 DEF FragmenterInv, TypeOK, IsCut
  <2>2. CASE curr_frame = None
    <3> DEFINE f == CutFragment(frameNo + 1, Head(frame_queue),
                                (seqNr + 1) % MAX_SEQNR, 0, 0, n)
    <3>1. /\ frame_queue # <<>>
          /\ frame_queue' = Tail(frame_queue)
          /\ bytes_buffered' = bytes_buffered - Head(frame_queue)
          /\ seqNr' = (seqNr + 1) % MAX_SEQNR
          /\ frameNo' = frameNo + 1
          /\ SendFragment(f)
      BY <2>2 DEF GetFragment
    <3>2. /\ Head(frame_queue) \in Nat
          /\ frame_queue' \in Seq(FrameSizes) /\ bytes_buffered' \in Int
      <4>1. frame_queue \in Seq(FrameSizes) /\ bytes_buffered \in Int
        BY <1>0 DEF TypeOK
      <4>2. Head(frame_queue) \in FrameSizes
        BY <3>1, <4>1
      <4> QED
        BY <3>1, <4>1, <4>2
    <3>3. seqNr' \in 0 .. MAX_SEQNR - 1 /\ frameNo' \in Nat
      BY <1>0, <3>1, ModRange DEF TypeOK
    <3>4. seqNr' = frameNo' % MAX_SEQNR
      BY <1>0, <3>1, ModSuccessor DEF TypeOK, FragmenterInv
    <3>5. IsCut(f, frameNo + 1, Head(frame_queue), (seqNr + 1) % MAX_SEQNR,
                0, 0)
      <4>1. session \in Nat /\ 0 \in Nat /\ 0 <= Head(frame_queue)
        BY <1>0, <3>2 DEF TypeOK
      <4>2. frameNo + 1 \in Nat /\ (seqNr + 1) % MAX_SEQNR \in 0 .. MAX_SEQNR - 1
        BY <3>1, <3>3
      <4> QED
        BY ONLY n \in SlotSizes, <3>2, <4>1, <4>2, CutFragmentIsCut
    <3> HIDE DEF f
    <3> QED
      BY <3>1, <3>2, <3>3, <3>4, <3>5 DEF IsCut
  <2> QED
    BY <2>1, <2>2
<1>2. PICK f \in Fragment : <1>1!(f)
  BY <1>1
<1>3. /\ link' = f /\ fragNr' = f.nr + 1
      /\ bytes_sent' = f.offset + f.len
      /\ curr_frame' = IF f.final_flag THEN None ELSE f.size
  BY <1>2 DEF SendFragment
<1>3a. /\ f.nr \in Nat /\ f.offset \in Nat /\ f.len \in Nat /\ f.size \in Nat
      /\ f.session \in Nat /\ f.frame \in Nat /\ f.final_flag \in BOOLEAN
  BY DEF Fragment
<1>3b. /\ fragNr \in Nat /\ session \in Nat /\ frameNo \in Nat
      /\ bytes_sent \in Nat
  BY <1>0 DEF TypeOK
<1>4. TypeOK'
  <2>1. /\ bytes_sent' \in Nat /\ fragNr' \in Nat
        /\ curr_frame' \in Nat \cup {None}
        /\ link' \in Fragment \cup {None}
    BY <1>3, <1>3a
  <2>2. /\ frame_open' \in BOOLEAN /\ openSeqNr' \in 0 .. MAX_SEQNR - 1
        /\ fragments' \in Seq(Fragment) /\ frame_len' \in Nat
        /\ delivered' \in Seq(Fragment) /\ session' \in Nat
    BY <1>0 DEF TypeOK, reassemblerVars
  <2> QED
    BY <1>2, <2>1, <2>2 DEF TypeOK
<1>5. FragmenterInv'
  BY <1>2, <1>3, <1>3a DEF FragmenterInv
<1>6. \A g \in Fragment :
        Past(g) => Past(g)' /\ Before(g, f) /\ Linked(g, f)
  <2> SUFFICES ASSUME NEW g \in Fragment, Past(g)
               PROVE  Past(g)' /\ Before(g, f) /\ Linked(g, f)
    OBVIOUS
  <2>1. Past(g)'
    BY <1>0, <1>2, <1>3, <1>4, PastGrows DEF TypeOK
  <2>2. Before(g, f) /\ Linked(g, f)
    <3>1. /\ g.session \in Nat /\ g.frame \in Nat /\ g.nr \in Nat
          /\ g.offset \in Nat /\ g.len \in Nat
      BY DEF Fragment
    <3>2. /\ f.session = session /\ f.frame = frameNo'
          /\ \/ frameNo' = frameNo /\ f.nr = fragNr /\ f.offset = bytes_sent
             \/ frameNo' = frameNo + 1
      BY <1>2
    <3> QED
      <4>1. CASE frameNo' = frameNo /\ f.nr = fragNr /\ f.offset = bytes_sent
        BY <1>3b, <3>1, <3>2, <4>1 DEF Past, Before, Linked, SameFrame
      <4>2. CASE frameNo' = frameNo + 1
        BY <1>3b, <3>1, <3>2, <4>2 DEF Past, Before, Linked, SameFrame
      <4> QED
        BY <3>2, <4>1, <4>2
  <2> QED
    BY <2>1, <2>2
<1>7. \A i \in 1 .. Len(fragments) :
        fragments[i] \in Fragment /\ Past(fragments[i])
  BY <1>0 DEF TypeOK, ReassemblerInv
<1>8. delivered # <<>> => /\ delivered[Len(delivered)] \in Fragment
                          /\ Past(delivered[Len(delivered)])
  BY <1>0 DEF TypeOK, ReassemblerInv
<1>9. LinkInv'
  <2>1. Genuine(f)
    BY <1>2 DEF Genuine
  <2>2. Past(f)'
    BY <1>0, <1>2, <1>3, <1>3a DEF Past
  <2> QED
    BY <1>0, <1>3, <1>6, <1>7, <1>8, <2>1, <2>2
    DEF LinkInv, reassemblerVars, Genuine, Linked, Before, SameFrame
<1>10. ReassemblerInv'
  BY <1>0, <1>6, <1>7, <1>8 DEF ReassemblerInv, reassemblerVars, Chain, Past
<1> QED
  BY <1>4, <1>5, <1>9, <1>10 DEF IInv

(* A new fragmenter, which starts again with sequence number 0, keeps the  *)
(* invariant: what was cut before belongs to an earlier session.           *)
LEMMA RestartFragmenterInv ==
  ASSUME IInv, RestartFragmenter
  PROVE  IInv'
<1> USE Constants
<1>1. /\ TypeOK /\ FragmenterInv /\ LinkInv /\ ReassemblerInv
      /\ UNCHANGED <<link, reassemblerVars>>
      /\ session' = session + 1 /\ frameNo' = 0 /\ frame_queue' = <<>>
      /\ bytes_buffered' = 0 /\ curr_frame' = None /\ bytes_sent' = 0
      /\ seqNr' = 0 /\ fragNr' = 0
  BY DEF IInv, RestartFragmenter
<1>2. TypeOK'
  <2>1. /\ session \in Nat /\ link \in Fragment \cup {None}
        /\ frame_open \in BOOLEAN /\ openSeqNr \in 0 .. MAX_SEQNR - 1
        /\ fragments \in Seq(Fragment) /\ frame_len \in Nat
        /\ delivered \in Seq(Fragment)
    BY <1>1 DEF TypeOK
  <2>2. /\ session' \in Nat /\ frameNo' \in Nat /\ bytes_buffered' \in Int
        /\ bytes_sent' \in Nat /\ fragNr' \in Nat
        /\ seqNr' \in 0 .. MAX_SEQNR - 1 /\ curr_frame' \in Nat \cup {None}
    BY <1>1, <2>1
  <2>3. frame_queue' \in Seq(FrameSizes)
    BY <1>1
  <2>4. /\ link' \in Fragment \cup {None}
        /\ frame_open' \in BOOLEAN /\ openSeqNr' \in 0 .. MAX_SEQNR - 1
        /\ fragments' \in Seq(Fragment) /\ frame_len' \in Nat
        /\ delivered' \in Seq(Fragment)
    BY <1>1, <2>1 DEF reassemblerVars
  <2> QED
    BY <2>2, <2>3, <2>4 DEF TypeOK
<1>3. FragmenterInv'
  BY <1>1, ModSmall DEF FragmenterInv
<1>4. \A g \in Fragment : Past(g) => Past(g)'
  <2>1. \A g \in Fragment : g.session \in Nat
    BY DEF Fragment
  <2>2. session \in Nat
    BY <1>1 DEF TypeOK
  <2> QED
    BY <1>1, <2>1, <2>2 DEF Past
<1>5. /\ link # None => link \in Fragment
      /\ \A i \in 1 .. Len(fragments) : fragments[i] \in Fragment
      /\ delivered # <<>> => delivered[Len(delivered)] \in Fragment
  BY <1>1 DEF TypeOK
<1>6. LinkInv'
  BY <1>1, <1>4, <1>5
  DEF LinkInv, reassemblerVars, Genuine, Linked, Before, SameFrame
<1>7. ReassemblerInv'
  BY <1>1, <1>4, <1>5 DEF ReassemblerInv, reassemblerVars, Chain
<1> QED
  BY <1>2, <1>3, <1>6, <1>7 DEF IInv

(* A slot that is lost keeps the invariant.                                *)
LEMMA LoseSlotInv ==
  ASSUME IInv, LoseSlot
  PROVE  IInv'
<1> USE DEF IInv, LoseSlot, fragmenterVars, reassemblerVars
<1>1. TypeOK'
  BY DEF TypeOK
<1>2. FragmenterInv' /\ LinkInv'
  BY DEF FragmenterInv, LinkInv
<1>3. ReassemblerInv'
  BY DEF ReassemblerInv, Past, Chain
<1> QED
  BY <1>1, <1>2, <1>3

(* A new reassembler keeps the invariant.                                  *)
LEMMA RestartReassemblerInv ==
  ASSUME IInv, RestartReassembler
  PROVE  IInv'
<1> USE Constants
<1>1. /\ TypeOK /\ FragmenterInv /\ LinkInv /\ ReassemblerInv
      /\ UNCHANGED <<fragmenterVars, link, delivered>>
      /\ frame_open' = FALSE /\ openSeqNr' = 0
      /\ fragments' = <<>> /\ frame_len' = 0
  BY DEF IInv, RestartReassembler
<1>2. TypeOK'
  <2>1. fragments' \in Seq(Fragment)
    BY <1>1
  <2>2. /\ frame_open' \in BOOLEAN /\ openSeqNr' \in 0 .. MAX_SEQNR - 1
        /\ frame_len' \in Nat
    BY <1>1
  <2> QED
    BY <1>1, <2>1, <2>2 DEF TypeOK, fragmenterVars
<1>3. FragmenterInv'
  BY <1>1 DEF FragmenterInv, fragmenterVars
<1>4. LinkInv'
  BY <1>1 DEF LinkInv, fragmenterVars, Genuine, Past, Before, SameFrame
<1>5. ReassemblerInv'
  BY <1>1 DEF ReassemblerInv, fragmenterVars, Chain, Past
<1> QED
  BY <1>2, <1>3, <1>4, <1>5 DEF IInv

---------------------------------------------------------------------------
(* What is stored after fragment f is a chain again, and all of it was cut *)
(* after what was delivered before.                                        *)
LEMMA StoredChain ==
  ASSUME IInv, link # None, Stored(link) # <<>>
  PROVE  /\ Stored(link) \in Seq(Fragment)
         /\ Chain(Stored(link), link.seqNr)
         /\ Len(Stored(link)) \in 1 .. MAX_FRAGNR
         /\ Stored(link)[Len(Stored(link))] = link
         /\ \A i \in 1 .. Len(Stored(link)) :
              /\ Past(Stored(link)[i])
              /\ delivered # <<>> =>
                   Before(delivered[Len(delivered)], Stored(link)[i])
<1> USE Constants
<1> DEFINE d == Stored(link)
<1>1. /\ TypeOK /\ LinkInv /\ ReassemblerInv
      /\ link \in Fragment /\ fragments \in Seq(Fragment)
      /\ link.fragNr \in 0 .. MAX_FRAGNR - 1
  BY DEF IInv, TypeOK, Fragment
<1>2. CASE Continues(link)
  <2>1. /\ d = Append(fragments, link)
        /\ link.seqNr = openSeqNr /\ link.fragNr = Len(fragments)
    BY <1>2 DEF Stored, Continues
  <2> DEFINE n == Len(fragments)
  <2>2. /\ n \in Nat /\ Len(d) = n + 1 /\ d \in Seq(Fragment)
        /\ \A i \in 1 .. n : d[i] = fragments[i]
        /\ d[n + 1] = link
    BY <1>1, <2>1
  <2> HIDE DEF d
  <2>3. Chain(d, link.seqNr)
    <3>1. \A i \in 1 .. n + 1 :
            Genuine(d[i]) /\ d[i].fragNr = i - 1 /\ d[i].seqNr = link.seqNr
      BY <1>1, <2>1, <2>2 DEF LinkInv, ReassemblerInv, Chain
    <3>2. \A i, j \in 1 .. n + 1 : i < j => Before(d[i], d[j])
      <4> SUFFICES ASSUME NEW i \in 1 .. n + 1, NEW j \in 1 .. n + 1, i < j
                   PROVE  Before(d[i], d[j])
        OBVIOUS
      <4>1. i \in 1 .. n /\ d[i] = fragments[i]
        BY <2>2
      <4>2. CASE j = n + 1
        BY <1>1, <2>2, <4>1, <4>2 DEF LinkInv
      <4>3. CASE j # n + 1
        <5>1. j \in 1 .. n /\ d[j] = fragments[j]
          BY <2>2, <4>3
        <5>2. \A k, l \in 1 .. n : k < l => Before(fragments[k], fragments[l])
          BY <1>1 DEF ReassemblerInv, Chain
        <5> QED
          BY <4>1, <5>1, <5>2
      <4> QED
        BY <4>2, <4>3
    <3>3. \A i \in 1 .. n : Linked(d[i], d[i + 1])
      <4> SUFFICES ASSUME NEW i \in 1 .. n
                   PROVE  Linked(d[i], d[i + 1])
        OBVIOUS
      <4>1. CASE i = n
        BY <1>1, <2>2, <4>1 DEF LinkInv
      <4>2. CASE i < n
        <5>1. Linked(fragments[i], fragments[i + 1])
          BY <1>1, <2>2, <4>2 DEF ReassemblerInv, Chain
        <5> QED
          BY <2>2, <4>2, <5>1
      <4> QED
        BY <2>2, <4>1, <4>2
    <3> QED
      BY <2>2, <3>1, <3>2, <3>3 DEF Chain
  <2>4. \A i \in 1 .. n + 1 :
          /\ Past(d[i])
          /\ delivered # <<>> => Before(delivered[Len(delivered)], d[i])
    BY <1>1, <2>2 DEF LinkInv, ReassemblerInv
  <2>5. n + 1 <= MAX_FRAGNR
    BY <1>1, <2>1, <2>2
  <2> QED
    BY <2>2, <2>3, <2>4, <2>5 DEF d
<1>3. CASE ~Continues(link)
  <2>1. d = <<link>> /\ link.fragNr = 0
    BY <1>3 DEF Stored
  <2>2. /\ Len(d) = 1 /\ d[1] = link /\ d \in Seq(Fragment)
    BY <1>1, <2>1
  <2> HIDE DEF d
  <2>3. Chain(d, link.seqNr)
    BY <1>1, <2>1, <2>2 DEF Chain, LinkInv
  <2>4. Past(link) /\ (delivered # <<>> => Before(delivered[Len(delivered)], link))
    BY <1>1 DEF LinkInv
  <2> QED
    BY <2>2, <2>3, <2>4 DEF d
<1> QED
  BY <1>2, <1>3

(* mac_assmbl_reassemble keeps the invariant, whether it stores, starts    *)
(* again, throws away or delivers.                                         *)
LEMMA ReassembleInv ==
  ASSUME IInv, Reassemble
  PROVE  IInv'
<1> USE Constants
<1> DEFINE d == Stored(link)
           complete == d # <<>> /\ link.final_flag
<1>1. /\ TypeOK /\ FragmenterInv /\ LinkInv /\ ReassemblerInv
      /\ link # None /\ link \in Fragment
      /\ link' = None /\ UNCHANGED fragmenterVars
      /\ frame_open' = (d # <<>> /\ ~complete)
      /\ openSeqNr' = IF d # <<>> THEN link.seqNr ELSE openSeqNr
      /\ fragments' = IF complete THEN <<>> ELSE d
      /\ frame_len' = IF complete THEN 0 ELSE StoredLen(link)
      /\ delivered' = IF complete THEN d ELSE delivered
  BY DEF IInv, Reassemble, TypeOK
<1>2. /\ link.seqNr \in 0 .. MAX_SEQNR - 1 /\ link.len \in Nat
      /\ link.final_flag \in BOOLEAN
  BY <1>1 DEF Fragment
<1>3. d # <<>> =>
        /\ d \in Seq(Fragment)
        /\ Chain(d, link.seqNr)
        /\ Len(d) \in 1 .. MAX_FRAGNR
        /\ d[Len(d)] = link
        /\ \A i \in 1 .. Len(d) :
             /\ Past(d[i])
             /\ delivered # <<>> => Before(delivered[Len(delivered)], d[i])
  BY <1>1, StoredChain
<1>4. StoredLen(link) \in Nat
  BY <1>1, <1>2 DEF StoredLen, TypeOK
<1> HIDE DEF d
<1>5. TypeOK'
  <2>1. /\ frame_open' \in BOOLEAN /\ openSeqNr' \in 0 .. MAX_SEQNR - 1
        /\ frame_len' \in Nat
    BY <1>1, <1>2, <1>4 DEF TypeOK
  <2>2. d \in Seq(Fragment)
    <3>1. CASE d = <<>>
      BY <3>1
    <3> QED
      BY <1>3, <3>1
  <2>3. fragments' \in Seq(Fragment)
    BY <1>1, <2>2
  <2>4. delivered' \in Seq(Fragment)
    BY <1>1, <2>2 DEF TypeOK
  <2> QED
    BY <1>1, <2>1, <2>3, <2>4 DEF TypeOK, fragmenterVars
<1>6. FragmenterInv' /\ LinkInv'
  BY <1>1 DEF FragmenterInv, LinkInv, fragmenterVars
<1>7. UNCHANGED <<session, frameNo, fragNr, bytes_sent>>
  BY <1>1 DEF fragmenterVars
<1>8. ReassemblerInv'
  <2>1. CASE d = <<>>
    <3>1. /\ frame_open' = FALSE /\ fragments' = <<>> /\ delivered' = delivered
      BY <1>1, <2>1
    <3>2. /\ delivered # <<>> =>
               /\ \E s \in 0 .. MAX_SEQNR - 1 : Chain(delivered, s)
               /\ delivered[Len(delivered)].final_flag
               /\ Past(delivered[Len(delivered)])
      BY <1>1 DEF ReassemblerInv
    <3>3. delivered # <<>> => Past(delivered[Len(delivered)])'
      BY <1>7, <3>1, <3>2 DEF Past
    <3>4. Chain(<<>>, openSeqNr')
      BY DEF Chain
    <3> QED
      BY <3>1, <3>2, <3>3, <3>4 DEF ReassemblerInv
  <2>2. CASE d # <<>> /\ ~complete
    <3>1. /\ frame_open' = TRUE /\ fragments' = d /\ openSeqNr' = link.seqNr
          /\ delivered' = delivered
      BY <1>1, <2>2
    <3>2. delivered # <<>> =>
               /\ \E s \in 0 .. MAX_SEQNR - 1 : Chain(delivered, s)
               /\ delivered[Len(delivered)].final_flag
               /\ Past(delivered[Len(delivered)])
      BY <1>1 DEF ReassemblerInv
    <3>3. Chain(fragments, openSeqNr)'
      BY <1>3, <2>2, <3>1 DEF Chain, Genuine, Linked, Before, SameFrame
    <3>4. (delivered # <<>> =>
               /\ \E s \in 0 .. MAX_SEQNR - 1 : Chain(delivered, s)
               /\ delivered[Len(delivered)].final_flag
               /\ Past(delivered[Len(delivered)])
               /\ \A i \in 1 .. Len(fragments) :
                    Before(delivered[Len(delivered)], fragments[i]))'
      BY <1>3, <1>7, <2>2, <3>1, <3>2
      DEF Past, Chain, Genuine, Linked, Before, SameFrame
    <3>5. (\A i \in 1 .. Len(fragments) : Past(fragments[i]))'
      BY <1>3, <1>7, <2>2, <3>1 DEF Past
    <3>6. (Len(fragments) <= MAX_FRAGNR)'
      BY <1>3, <2>2, <3>1
    <3> QED
      BY <2>2, <3>1, <3>3, <3>4, <3>5, <3>6 DEF ReassemblerInv
  <2>3. CASE complete
    <3>1. /\ frame_open' = FALSE /\ fragments' = <<>> /\ delivered' = d
          /\ d # <<>>
      BY <1>1, <2>3
    <3>2. Chain(d, link.seqNr) /\ d[Len(d)] = link /\ link.final_flag
      BY <1>3, <2>3
    <3>3. Past(d[Len(d)])
      BY <1>3, <2>3
    <3>4. Past(delivered[Len(delivered)])'
      BY <1>7, <3>1, <3>3 DEF Past
    <3>5. (\E s \in 0 .. MAX_SEQNR - 1 : Chain(delivered, s))'
      <4>1. openSeqNr' = link.seqNr
        BY <1>1, <3>1
      <4>2. Chain(delivered, openSeqNr)'
        BY <3>1, <3>2, <4>1 DEF Chain, Genuine, Linked, Before, SameFrame
      <4> QED
        BY <1>2, <4>1, <4>2
    <3>6. Chain(fragments, openSeqNr)' /\ Len(fragments') = 0
      BY <3>1 DEF Chain
    <3> QED
      BY <3>1, <3>2, <3>4, <3>5, <3>6 DEF ReassemblerInv
  <2> QED
    BY <1>2, <2>1, <2>2, <2>3
<1> QED
  BY <1>5, <1>6, <1>8 DEF IInv

---------------------------------------------------------------------------
(* The inductive invariant holds in every reachable state of the           *)
(* fragmenter, the slot and the reassembler (mac_fragmentation.c).         *)
THEOREM IInvHolds == Spec => []IInv
<1>1. Init => IInv
  BY InitInv
<1>2. IInv /\ [Next]_vars => IInv'
  <2> SUFFICES ASSUME IInv, [Next]_vars
               PROVE  IInv'
    OBVIOUS
  <2>1. ASSUME NEW size \in FrameSizes, AddFrame(size)
        PROVE  IInv'
    BY <2>1, AddFrameInv
  <2>2. ASSUME NEW n \in SlotSizes, GetFragment(n)
        PROVE  IInv'
    BY <2>2, GetFragmentInv
  <2>3. CASE RestartFragmenter
    BY <2>3, RestartFragmenterInv
  <2>4. CASE Reassemble
    BY <2>4, ReassembleInv
  <2>5. CASE LoseSlot
    BY <2>5, LoseSlotInv
  <2>6. CASE RestartReassembler
    BY <2>6, RestartReassemblerInv
  <2>7. CASE UNCHANGED vars
    BY <2>7 DEF IInv, TypeOK, FragmenterInv, LinkInv, ReassemblerInv, Chain,
       Genuine, Past, Linked, Before, SameFrame, vars, fragmenterVars,
       reassemblerVars
  <2> QED
    BY <2>1, <2>2, <2>3, <2>4, <2>5, <2>6, <2>7 DEF Next
<1> QED
  BY <1>1, <1>2, PTL DEF Spec

(* The fragmenter, the slot and the reassembler (mac_fragmentation.c:28-44)*)
(* always hold values of their types.                                      *)
THEOREM TypeCorrect == Spec => []TypeOK
<1>1. IInv => TypeOK
  BY DEF IInv
<1> QED
  BY <1>1, IInvHolds, PTL

(* The store into the array of fragments at mac_fragmentation.c:190 is     *)
(* within its bounds.                                                      *)
THEOREM FragmentsAlwaysFit == Spec => []FragmentsFit
<1>1. IInv => FragmentsFit
  BY DEF IInv, ReassemblerInv, FragmentsFit
<1> QED
  BY <1>1, IInvHolds, PTL

(* Fragments of a chain that lie within the window of the header fields    *)
(* are all fragments of one frame, numbered from 0.                        *)
LEMMA ChainInWindow ==
  ASSUME NEW d \in Seq(Fragment), NEW s, Chain(d, s), WithinWindow(d),
         d # <<>>
  PROVE  \A i \in 1 .. Len(d) : SameFrame(d[i], d[1]) /\ d[i].nr = i - 1
<1>1. SUFFICES ASSUME NEW i \in 1 .. Len(d)
               PROVE  SameFrame(d[i], d[1]) /\ d[i].nr = i - 1
  OBVIOUS
<1> DEFINE n == Len(d)
<1>2. /\ n \in Nat /\ n >= 1 /\ 1 \in 1 .. n /\ n \in 1 .. n
      /\ d[1] \in Fragment /\ d[i] \in Fragment /\ d[n] \in Fragment
  OBVIOUS
<1>3. /\ d[1].frame \in Nat /\ d[i].frame \in Nat /\ d[n].frame \in Nat
      /\ d[i].nr \in Nat
  BY <1>2 DEF Fragment
<1>4. /\ d[i].session = d[1].session /\ d[n].session = d[1].session
      /\ d[i].nr < MAX_FRAGNR
      /\ d[n].frame - d[1].frame < MAX_SEQNR
  BY <1>2 DEF WithinWindow
<1>4a. /\ d[1].session \in Nat /\ d[i].session \in Nat /\ d[n].session \in Nat
  BY <1>2 DEF Fragment
<1>5. d[1].frame <= d[i].frame
  <2>1. CASE i = 1
    BY <1>3, <2>1
  <2>2. CASE i # 1
    <3>1. Before(d[1], d[i])
      BY <1>2, <2>2 DEF Chain
    <3> QED
      BY <1>3, <1>4, <1>4a, <3>1 DEF Before, SameFrame
  <2> QED
    BY <2>1, <2>2
<1>6. d[i].frame <= d[n].frame
  <2>1. CASE i = n
    BY <1>3, <2>1
  <2>2. CASE i # n
    <3>1. Before(d[i], d[n])
      BY <1>2, <2>2 DEF Chain
    <3> QED
      BY <1>3, <1>4, <1>4a, <3>1 DEF Before, SameFrame
  <2> QED
    BY <2>1, <2>2
<1>7. d[1].frame % MAX_SEQNR = d[i].frame % MAX_SEQNR
  <2>1. Genuine(d[1]) /\ Genuine(d[i]) /\ d[1].seqNr = d[i].seqNr
    BY <1>2 DEF Chain
  <2> QED
    BY <2>1 DEF Genuine
<1>8. d[i].frame = d[1].frame
  <2>1. MAX_SEQNR \in Nat \ {0}
    BY Constants
  <2>2. d[i].frame - d[1].frame < MAX_SEQNR
    BY <1>3, <1>4, <1>6, <2>1
  <2> HIDE DEF n
  <2> QED
    BY ONLY <1>3, <1>5, <1>7, <2>1, <2>2, ModWindow
<1>9. d[i].nr = i - 1
  <2>1. d[i].nr % MAX_FRAGNR = i - 1
    BY DEF Chain, Genuine
  <2>2. d[i].nr \in 0 .. MAX_FRAGNR - 1
    BY <1>3, <1>4, Constants
  <2> QED
    BY <2>1, <2>2, Constants, ModSmall
<1> QED
  BY <1>4, <1>8, <1>9 DEF SameFrame

(* A delivered frame is one that was sent, complete and in order, as long  *)
(* as its fragments lie within the window of the header fields             *)
(* (mac_fragmentation.c:189 is the only check there is).                   *)
THEOREM DeliveredAlwaysIntact == Spec => []DeliveredIntact
<1>1. IInv => DeliveredIntact
  <2> SUFFICES ASSUME IInv, delivered # <<>>, WithinWindow(delivered)
               PROVE  Intact(delivered)
    BY DEF DeliveredIntact
  <2> DEFINE d == delivered
             n == Len(delivered)
  <2>1. PICK s \in 0 .. MAX_SEQNR - 1 : Chain(d, s)
    BY DEF IInv, ReassemblerInv
  <2>2. d \in Seq(Fragment) /\ d[n].final_flag
    BY DEF IInv, TypeOK, ReassemblerInv
  <2>3. n \in Nat /\ n >= 1
    BY <2>2
  <2>4. \A i \in 1 .. n : SameFrame(d[i], d[1]) /\ d[i].nr = i - 1
    BY <2>1, <2>2, ChainInWindow
  <2>5. /\ d[1].offset = 0
        /\ d[n].offset + d[n].len = d[n].size
    BY <2>1, <2>2, <2>3, <2>4 DEF Chain, Genuine
  <2>6. ASSUME NEW i \in 1 .. n - 1
        PROVE  /\ SameFrame(d[i], d[i + 1])
               /\ d[i + 1].offset = d[i].offset + d[i].len
    <3>1. i \in 1 .. n /\ i + 1 \in 1 .. n
      BY <2>3
    <3>2. SameFrame(d[i], d[i + 1]) /\ d[i + 1].nr = d[i].nr + 1
      BY <2>4, <3>1 DEF SameFrame
    <3>3. Linked(d[i], d[i + 1])
      BY <2>1 DEF Chain
    <3> QED
      BY <3>2, <3>3 DEF Linked
  <2> QED
    BY <2>5, <2>6 DEF Intact
<1> QED
  BY <1>1, IInvHolds, PTL

(* Frames are delivered at most once and in the order they were sent.      *)
THEOREM DeliveredAlwaysOnceInOrder == Spec => DeliveredOnceInOrder
<1>1. IInv /\ [Next]_vars
        => [delivered' # delivered /\ delivered # <<>> =>
              Before(delivered[Len(delivered)], delivered'[1])]_vars
  <2> SUFFICES ASSUME IInv, [Next]_vars, delivered' # delivered,
                      delivered # <<>>
               PROVE  Before(delivered[Len(delivered)], delivered'[1])
    OBVIOUS
  <2>1. Reassemble
    BY DEF Next, vars, AddFrame, GetFragment, RestartFragmenter, LoseSlot,
       RestartReassembler, reassemblerVars
  <2>2. /\ link # None /\ Stored(link) # <<>>
        /\ delivered' = Stored(link)
    BY <2>1 DEF Reassemble
  <2>3. 1 \in 1 .. Len(Stored(link))
    BY <2>2, StoredChain
  <2> QED
    BY <2>2, <2>3, StoredChain
<1> QED
  BY <1>1, IInvHolds, PTL DEF Spec, DeliveredOnceInOrder

---------------------------------------------------------------------------
(* Adding up. *)

(* A set of natural numbers that is not empty has a least element.         *)
LEMMA Least ==
  ASSUME NEW S \in SUBSET Nat, S # {}
  PROVE  \E n \in S : \A m \in S : n <= m
<1>1. PICK n \in S : \A m \in S : ~(<<m, n>> \in OpToRel(<, Nat))
  BY NatLessThanWellFounded, WFMin
<1>2. \A m \in S : ~(m < n)
  BY <1>1 DEF OpToRel
<1> QED
  BY <1>2

(* ... and, when it is bounded, a greatest one.                            *)
LEMMA MaxOf ==
  ASSUME NEW n \in Nat, NEW S \in SUBSET (1 .. n), S # {}
  PROVE  Max(S) \in S /\ \A m \in S : m <= Max(S)
<1> DEFINE T == {n - m : m \in S}
<1>1. T \in SUBSET Nat /\ T # {}
  <2>1. \A m \in S : n - m \in Nat
    OBVIOUS
  <2> QED
    BY <2>1
<1> HIDE DEF T
<1>2. PICK k \in T : \A m \in T : k <= m
  BY <1>1, Least
<1>3. PICK x \in S : k = n - x
  BY DEF T
<1>4. \A m \in S : n - x <= n - m
  BY <1>2, <1>3 DEF T
<1>5. \A m \in S : x >= m
  BY <1>4
<1> QED
  BY <1>5 DEF Max

(* f adds up the members of s with their indices in a set, greatest first, *)
(* for every set of the first k indices: the function FoldLeft is made of. *)
Adds(f, s, k) ==
  f = [S \in SUBSET (1 .. k) |-> IF S = {} THEN 0 ELSE f[S \ {Max(S)}] + s[Max(S)]]

Iter(s) == CHOOSE iter : iter = [S \in SUBSET DOMAIN s |->
             IF S = {} THEN 0 ELSE iter[S \ {Max(S)}] + s[Max(S)]]

LEMMA AddsNext ==
  ASSUME NEW s \in Seq(Int), NEW k \in Nat, NEW f, Adds(f, s, k)
  PROVE  \E g : Adds(g, s, k + 1)
<1> DEFINE val(S) == IF k + 1 \in S THEN f[S \ {k + 1}] + s[k + 1] ELSE f[S]
           g == [S \in SUBSET (1 .. k + 1) |-> val(S)]
<1>1. ASSUME NEW S \in SUBSET (1 .. k + 1)
      PROVE  val(S) = IF S = {} THEN 0 ELSE g[S \ {Max(S)}] + s[Max(S)]
  <2>1. CASE k + 1 \in S
    <3>1. Max(S) = k + 1
      <4>1. k + 1 \in Nat /\ S # {} /\ S \in SUBSET (1 .. k + 1)
        BY <2>1
      <4>2. Max(S) \in S /\ \A m \in S : m <= Max(S)
        BY ONLY <4>1, MaxOf
      <4>3. Max(S) \in 1 .. k + 1 /\ k + 1 <= Max(S)
        BY ONLY <2>1, <4>2, S \in SUBSET (1 .. k + 1)
      <4> HIDE DEF g
      <4> QED
        BY <4>3
    <3>2. S \ {k + 1} \in SUBSET (1 .. k + 1) /\ k + 1 \notin S \ {k + 1}
      OBVIOUS
    <3>3. g[S \ {k + 1}] = f[S \ {k + 1}]
      BY <3>2
    <3> HIDE DEF g
    <3> QED
      BY <2>1, <3>1, <3>3
  <2>2. CASE k + 1 \notin S
    <3>1. S \in SUBSET (1 .. k)
      BY <2>2
    <3>2. f[S] = IF S = {} THEN 0 ELSE f[S \ {Max(S)}] + s[Max(S)]
      BY <3>1 DEF Adds
    <3>3. CASE S = {}
      BY <2>2, <3>2, <3>3
    <3>4. CASE S # {}
      <4>1. S \ {Max(S)} \in SUBSET (1 .. k + 1) /\ k + 1 \notin S \ {Max(S)}
        BY <2>2
      <4>2. g[S \ {Max(S)}] = f[S \ {Max(S)}]
        BY <4>1
      <4> HIDE DEF g
      <4> QED
        BY <2>2, <3>2, <3>4, <4>2
    <3> QED
      BY <3>3, <3>4
  <2> QED
    BY <2>1, <2>2
<1>2. g = [S \in SUBSET (1 .. k + 1) |-> IF S = {} THEN 0 ELSE g[S \ {Max(S)}] + s[Max(S)]]
  BY <1>1
<1> HIDE DEF g
<1> QED
  BY <1>2 DEF Adds

LEMMA AddsExists ==
  ASSUME NEW s \in Seq(Int), NEW k \in Nat
  PROVE  \E f : Adds(f, s, k)
<1> DEFINE Bad == {n \in Nat : ~\E f : Adds(f, s, n)}
<1>1. ASSUME Bad # {} PROVE FALSE
  <2>1. PICK n \in Bad : \A m \in Bad : n <= m
    <3>1. Bad \in SUBSET Nat
      OBVIOUS
    <3> HIDE DEF Bad
    <3> QED
      BY <1>1, <3>1, Least
  <2>2. CASE n = 0
    <3> DEFINE f == [S \in SUBSET (1 .. 0) |-> 0]
    <3>1. Adds(f, s, 0)
      <4>1. \A S \in SUBSET (1 .. 0) : S = {}
        OBVIOUS
      <4> QED
        BY <4>1 DEF Adds
    <3> QED
      BY <2>2, <3>1
  <2>3. CASE n # 0
    <3>1. n - 1 \in Nat /\ n - 1 \notin Bad
      BY <2>1, <2>3
    <3>2. PICK f : Adds(f, s, n - 1)
      BY <3>1
    <3>3. \E g : Adds(g, s, (n - 1) + 1)
      BY <3>1, <3>2, AddsNext
    <3> QED
      BY <3>3
  <2> QED
    BY <2>2, <2>3
<1> QED
  BY <1>1

LEMMA TotalIsIter ==
  ASSUME NEW s \in Seq(Int)
  PROVE  \E f : Adds(f, s, Len(s)) /\ Total(s) = f[1 .. Len(s)]
<1>1. Total(s) = Iter(s)[DOMAIN s]
  BY Zenon DEF Total, FoldLeft, MapThenFoldSet, Iter
<1>2. DOMAIN s = 1 .. Len(s)
  OBVIOUS
<1>3. \E f : Adds(f, s, Len(s))
  BY AddsExists
<1>4. Iter(s) = CHOOSE f : Adds(f, s, Len(s))
  BY <1>2 DEF Iter, Adds
<1>5. Adds(Iter(s), s, Len(s))
  BY <1>3, <1>4
<1> QED
  BY <1>1, <1>2, <1>5

(* Total(s) is where a count ends that starts with 0 and goes on with the    *)
(* members of s.                                                           *)
LEMMA TotalCounts ==
  ASSUME NEW s \in Seq(Int)
  PROVE  \E g \in [0 .. Len(s) -> Int] :
           /\ g[0] = 0
           /\ \A j \in 1 .. Len(s) : g[j] = g[j - 1] + s[j]
           /\ Total(s) = g[Len(s)]
<1>0. Len(s) \in Nat /\ \A j \in 1 .. Len(s) : s[j] \in Int
  OBVIOUS
<1>1. PICK f : Adds(f, s, Len(s)) /\ Total(s) = f[1 .. Len(s)]
  BY TotalIsIter
<1>2. f[1 .. 0] = 0
  <2>1. 1 .. 0 = {} /\ {} \in SUBSET (1 .. Len(s))
    OBVIOUS
  <2> QED
    BY <1>1, <2>1 DEF Adds
<1>3. ASSUME NEW j \in 1 .. Len(s)
      PROVE  f[1 .. j] = f[1 .. (j - 1)] + s[j]
  <2>1. j \in Nat /\ 1 .. j \in SUBSET (1 .. Len(s)) /\ 1 .. j # {}
    <3>1. j \in Nat /\ 1 \in 1 .. j /\ \A m \in 1 .. j : m \in 1 .. Len(s)
      BY <1>0
    <3> QED
      BY <3>1
  <2>2. Max(1 .. j) \in 1 .. j /\ \A m \in 1 .. j : m <= Max(1 .. j)
    BY <2>1, MaxOf
  <2>3. Max(1 .. j) = j
    BY <2>1, <2>2
  <2>4. (1 .. j) \ {j} = 1 .. (j - 1)
    BY <2>1
  <2> QED
    BY <1>1, <2>1, <2>3, <2>4 DEF Adds
<1> DEFINE g == [j \in 0 .. Len(s) |-> f[1 .. j]]
           Bad == {j \in 0 .. Len(s) : g[j] \notin Int}
<1>4. /\ g[0] = 0
      /\ \A j \in 1 .. Len(s) : g[j] = g[j - 1] + s[j]
      /\ g[Len(s)] = f[1 .. Len(s)]
  <2>1. 0 \in 0 .. Len(s) /\ Len(s) \in 0 .. Len(s)
    BY <1>0
  <2>2. \A j \in 1 .. Len(s) : j \in 0 .. Len(s) /\ j - 1 \in 0 .. Len(s)
    BY <1>0
  <2> QED
    BY <1>2, <1>3, <2>1, <2>2
<1>5. DOMAIN g = 0 .. Len(s) /\ g = [j \in 0 .. Len(s) |-> g[j]]
  OBVIOUS
<1> HIDE DEF g
<1>6. ASSUME Bad # {} PROVE FALSE
  <2>1. PICK n \in Bad : \A m \in Bad : n <= m
    <3>1. Bad \in SUBSET Nat
      BY <1>0
    <3> HIDE DEF Bad
    <3> QED
      BY <1>6, <3>1, Least
  <2>2. n # 0
    BY <1>4, <2>1
  <2>3. n \in 1 .. Len(s) /\ n - 1 \in 0 .. Len(s)
    BY <1>0, <2>1, <2>2
  <2>4. g[n - 1] \in Int
    BY <1>0, <2>1, <2>3
  <2>5. g[n] = g[n - 1] + s[n] /\ s[n] \in Int
    BY <1>0, <1>4, <2>3
  <2> QED
    BY <2>1, <2>4, <2>5
<1>7. g \in [0 .. Len(s) -> Int]
  BY <1>5, <1>6
<1> QED
  BY <1>1, <1>4, <1>7

(* ... and every such count ends there.                                    *)
LEMMA TotalUnique ==
  ASSUME NEW s \in Seq(Int), NEW h, h[0] = 0,
         \A j \in 1 .. Len(s) : h[j] = h[j - 1] + s[j]
  PROVE  Total(s) = h[Len(s)] /\ Total(s) \in Int
<1>0. Len(s) \in Nat
  OBVIOUS
<1>1. PICK g \in [0 .. Len(s) -> Int] :
        /\ g[0] = 0
        /\ \A j \in 1 .. Len(s) : g[j] = g[j - 1] + s[j]
        /\ Total(s) = g[Len(s)]
  BY TotalCounts
<1> DEFINE Bad == {j \in 0 .. Len(s) : g[j] # h[j]}
<1>2. ASSUME Bad # {} PROVE FALSE
  <2>1. PICK n \in Bad : \A m \in Bad : n <= m
    <3>1. Bad \in SUBSET Nat
      BY <1>0
    <3> HIDE DEF Bad
    <3> QED
      BY <1>2, <3>1, Least
  <2>2. n # 0
    BY <1>1, <2>1
  <2>3. n \in 1 .. Len(s) /\ n - 1 \in 0 .. Len(s)
    BY <1>0, <2>1, <2>2
  <2>4. g[n - 1] = h[n - 1]
    BY <1>0, <2>1, <2>3
  <2> QED
    BY <1>1, <2>1, <2>3, <2>4
<1>3. Len(s) \in 0 .. Len(s)
  BY <1>0
<1> QED
  BY <1>1, <1>2, <1>3

LEMMA TotalEmpty == Total(<<>>) = 0
<1> DEFINE h == [j \in {0} |-> 0]
<1>1. <<>> \in Seq(Int) /\ Len(<<>>) = 0 /\ h[0] = 0
  OBVIOUS
<1>2. \A j \in 1 .. Len(<<>>) : h[j] = h[j - 1] + <<>>[j]
  BY <1>1
<1> HIDE DEF h
<1> QED
  BY <1>1, <1>2, TotalUnique

LEMMA TotalInt ==
  ASSUME NEW s \in Seq(Int)
  PROVE  Total(s) \in Int
<1>1. \E g \in [0 .. Len(s) -> Int] : Total(s) = g[Len(s)]
  BY TotalCounts
<1>2. Len(s) \in 0 .. Len(s)
  OBVIOUS
<1> QED
  BY <1>1, <1>2

LEMMA TotalAppend ==
  ASSUME NEW s \in Seq(Int), NEW x \in Int
  PROVE  Total(Append(s, x)) = Total(s) + x
<1> DEFINE t == Append(s, x)
<1>1. /\ t \in Seq(Int) /\ Len(s) \in Nat /\ Len(t) = Len(s) + 1
      /\ t[Len(s) + 1] = x
      /\ \A j \in 1 .. Len(s) : t[j] = s[j]
  OBVIOUS
<1> HIDE DEF t
<1>2. PICK g \in [0 .. Len(t) -> Int] :
        /\ g[0] = 0
        /\ \A j \in 1 .. Len(t) : g[j] = g[j - 1] + t[j]
        /\ Total(t) = g[Len(t)]
  BY <1>1, TotalCounts
<1>3. \A j \in 1 .. Len(s) : g[j] = g[j - 1] + s[j]
  BY <1>1, <1>2
<1>4. Total(s) = g[Len(s)]
  BY <1>2, <1>3, TotalUnique
<1>5. Len(t) \in 1 .. Len(t) /\ Len(t) - 1 = Len(s)
  BY <1>1
<1>6. Total(t) = g[Len(s)] + x
  BY <1>1, <1>2, <1>5
<1> QED
  BY <1>4, <1>6 DEF t

LEMMA TotalTail ==
  ASSUME NEW s \in Seq(Int), s # <<>>
  PROVE  Total(Tail(s)) = Total(s) - Head(s)
<1> DEFINE t == Tail(s)
<1>1. /\ t \in Seq(Int) /\ Len(t) \in Nat /\ Len(s) = Len(t) + 1
      /\ Head(s) = s[1] /\ s[1] \in Int
      /\ \A j \in 1 .. Len(t) : t[j] = s[j + 1] /\ t[j] \in Int
  OBVIOUS
<1> HIDE DEF t
<1>2. PICK g \in [0 .. Len(s) -> Int] :
        /\ g[0] = 0
        /\ \A j \in 1 .. Len(s) : g[j] = g[j - 1] + s[j]
        /\ Total(s) = g[Len(s)]
  BY TotalCounts
<1>3. g[1] = s[1] /\ \A j \in 0 .. Len(s) : g[j] \in Int
  <2>1. 1 \in 1 .. Len(s) /\ g[1 - 1] = 0
    BY <1>1, <1>2
  <2>2. g[1] = 0 + s[1]
    BY <1>2, <2>1
  <2>3. \A j \in 0 .. Len(s) : g[j] \in Int
    OBVIOUS
  <2> QED
    BY <1>1, <2>2, <2>3
<1> DEFINE h == [j \in 0 .. Len(t) |-> g[j + 1] - s[1]]
<1>4. h[0] = 0 /\ h[Len(t)] = g[Len(s)] - s[1]
  <2>1. 0 \in 0 .. Len(t) /\ Len(t) \in 0 .. Len(t)
    BY <1>1
  <2>2. h[0] = g[0 + 1] - s[1]
    BY <2>1
  <2> QED
    BY <1>1, <1>3, <2>1, <2>2
<1>5. ASSUME NEW j \in 1 .. Len(t)
      PROVE  h[j] = h[j - 1] + t[j]
  <2>1. j \in 0 .. Len(t) /\ j - 1 \in 0 .. Len(t) /\ (j - 1) + 1 = j
    BY <1>1
  <2>2. h[j] = g[j + 1] - s[1] /\ h[j - 1] = g[j] - s[1]
    BY <2>1
  <2> HIDE DEF h
  <2>3. j + 1 \in 1 .. Len(s) /\ (j + 1) - 1 = j /\ j \in 0 .. Len(s)
    BY <1>1
  <2>4. g[j + 1] = g[j] + s[j + 1] /\ g[j] \in Int
    BY <1>2, <1>3, <2>3
  <2>5. t[j] = s[j + 1] /\ t[j] \in Int
    BY <1>1
  <2> QED
    BY <1>1, <2>2, <2>4, <2>5
<1> HIDE DEF h
<1> QED
  BY <1>1, <1>2, <1>4, <1>5, TotalUnique DEF t

---------------------------------------------------------------------------
(* The byte counters. *)

(* The counters are what they count; nothing is stored without a frame.    *)
CountsInv ==
  /\ bytes_buffered = Total(frame_queue)
  /\ frame_len = Total(Lens(fragments))

LEMMA SeqOfInts ==
  ASSUME NEW S \in SUBSET Int, NEW s \in Seq(S)
  PROVE  s \in Seq(Int)
<1>1. \A i \in 1 .. Len(s) : s[i] \in S
  OBVIOUS
<1>2. \A i \in 1 .. Len(s) : s[i] \in Int
  BY <1>1
<1>3. Len(s) \in Nat /\ s = [i \in 1 .. Len(s) |-> s[i]]
  OBVIOUS
<1> QED
  BY <1>2, <1>3

LEMMA FragmentNumbers ==
  ASSUME NEW f \in Fragment
  PROVE  f.len \in Int /\ f.offset \in Int /\ f.size \in Int
  BY DEF Fragment

LEMMA LensType ==
  ASSUME NEW d \in Seq(Fragment)
  PROVE  /\ Lens(d) \in Seq(Int) /\ Len(Lens(d)) = Len(d)
         /\ \A i \in 1 .. Len(d) : Lens(d)[i] = d[i].len
<1>1. \A i \in DOMAIN d : d[i].len \in Int
  <2>1. \A i \in DOMAIN d : d[i] \in Fragment
    OBVIOUS
  <2> QED
    BY <2>1, FragmentNumbers
<1> QED
  BY <1>1 DEF Lens

(* Storing a fragment adds its bytes.                                      *)
LEMMA LensAppend ==
  ASSUME NEW d \in Seq(Fragment), NEW f \in Fragment
  PROVE  Total(Lens(Append(d, f))) = Total(Lens(d)) + f.len
<1>1. f.len \in Int
  BY DEF Fragment
<1>2. Append(d, f) \in Seq(Fragment)
  OBVIOUS
<1>3. Lens(Append(d, f)) = Append(Lens(d), f.len)
  <2> DEFINE e == Append(d, f)
             l == Lens(e)
             k == Append(Lens(d), f.len)
  <2>1. /\ l \in Seq(Int) /\ Len(l) = Len(e)
        /\ \A i \in 1 .. Len(e) : l[i] = e[i].len
    BY <1>2, LensType
  <2>2. /\ Lens(d) \in Seq(Int) /\ Len(Lens(d)) = Len(d)
        /\ \A i \in 1 .. Len(d) : Lens(d)[i] = d[i].len
    BY LensType
  <2>3. /\ k \in Seq(Int) /\ Len(k) = Len(d) + 1 /\ k[Len(d) + 1] = f.len
        /\ \A i \in 1 .. Len(d) : k[i] = d[i].len
    BY <1>1, <2>2
  <2>4. /\ Len(e) = Len(d) + 1 /\ e[Len(d) + 1] = f /\ Len(d) \in Nat
        /\ \A i \in 1 .. Len(d) : e[i] = d[i]
    OBVIOUS
  <2> HIDE DEF e, k, l
  <2>5. Len(l) = Len(k) /\ \A i \in 1 .. Len(l) : l[i] = k[i]
    <3>1. Len(l) = Len(d) + 1 /\ Len(k) = Len(d) + 1
      BY <2>1, <2>3, <2>4
    <3>2. ASSUME NEW i \in 1 .. Len(d) + 1 PROVE l[i] = k[i]
      <4>1. i \in 1 .. Len(e)
        BY <2>4
      <4>2. CASE i = Len(d) + 1
        BY <2>1, <2>3, <2>4, <4>1, <4>2
      <4>3. CASE i # Len(d) + 1
        <5>1. i \in 1 .. Len(d)
          BY <2>4, <4>3
        <5> QED
          BY <2>1, <2>3, <2>4, <4>1, <5>1
      <4> QED
        BY <4>2, <4>3
    <3> QED
      BY <3>1, <3>2
  <2>6. l = k
    BY <2>1, <2>3, <2>5
  <2> QED
    BY <2>6 DEF e, l, k
<1> QED
  BY <1>1, <1>3, LensType, TotalAppend

LEMMA LensEmpty == Lens(<<>>) = <<>>
  BY DEF Lens

LEMMA LensOne ==
  ASSUME NEW f \in Fragment
  PROVE  Total(Lens(<<f>>)) = f.len
<1>1. <<f>> = Append(<<>>, f) /\ <<>> \in Seq(Fragment)
  OBVIOUS
<1>2. Total(Lens(<<f>>)) = Total(Lens(<<>>)) + f.len
  BY <1>1, LensAppend
<1>3. f.len \in Int
  BY DEF Fragment
<1> QED
  BY <1>2, <1>3, LensEmpty, TotalEmpty

LEMMA InitCounts == Init => CountsInv
  BY LensEmpty, TotalEmpty DEF Init, CountsInv

(* What is stored and what is counted go together, also when a frame is    *)
(* thrown away (mac_assmbl_reassemble).                                    *)
LEMMA StoredCounts ==
  ASSUME IInv, CountsInv, link # None
  PROVE  StoredLen(link) = Total(Lens(Stored(link)))
<1>1. /\ link \in Fragment /\ fragments \in Seq(Fragment)
      /\ frame_len \in Nat /\ frame_open \in BOOLEAN
  BY DEF IInv, TypeOK
<1>2. link.len \in Nat
  BY <1>1 DEF Fragment
<1>3. ~frame_open => frame_len = 0
  BY LensEmpty, TotalEmpty DEF IInv, ReassemblerInv, CountsInv
<1>4. CASE Continues(link)
  <2>1. Stored(link) = Append(fragments, link) /\ StoredLen(link) = frame_len + link.len
    BY <1>4 DEF Stored, StoredLen
  <2> QED
    BY <1>1, <2>1, LensAppend DEF CountsInv
<1>5. CASE ~Continues(link) /\ link.fragNr = 0
  <2>1. Stored(link) = <<link>>
    BY <1>5 DEF Stored
  <2>2. StoredLen(link) = link.len
    BY <1>2, <1>3, <1>5 DEF StoredLen, Opens
  <2> QED
    BY <1>1, <2>1, <2>2, LensOne
<1>6. CASE ~Continues(link) /\ link.fragNr # 0
  <2>1. Stored(link) = <<>>
    BY <1>6 DEF Stored
  <2>2. StoredLen(link) = 0
    BY <1>3, <1>6 DEF StoredLen, Opens
  <2> QED
    BY <2>1, <2>2, LensEmpty, TotalEmpty
<1> QED
  BY <1>4, <1>5, <1>6

LEMMA StepCounts == IInv /\ CountsInv /\ [Next]_vars => CountsInv'
<1> SUFFICES ASSUME IInv, CountsInv, [Next]_vars PROVE CountsInv'
  OBVIOUS
<1>0. /\ frame_queue \in Seq(FrameSizes) /\ frame_queue \in Seq(Int)
      /\ \A size \in FrameSizes : size \in Int
      /\ bytes_buffered = Total(frame_queue)
      /\ frame_len = Total(Lens(fragments))
  <2>1. frame_queue \in Seq(FrameSizes) /\ FrameSizes \in SUBSET Int
    BY Constants DEF IInv, TypeOK
  <2> QED
    BY <2>1, SeqOfInts DEF CountsInv
<1>1. ASSUME NEW size \in FrameSizes, AddFrame(size) PROVE CountsInv'
  <2>1. /\ frame_queue' = Append(frame_queue, size)
        /\ bytes_buffered' = bytes_buffered + size
        /\ frame_len' = frame_len /\ fragments' = fragments
    BY <1>1 DEF AddFrame, reassemblerVars
  <2>2. Total(frame_queue') = Total(frame_queue) + size
    BY <1>0, <2>1, TotalAppend
  <2> QED
    BY <1>0, <2>1, <2>2 DEF CountsInv
<1>2. ASSUME NEW n \in SlotSizes, GetFragment(n) PROVE CountsInv'
  <2>1. frame_len' = frame_len /\ fragments' = fragments
    BY <1>2 DEF GetFragment, reassemblerVars
  <2>2. CASE curr_frame # None
    BY <1>0, <1>2, <2>1, <2>2 DEF GetFragment, CountsInv
  <2>3. CASE curr_frame = None
    <3>1. /\ frame_queue # <<>> /\ frame_queue' = Tail(frame_queue)
          /\ bytes_buffered' = bytes_buffered - Head(frame_queue)
      BY <1>2, <2>3 DEF GetFragment
    <3>2. Total(frame_queue') = Total(frame_queue) - Head(frame_queue)
      BY <1>0, <3>1, TotalTail
    <3> QED
      BY <1>0, <2>1, <3>1, <3>2 DEF CountsInv
  <2> QED
    BY <2>2, <2>3
<1>3. CASE RestartFragmenter
  BY <1>0, <1>3, TotalEmpty DEF RestartFragmenter, reassemblerVars, CountsInv
<1>4. CASE Reassemble
  <2>1. StoredLen(link) = Total(Lens(Stored(link)))
    BY <1>4, StoredCounts DEF Reassemble
  <2>2. bytes_buffered' = bytes_buffered /\ frame_queue' = frame_queue
    BY <1>4 DEF Reassemble, fragmenterVars
  <2>3. CASE Stored(link) # <<>> /\ link.final_flag
    <3>1. fragments' = <<>> /\ frame_len' = 0
      BY <1>4, <2>3 DEF Reassemble
    <3> QED
      BY <1>0, <2>2, <3>1, LensEmpty, TotalEmpty DEF CountsInv
  <2>4. CASE ~(Stored(link) # <<>> /\ link.final_flag)
    <3>1. fragments' = Stored(link) /\ frame_len' = StoredLen(link)
      BY <1>4, <2>4 DEF Reassemble
    <3> QED
      BY <1>0, <2>1, <2>2, <3>1 DEF CountsInv
  <2> QED
    BY <2>3, <2>4
<1>5. CASE LoseSlot \/ UNCHANGED vars
  BY <1>0, <1>5 DEF LoseSlot, fragmenterVars, reassemblerVars, vars, CountsInv
<1>6. CASE RestartReassembler
  BY <1>0, <1>6, LensEmpty, TotalEmpty DEF RestartReassembler, fragmenterVars, CountsInv
<1> QED
  BY <1>1, <1>2, <1>3, <1>4, <1>5, <1>6 DEF Next

(* Both byte counters are exact in every state: the frame is allocated     *)
(* with what is copied into it (mac_assmbl_reassemble), and the queue size *)
(* that is reported is what is left to be sent (mac_frag_get_buffersize).  *)
THEOREM CountsAlwaysExact == Spec => []CountsExact
<1>1. IInv /\ CountsInv => CountsExact
  <2> SUFFICES ASSUME IInv, CountsInv PROVE CountsExact
    OBVIOUS
  <2>1. /\ bytes_buffered \in Int /\ bytes_sent \in Int
        /\ curr_frame # None => curr_frame \in Int
    BY DEF IInv, TypeOK
  <2>2. bytes_buffered = Total(frame_queue) /\ frame_len = Total(Lens(fragments))
    BY DEF CountsInv
  <2>3. CASE curr_frame # None
    BY <2>1, <2>2, <2>3 DEF CountsExact, GetBuffersize
  <2>4. CASE curr_frame = None
    BY <2>1, <2>2, <2>4 DEF CountsExact, GetBuffersize
  <2> QED
    BY <2>3, <2>4
<1> QED
  BY <1>1, InitCounts, StepCounts, IInvHolds, PTL DEF Spec

(* A frame that is put together from its first byte to its last without a  *)
(* gap has as many bytes as were sent: what is allocated for it, the sum   *)
(* of its fragments, is its size.                                          *)
LEMMA IntactTotal ==
  ASSUME NEW d \in Seq(Fragment), d # <<>>, Intact(d)
  PROVE  Total(Lens(d)) = d[Len(d)].size
<1> DEFINE n == Len(d)
           h == [j \in 0 .. n |-> IF j = n THEN d[n].size ELSE d[j + 1].offset]
<1>0. /\ n \in Nat /\ n >= 1
      /\ \A i \in 1 .. n : d[i].offset \in Int /\ d[i].len \in Int /\ d[i].size \in Int
  <2>1. n \in Nat /\ n >= 1 /\ \A i \in 1 .. n : d[i] \in Fragment
    OBVIOUS
  <2> QED
    BY <2>1, FragmentNumbers
<1>1. /\ Lens(d) \in Seq(Int) /\ Len(Lens(d)) = n
      /\ \A i \in 1 .. n : Lens(d)[i] = d[i].len
  BY LensType
<1>2. /\ d[1].offset = 0
      /\ \A i \in 1 .. n - 1 : d[i + 1].offset = d[i].offset + d[i].len
      /\ d[n].offset + d[n].len = d[n].size
  BY DEF Intact
<1> HIDE DEF n
<1>3. h[0] = 0 /\ h[n] = d[n].size
  <2>1. 0 \in 0 .. n /\ n \in 0 .. n /\ 0 # n /\ d[0 + 1].offset = 0
    BY <1>0, <1>2
  <2> QED
    BY <2>1
<1>4. ASSUME NEW j \in 1 .. n
      PROVE  h[j] = h[j - 1] + Lens(d)[j]
  <2>1. j \in 0 .. n /\ j - 1 \in 0 .. n /\ j - 1 # n /\ (j - 1) + 1 = j
    BY <1>0
  <2>2. /\ h[j - 1] = d[j].offset
        /\ h[j] = IF j = n THEN d[n].size ELSE d[j + 1].offset
    BY <2>1
  <2> HIDE DEF h
  <2>3. CASE j = n
    BY <1>1, <1>2, <2>2, <2>3
  <2>4. CASE j # n
    <3>1. j \in 1 .. n - 1
      BY <1>0, <2>4
    <3> QED
      BY <1>1, <1>2, <2>2, <2>4, <3>1
  <2> QED
    BY <2>3, <2>4
<1> HIDE DEF h
<1>5. Total(Lens(d)) = h[n]
  BY <1>1, <1>3, <1>4, TotalUnique
<1> QED
  BY <1>3, <1>5 DEF n

(* The frame that is delivered has the size it was sent with: neither too  *)
(* little nor too much is allocated (mac_fragmentation.c:222).             *)
THEOREM DeliveredAlwaysWhole ==
  Spec => [](delivered # <<>> /\ WithinWindow(delivered)
               => Total(Lens(delivered)) = delivered[Len(delivered)].size)
<1>1. TypeOK /\ DeliveredIntact
        => (delivered # <<>> /\ WithinWindow(delivered)
              => Total(Lens(delivered)) = delivered[Len(delivered)].size)
  BY IntactTotal DEF TypeOK, DeliveredIntact
<1> QED
  BY <1>1, TypeCorrect, DeliveredAlwaysIntact, PTL

---------------------------------------------------------------------------
(* Messages of a channel and their binary form. *)

(* The create functions cut every field to its width: no value, wide or    *)
(* negative, spills into another field (mac_messages.c:78).                *)
THEOREM CreatedFits ==
  ASSUME NEW a \in Int, NEW b \in Int, NEW c \in Int, NEW d \in Int
  PROVE  /\ AssociateResponse(a, b, c, d) \in BroadcastControl
         /\ \A type \in {dl_mcs_info, ul_mcs_info} : McsInfo(type, a) \in DlControl
         /\ TimingAdvance(a) \in DlControl /\ SessionEnd \in DlControl
         /\ UlReq(a) \in UlControl /\ Keepalive \in UlControl
         /\ ControlAck(a) \in UlControl /\ McsChangeReq(a, b) \in UlControl
<1>1. AssociateResponse(a, b, c, d) \in BroadcastControl
  <2> DEFINE au == a % 16 br == b % 16 cr == c % 8 dt == d % 256
  <2>1. au \in 0 .. 15 /\ br \in 0 .. 15 /\ cr \in 0 .. 7 /\ dt \in 0 .. 255
    OBVIOUS
  <2>2. AssociateResponse(a, b, c, d) =
          [type |-> associate_response, userid |-> au, rachuserid |-> br,
           response |-> cr, protoVersion |-> 0, timing_advance |-> dt]
    BY DEF AssociateResponse
  <2> HIDE DEF au, br, cr, dt
  <2> QED
    BY <2>1, <2>2 DEF BroadcastControl
<1>2. /\ \A type \in {dl_mcs_info, ul_mcs_info} : McsInfo(type, a) \in DlControl
      /\ TimingAdvance(a) \in DlControl /\ SessionEnd \in DlControl
  BY DEF McsInfo, TimingAdvance, SessionEnd, DlControl
<1>3. /\ UlReq(a) \in UlControl /\ Keepalive \in UlControl
      /\ ControlAck(a) \in UlControl /\ McsChangeReq(a, b) \in UlControl
  <2> DEFINE a2 == a % 2 a8 == a % 8 a13 == a % 8192 b16 == b % 16
  <2>1. /\ a2 \in 0 .. 1 /\ a8 \in 0 .. 7 /\ a13 \in 0 .. 8191
        /\ b16 \in 0 .. 15
    OBVIOUS
  <2>2. /\ UlReq(a) = [type |-> ul_req, packetqueuesize |-> a13]
        /\ ControlAck(a) = [type |-> control_ack, acked_ctrl_id |-> a8]
        /\ McsChangeReq(a, b) = [type |-> mcs_change_req, ul_flag |-> a2, mcs |-> b16]
    BY DEF UlReq, ControlAck, McsChangeReq
  <2> HIDE DEF a2, a8, a13, b16
  <2>3. UlReq(a) \in UlControl
    BY <2>1, <2>2 DEF UlControl
  <2>4. Keepalive \in UlControl
    BY DEF Keepalive, UlControl
  <2>5. ControlAck(a) \in UlControl
    BY <2>1, <2>2 DEF UlControl
  <2>6. McsChangeReq(a, b) \in UlControl
    BY <2>1, <2>2 DEF UlControl
  <2> QED
    BY <2>3, <2>4, <2>5, <2>6
<1> QED
  BY <1>1, <1>2, <1>3


(* Parse, for the types of a direction numbered from u: 8 uplink, 0 down.  *)
ParseOf(buf, u) == IF u = 8 THEN Parse(buf, TRUE) ELSE Parse(buf, FALSE)

(* What m leaves in a buffer is m again when it is parsed, whatever bytes  *)
(* are behind it.                                                          *)
Survives(m, u) ==
  /\ m.type \in MsgTypes /\ MsgLen(m) \in Nat /\ MsgLen(m) >= 1
  /\ Generate(m) \in Seq(Byte) /\ Len(Generate(m)) = MsgLen(m)
  /\ \A buf \in Seq(Byte) :
       /\ Len(buf) >= MsgLen(m)
       /\ \A i \in 1 .. MsgLen(m) : buf[i] = Generate(m)[i]
       => ParseOf(buf, u) = m

(* A channel's messages are parsed as those of its direction.              *)
LEMMA ParseFlag ==
  ASSUME NEW flag \in BOOLEAN, NEW buf
  PROVE  Parse(buf, flag) = ParseOf(buf, IF flag THEN 8 ELSE 0)
BY DEF ParseOf, Parse, TypeOf

(* mac_msg_parse takes a control message from its header alone.            *)
LEMMA ParseControl ==
  ASSUME NEW u \in {0, 8}, NEW buf \in Seq(Byte), NEW t \in MsgTypes,
         buf # <<>>, buf[1] \div 32 # 0, buf[1] \div 32 + u = t,
         ~(Len(buf) < HdrLen(t)), ~IsData(t)
  PROVE  ParseOf(buf, u) = ParseHeader(t, buf)
<1>1. CASE u = 8
  BY <1>1 DEF ParseOf, Parse, TypeOf
<1>2. CASE u = 0
  <2>1. buf[1] \in Byte
    OBVIOUS
  <2>2. \A x \in Byte : x \div 32 + 0 = x \div 32
    BY DEF Byte
  <2>3. buf[1] \div 32 = t
    BY <1>2, <2>1, <2>2
  <2> QED
    BY <1>2, <2>3 DEF ParseOf, Parse, TypeOf
<1> QED
  BY <1>1, <1>2

(* A control message whose header is parsed back survives.                 *)
Decodes(m, u) ==
  /\ m.type \in MsgTypes /\ ~IsData(m.type) /\ HdrLen(m.type) \in 1 .. 3
  /\ Header(m) \in Seq(Byte) /\ Len(Header(m)) = HdrLen(m.type)
  /\ Header(m)[1] \div 32 # 0 /\ Header(m)[1] \div 32 + u = m.type
  /\ \A buf \in Seq(Byte) :
       (\A i \in 1 .. HdrLen(m.type) : buf[i] = Header(m)[i])
         => ParseHeader(m.type, buf) = m

(* A control message whose header is parsed back survives.                 *)
LEMMA ControlSurvives ==
  ASSUME NEW m, NEW u \in {0, 8}, Decodes(m, u)
  PROVE  Survives(m, u)
<1> DEFINE n == HdrLen(m.type) t == m.type
<1>1. MsgLen(m) = n /\ Generate(m) = Header(m)
  BY DEF MsgLen, PayloadLen, Generate, Decodes
<1>2. ASSUME NEW buf \in Seq(Byte), Len(buf) >= n,
             \A i \in 1 .. n : buf[i] = Header(m)[i]
      PROVE  ParseOf(buf, u) = m
  <2>1. buf # <<>> /\ ~(Len(buf) < n) /\ buf[1] = Header(m)[1]
    BY <1>2 DEF Decodes
  <2>2. ParseOf(buf, u) = ParseHeader(t, buf)
    BY <2>1, ParseControl DEF Decodes
  <2> QED
    BY <2>2, <1>2 DEF Decodes
<1> QED
  BY <1>1, <1>2 DEF Survives, Decodes

(* ul_req: a request, 13 bits in two bytes.                                *)
LEMMA UlReqSurvives ==
  ASSUME NEW m \in UlControl, m.type = ul_req
  PROVE  Survives(m, 8)
<1> USE DEF ul_req, associate_response, dl_mcs_info, ul_mcs_info, timing_advance,
            control_ack, mcs_change_req, session_end, keepalive,
            channel_quality, dl_data, ul_data, IsData
<1> DEFINE v == m.packetqueuesize
           b1 == 32 + v \div 256
           b2 == v % 256
<1>1. m.type = 9 /\ v \in 0 .. 8191
  BY DEF UlControl
<1>2. m = [type |-> 9, packetqueuesize |-> v]
  BY <1>1 DEF UlControl
<1>3. /\ b1 \in Byte
      /\ b2 \in Byte
      /\ b1 \div 32 = 1
      /\ (b1 % 32) * 256 + b2 = v
  <2> HIDE DEF v
  <2> QED
    BY <1>1 DEF Byte
<1>4. Header(m) = <<b1, b2>>
  <2>1. Header(m) = <<CtrlId(m.type) + v \div 256, v % 256>>
    BY <1>1 DEF Header
  <2>2. CtrlId(m.type) = 32
    BY <1>1 DEF CtrlId
  <2> QED
    BY <2>1, <2>2
<1> HIDE DEF v, b1, b2
<1>5. /\ m.type \in MsgTypes /\ ~IsData(m.type) /\ HdrLen(m.type) = 2
      /\ Header(m) \in Seq(Byte) /\ Len(Header(m)) = 2
      /\ Header(m)[1] = b1 /\ Header(m)[2] = b2
  <2>1. m.type \in MsgTypes /\ ~IsData(m.type) /\ HdrLen(m.type) = 2
    BY <1>1 DEF HdrLen, MsgTypes
  <2> QED
    BY <2>1, <1>3, <1>4
<1>6. ASSUME NEW buf \in Seq(Byte), \A i \in 1 .. 2 : buf[i] = Header(m)[i]
      PROVE  ParseHeader(m.type, buf) = m
  <2>1. buf[1] = b1 /\ buf[2] = b2
    BY <1>5, <1>6
  <2>2. ParseHeader(9, buf) =
          [type |-> 9, packetqueuesize |-> (buf[1] % 32) * 256 + buf[2]]
    BY DEF ParseHeader
  <2> QED
    BY <1>1, <1>2, <1>3, <2>1, <2>2
<1>7. Header(m)[1] \div 32 + 8 = m.type /\ Header(m)[1] \div 32 # 0
  BY <1>1, <1>3, <1>5
<1>8. Decodes(m, 8)
  <2> HIDE DEF IsData
  <2> QED
    BY <1>5, <1>6, <1>7 DEF Decodes
<1> QED
  BY <1>8, ControlSurvives

(* keepalive: nothing but a type.                                          *)
LEMMA KeepaliveSurvives ==
  ASSUME NEW m \in UlControl, m.type = keepalive
  PROVE  Survives(m, 8)
<1> USE DEF ul_req, associate_response, dl_mcs_info, ul_mcs_info, timing_advance,
            control_ack, mcs_change_req, session_end, keepalive,
            channel_quality, dl_data, ul_data, IsData
<1> DEFINE b1 == 96
<1>1. m.type = 11
  BY DEF UlControl
<1>2. m = [type |-> 11]
  BY <1>1 DEF UlControl
<1>3. /\ b1 \in Byte
      /\ b1 \div 32 = 3
  <2> QED
    BY <1>1 DEF Byte
<1>4. Header(m) = <<b1>>
  <2>1. Header(m) = <<CtrlId(m.type)>>
    BY <1>1 DEF Header
  <2>2. CtrlId(m.type) = 96
    BY <1>1 DEF CtrlId
  <2> QED
    BY <2>1, <2>2
<1> HIDE DEF b1
<1>5. /\ m.type \in MsgTypes /\ ~IsData(m.type) /\ HdrLen(m.type) = 1
      /\ Header(m) \in Seq(Byte) /\ Len(Header(m)) = 1
      /\ Header(m)[1] = b1
  <2>1. m.type \in MsgTypes /\ ~IsData(m.type) /\ HdrLen(m.type) = 1
    BY <1>1 DEF HdrLen, MsgTypes
  <2> QED
    BY <2>1, <1>3, <1>4
<1>6. ASSUME NEW buf \in Seq(Byte), \A i \in 1 .. 1 : buf[i] = Header(m)[i]
      PROVE  ParseHeader(m.type, buf) = m
  <2>1. buf[1] = b1
    BY <1>5, <1>6
  <2>2. ParseHeader(11, buf) =
          [type |-> 11]
    BY DEF ParseHeader
  <2> QED
    BY <1>1, <1>2, <1>3, <2>1, <2>2
<1>7. Header(m)[1] \div 32 + 8 = m.type /\ Header(m)[1] \div 32 # 0
  BY <1>1, <1>3, <1>5
<1>8. Decodes(m, 8)
  <2> HIDE DEF IsData
  <2> QED
    BY <1>5, <1>6, <1>7 DEF Decodes
<1> QED
  BY <1>8, ControlSurvives

(* control_ack: an acknowledgement, 3 bits.                                *)
LEMMA ControlAckSurvives ==
  ASSUME NEW m \in UlControl, m.type = control_ack
  PROVE  Survives(m, 8)
<1> USE DEF ul_req, associate_response, dl_mcs_info, ul_mcs_info, timing_advance,
            control_ack, mcs_change_req, session_end, keepalive,
            channel_quality, dl_data, ul_data, IsData
<1> DEFINE v == m.acked_ctrl_id
           b1 == 128 + v * 4
<1>1. m.type = 12 /\ v \in 0 .. 7
  BY DEF UlControl
<1>2. m = [type |-> 12, acked_ctrl_id |-> v]
  BY <1>1 DEF UlControl
<1>3. /\ b1 \in Byte
      /\ b1 \div 32 = 4
      /\ (b1 % 32) \div 4 = v
  <2> HIDE DEF v
  <2> QED
    BY <1>1 DEF Byte
<1>4. Header(m) = <<b1>>
  <2>1. Header(m) = <<CtrlId(m.type) + v * 4>>
    BY <1>1 DEF Header
  <2>2. CtrlId(m.type) = 128
    BY <1>1 DEF CtrlId
  <2> QED
    BY <2>1, <2>2
<1> HIDE DEF v, b1
<1>5. /\ m.type \in MsgTypes /\ ~IsData(m.type) /\ HdrLen(m.type) = 1
      /\ Header(m) \in Seq(Byte) /\ Len(Header(m)) = 1
      /\ Header(m)[1] = b1
  <2>1. m.type \in MsgTypes /\ ~IsData(m.type) /\ HdrLen(m.type) = 1
    BY <1>1 DEF HdrLen, MsgTypes
  <2> QED
    BY <2>1, <1>3, <1>4
<1>6. ASSUME NEW buf \in Seq(Byte), \A i \in 1 .. 1 : buf[i] = Header(m)[i]
      PROVE  ParseHeader(m.type, buf) = m
  <2>1. buf[1] = b1
    BY <1>5, <1>6
  <2>2. ParseHeader(12, buf) =
          [type |-> 12, acked_ctrl_id |-> (buf[1] % 32) \div 4]
    BY DEF ParseHeader
  <2> QED
    BY <1>1, <1>2, <1>3, <2>1, <2>2
<1>7. Header(m)[1] \div 32 + 8 = m.type /\ Header(m)[1] \div 32 # 0
  BY <1>1, <1>3, <1>5
<1>8. Decodes(m, 8)
  <2> HIDE DEF IsData
  <2> QED
    BY <1>5, <1>6, <1>7 DEF Decodes
<1> QED
  BY <1>8, ControlSurvives

(* mcs_change_req: a flag and 4 bits.                                      *)
LEMMA McsChangeReqSurvives ==
  ASSUME NEW m \in UlControl, m.type = mcs_change_req
  PROVE  Survives(m, 8)
<1> USE DEF ul_req, associate_response, dl_mcs_info, ul_mcs_info, timing_advance,
            control_ack, mcs_change_req, session_end, keepalive,
            channel_quality, dl_data, ul_data, IsData
<1> DEFINE f == m.ul_flag
           v == m.mcs
           b1 == 160 + f * 16 + v
<1>1. m.type = 13 /\ f \in 0 .. 1 /\ v \in 0 .. 15
  BY DEF UlControl
<1>2. m = [type |-> 13, ul_flag |-> f, mcs |-> v]
  BY <1>1 DEF UlControl
<1>3. /\ b1 \in Byte
      /\ b1 \div 32 = 5
      /\ (b1 % 32) \div 16 = f
      /\ b1 % 16 = v
  <2> HIDE DEF f, v
  <2> QED
    BY <1>1 DEF Byte
<1>4. Header(m) = <<b1>>
  <2>1. Header(m) = <<CtrlId(m.type) + f * 16 + v>>
    BY <1>1 DEF Header
  <2>2. CtrlId(m.type) = 160
    BY <1>1 DEF CtrlId
  <2> QED
    BY <2>1, <2>2
<1> HIDE DEF f, v, b1
<1>5. /\ m.type \in MsgTypes /\ ~IsData(m.type) /\ HdrLen(m.type) = 1
      /\ Header(m) \in Seq(Byte) /\ Len(Header(m)) = 1
      /\ Header(m)[1] = b1
  <2>1. m.type \in MsgTypes /\ ~IsData(m.type) /\ HdrLen(m.type) = 1
    BY <1>1 DEF HdrLen, MsgTypes
  <2> QED
    BY <2>1, <1>3, <1>4
<1>6. ASSUME NEW buf \in Seq(Byte), \A i \in 1 .. 1 : buf[i] = Header(m)[i]
      PROVE  ParseHeader(m.type, buf) = m
  <2>1. buf[1] = b1
    BY <1>5, <1>6
  <2>2. ParseHeader(13, buf) =
          [type |-> 13, ul_flag |-> (buf[1] % 32) \div 16, mcs |-> buf[1] % 16]
    BY DEF ParseHeader
  <2> QED
    BY <1>1, <1>2, <1>3, <2>1, <2>2
<1>7. Header(m)[1] \div 32 + 8 = m.type /\ Header(m)[1] \div 32 # 0
  BY <1>1, <1>3, <1>5
<1>8. Decodes(m, 8)
  <2> HIDE DEF IsData
  <2> QED
    BY <1>5, <1>6, <1>7 DEF Decodes
<1> QED
  BY <1>8, ControlSurvives

(* dl_mcs_info: 5 bits.                                                    *)
LEMMA DlMcsInfoSurvives ==
  ASSUME NEW m \in DlControl, m.type = dl_mcs_info
  PROVE  Survives(m, 0)
<1> USE DEF ul_req, associate_response, dl_mcs_info, ul_mcs_info, timing_advance,
            control_ack, mcs_change_req, session_end, keepalive,
            channel_quality, dl_data, ul_data, IsData
<1> DEFINE v == m.mcs
           b1 == 64 + v
<1>1. m.type = 2 /\ v \in 0 .. 31
  BY DEF DlControl
<1>2. m = [type |-> 2, mcs |-> v]
  BY <1>1 DEF DlControl
<1>3. /\ b1 \in Byte
      /\ b1 \div 32 = 2
      /\ b1 % 32 = v
  <2> HIDE DEF v
  <2> QED
    BY <1>1 DEF Byte
<1>4. Header(m) = <<b1>>
  <2>1. Header(m) = <<CtrlId(m.type) + v>>
    BY <1>1 DEF Header
  <2>2. CtrlId(m.type) = 64
    BY <1>1 DEF CtrlId
  <2> QED
    BY <2>1, <2>2
<1> HIDE DEF v, b1
<1>5. /\ m.type \in MsgTypes /\ ~IsData(m.type) /\ HdrLen(m.type) = 1
      /\ Header(m) \in Seq(Byte) /\ Len(Header(m)) = 1
      /\ Header(m)[1] = b1
  <2>1. m.type \in MsgTypes /\ ~IsData(m.type) /\ HdrLen(m.type) = 1
    BY <1>1 DEF HdrLen, MsgTypes
  <2> QED
    BY <2>1, <1>3, <1>4
<1>6. ASSUME NEW buf \in Seq(Byte), \A i \in 1 .. 1 : buf[i] = Header(m)[i]
      PROVE  ParseHeader(m.type, buf) = m
  <2>1. buf[1] = b1
    BY <1>5, <1>6
  <2>2. ParseHeader(2, buf) =
          [type |-> 2, mcs |-> buf[1] % 32]
    BY DEF ParseHeader
  <2> QED
    BY <1>1, <1>2, <1>3, <2>1, <2>2
<1>7. Header(m)[1] \div 32 + 0 = m.type /\ Header(m)[1] \div 32 # 0
  BY <1>1, <1>3, <1>5
<1>8. Decodes(m, 0)
  <2> HIDE DEF IsData
  <2> QED
    BY <1>5, <1>6, <1>7 DEF Decodes
<1> QED
  BY <1>8, ControlSurvives

(* ul_mcs_info: 5 bits.                                                    *)
LEMMA UlMcsInfoSurvives ==
  ASSUME NEW m \in DlControl, m.type = ul_mcs_info
  PROVE  Survives(m, 0)
<1> USE DEF ul_req, associate_response, dl_mcs_info, ul_mcs_info, timing_advance,
            control_ack, mcs_change_req, session_end, keepalive,
            channel_quality, dl_data, ul_data, IsData
<1> DEFINE v == m.mcs
           b1 == 96 + v
<1>1. m.type = 3 /\ v \in 0 .. 31
  BY DEF DlControl
<1>2. m = [type |-> 3, mcs |-> v]
  BY <1>1 DEF DlControl
<1>3. /\ b1 \in Byte
      /\ b1 \div 32 = 3
      /\ b1 % 32 = v
  <2> HIDE DEF v
  <2> QED
    BY <1>1 DEF Byte
<1>4. Header(m) = <<b1>>
  <2>1. Header(m) = <<CtrlId(m.type) + v>>
    BY <1>1 DEF Header
  <2>2. CtrlId(m.type) = 96
    BY <1>1 DEF CtrlId
  <2> QED
    BY <2>1, <2>2
<1> HIDE DEF v, b1
<1>5. /\ m.type \in MsgTypes /\ ~IsData(m.type) /\ HdrLen(m.type) = 1
      /\ Header(m) \in Seq(Byte) /\ Len(Header(m)) = 1
      /\ Header(m)[1] = b1
  <2>1. m.type \in MsgTypes /\ ~IsData(m.type) /\ HdrLen(m.type) = 1
    BY <1>1 DEF HdrLen, MsgTypes
  <2> QED
    BY <2>1, <1>3, <1>4
<1>6. ASSUME NEW buf \in Seq(Byte), \A i \in 1 .. 1 : buf[i] = Header(m)[i]
      PROVE  ParseHeader(m.type, buf) = m
  <2>1. buf[1] = b1
    BY <1>5, <1>6
  <2>2. ParseHeader(3, buf) =
          [type |-> 3, mcs |-> buf[1] % 32]
    BY DEF ParseHeader
  <2> QED
    BY <1>1, <1>2, <1>3, <2>1, <2>2
<1>7. Header(m)[1] \div 32 + 0 = m.type /\ Header(m)[1] \div 32 # 0
  BY <1>1, <1>3, <1>5
<1>8. Decodes(m, 0)
  <2> HIDE DEF IsData
  <2> QED
    BY <1>5, <1>6, <1>7 DEF Decodes
<1> QED
  BY <1>8, ControlSurvives

(* timing_advance: 13 bits in two bytes.                                   *)
LEMMA TimingAdvanceSurvives ==
  ASSUME NEW m \in DlControl, m.type = timing_advance
  PROVE  Survives(m, 0)
<1> USE DEF ul_req, associate_response, dl_mcs_info, ul_mcs_info, timing_advance,
            control_ack, mcs_change_req, session_end, keepalive,
            channel_quality, dl_data, ul_data, IsData
<1> DEFINE v == m.timingAdvance
           b1 == 128 + v \div 256
           b2 == v % 256
<1>1. m.type = 4 /\ v \in 0 .. 8191
  BY DEF DlControl
<1>2. m = [type |-> 4, timingAdvance |-> v]
  BY <1>1 DEF DlControl
<1>3. /\ b1 \in Byte
      /\ b2 \in Byte
      /\ b1 \div 32 = 4
      /\ (b1 % 32) * 256 + b2 = v
  <2> HIDE DEF v
  <2> QED
    BY <1>1 DEF Byte
<1>4. Header(m) = <<b1, b2>>
  <2>1. Header(m) = <<CtrlId(m.type) + v \div 256, v % 256>>
    BY <1>1 DEF Header
  <2>2. CtrlId(m.type) = 128
    BY <1>1 DEF CtrlId
  <2> QED
    BY <2>1, <2>2
<1> HIDE DEF v, b1, b2
<1>5. /\ m.type \in MsgTypes /\ ~IsData(m.type) /\ HdrLen(m.type) = 2
      /\ Header(m) \in Seq(Byte) /\ Len(Header(m)) = 2
      /\ Header(m)[1] = b1 /\ Header(m)[2] = b2
  <2>1. m.type \in MsgTypes /\ ~IsData(m.type) /\ HdrLen(m.type) = 2
    BY <1>1 DEF HdrLen, MsgTypes
  <2> QED
    BY <2>1, <1>3, <1>4
<1>6. ASSUME NEW buf \in Seq(Byte), \A i \in 1 .. 2 : buf[i] = Header(m)[i]
      PROVE  ParseHeader(m.type, buf) = m
  <2>1. buf[1] = b1 /\ buf[2] = b2
    BY <1>5, <1>6
  <2>2. ParseHeader(4, buf) =
          [type |-> 4, timingAdvance |-> (buf[1] % 32) * 256 + buf[2]]
    BY DEF ParseHeader
  <2> QED
    BY <1>1, <1>2, <1>3, <2>1, <2>2
<1>7. Header(m)[1] \div 32 + 0 = m.type /\ Header(m)[1] \div 32 # 0
  BY <1>1, <1>3, <1>5
<1>8. Decodes(m, 0)
  <2> HIDE DEF IsData
  <2> QED
    BY <1>5, <1>6, <1>7 DEF Decodes
<1> QED
  BY <1>8, ControlSurvives

(* session_end: nothing but a type.                                        *)
LEMMA SessionEndSurvives ==
  ASSUME NEW m \in DlControl, m.type = session_end
  PROVE  Survives(m, 0)
<1> USE DEF ul_req, associate_response, dl_mcs_info, ul_mcs_info, timing_advance,
            control_ack, mcs_change_req, session_end, keepalive,
            channel_quality, dl_data, ul_data, IsData
<1> DEFINE b1 == 160
<1>1. m.type = 5
  BY DEF DlControl
<1>2. m = [type |-> 5]
  BY <1>1 DEF DlControl
<1>3. /\ b1 \in Byte
      /\ b1 \div 32 = 5
  <2> QED
    BY <1>1 DEF Byte
<1>4. Header(m) = <<b1>>
  <2>1. Header(m) = <<CtrlId(m.type)>>
    BY <1>1 DEF Header
  <2>2. CtrlId(m.type) = 160
    BY <1>1 DEF CtrlId
  <2> QED
    BY <2>1, <2>2
<1> HIDE DEF b1
<1>5. /\ m.type \in MsgTypes /\ ~IsData(m.type) /\ HdrLen(m.type) = 1
      /\ Header(m) \in Seq(Byte) /\ Len(Header(m)) = 1
      /\ Header(m)[1] = b1
  <2>1. m.type \in MsgTypes /\ ~IsData(m.type) /\ HdrLen(m.type) = 1
    BY <1>1 DEF HdrLen, MsgTypes
  <2> QED
    BY <2>1, <1>3, <1>4
<1>6. ASSUME NEW buf \in Seq(Byte), \A i \in 1 .. 1 : buf[i] = Header(m)[i]
      PROVE  ParseHeader(m.type, buf) = m
  <2>1. buf[1] = b1
    BY <1>5, <1>6
  <2>2. ParseHeader(5, buf) =
          [type |-> 5]
    BY DEF ParseHeader
  <2> QED
    BY <1>1, <1>2, <1>3, <2>1, <2>2
<1>7. Header(m)[1] \div 32 + 0 = m.type /\ Header(m)[1] \div 32 # 0
  BY <1>1, <1>3, <1>5
<1>8. Decodes(m, 0)
  <2> HIDE DEF IsData
  <2> QED
    BY <1>5, <1>6, <1>7 DEF Decodes
<1> QED
  BY <1>8, ControlSurvives

(* associate_response: five fields in three bytes.                         *)
LEMMA AssociateResponseSurvives ==
  ASSUME NEW m \in BroadcastControl
  PROVE  Survives(m, 0)
<1> USE DEF ul_req, associate_response, dl_mcs_info, ul_mcs_info, timing_advance,
            control_ack, mcs_change_req, session_end, keepalive,
            channel_quality, dl_data, ul_data, IsData
<1> DEFINE v == m.userid
           r == m.rachuserid
           a == m.response
           z == m.protoVersion
           d == m.timing_advance
           b1 == 32 + v * 2 + r \div 8
           b2 == (r % 8) * 32 + a * 4 + z
           b3 == d
<1>1. m.type = 1 /\ v \in 0 .. 15 /\ r \in 0 .. 15 /\ a \in 0 .. 7 /\ z \in {0} /\ d \in 0 .. 255
  BY DEF BroadcastControl
<1>2. m = [type |-> 1, userid |-> v, rachuserid |-> r, response |-> a,
          protoVersion |-> z, timing_advance |-> d]
  BY <1>1 DEF BroadcastControl
<1>3. /\ b1 \in Byte
      /\ b2 \in Byte
      /\ b3 \in Byte
      /\ b1 \div 32 = 1
      /\ (b1 % 32) \div 2 = v
      /\ (b1 % 2) * 8 + b2 \div 32 = r
      /\ (b2 % 32) \div 4 = a
      /\ b2 % 4 = z
      /\ b3 = d
  <2> HIDE DEF v, r, a, z, d
  <2> QED
    BY <1>1 DEF Byte
<1>4. Header(m) = <<b1, b2, b3>>
  <2>1. Header(m) = <<CtrlId(m.type) + v * 2 + r \div 8, (r % 8) * 32 + a * 4 + z, d>>
    BY <1>1 DEF Header
  <2>2. CtrlId(m.type) = 32
    BY <1>1 DEF CtrlId
  <2> QED
    BY <2>1, <2>2
<1> HIDE DEF v, r, a, z, d, b1, b2, b3
<1>5. /\ m.type \in MsgTypes /\ ~IsData(m.type) /\ HdrLen(m.type) = 3
      /\ Header(m) \in Seq(Byte) /\ Len(Header(m)) = 3
      /\ Header(m)[1] = b1 /\ Header(m)[2] = b2 /\ Header(m)[3] = b3
  <2>1. m.type \in MsgTypes /\ ~IsData(m.type) /\ HdrLen(m.type) = 3
    BY <1>1 DEF HdrLen, MsgTypes
  <2> QED
    BY <2>1, <1>3, <1>4
<1>6. ASSUME NEW buf \in Seq(Byte), \A i \in 1 .. 3 : buf[i] = Header(m)[i]
      PROVE  ParseHeader(m.type, buf) = m
  <2>1. buf[1] = b1 /\ buf[2] = b2 /\ buf[3] = b3
    BY <1>5, <1>6
  <2>2. ParseHeader(1, buf) =
          [type |-> 1, userid |-> (buf[1] % 32) \div 2,
           rachuserid |-> (buf[1] % 2) * 8 + buf[2] \div 32,
           response |-> (buf[2] % 32) \div 4,
           protoVersion |-> buf[2] % 4, timing_advance |-> buf[3]]
    BY DEF ParseHeader
  <2> QED
    BY <1>1, <1>2, <1>3, <2>1, <2>2
<1>7. Header(m)[1] \div 32 + 0 = m.type /\ Header(m)[1] \div 32 # 0
  BY <1>1, <1>3, <1>5
<1>8. Decodes(m, 0)
  <2> HIDE DEF IsData
  <2> QED
    BY <1>5, <1>6, <1>7 DEF Decodes
<1> QED
  BY <1>8, ControlSurvives

(* The bytes of the header of a fragment.                                  *)
MaxLen == 4095
Frag1(n) == 224 + n \div 128
Frag2(n, f) == (n % 128) * 2 + f
Frag3(s, g) == s * 32 + g

(* The first two bytes hold the length and the flag.                       *)
LEMMA LengthBytes ==
  ASSUME NEW n \in Nat, n <= MaxLen, NEW f \in 0 .. 1
  PROVE  /\ Frag1(n) \in Byte /\ Frag2(n, f) \in Byte
         /\ Frag1(n) \div 32 = 7
         /\ (Frag1(n) % 32) * 128 + Frag2(n, f) \div 2 = n
         /\ Frag2(n, f) % 2 = f
BY DEF Byte, Frag1, Frag2, MaxLen

(* The third holds the two numbers.                                        *)
LEMMA NumberByte ==
  ASSUME NEW s \in 0 .. 7, NEW g \in Nat, g <= 31
  PROVE  /\ Frag3(s, g) \in Byte
         /\ Frag3(s, g) \div 32 = s /\ Frag3(s, g) % 32 = g
BY DEF Byte, Frag3

(* The bytes of a concatenation.                                           *)
LEMMA Concatenated ==
  ASSUME NEW p \in Seq(Byte), NEW q \in Seq(Byte)
  PROVE  /\ p \o q \in Seq(Byte) /\ Len(p \o q) = Len(p) + Len(q)
         /\ \A i \in 1 .. Len(p) : (p \o q)[i] = p[i]
         /\ \A i \in 1 .. Len(q) : (p \o q)[Len(p) + i] = q[i]
OBVIOUS

(* What the two types of fragments have in common.                         *)
LEMMA DataTypes ==
  ASSUME NEW t \in {dl_data, ul_data}
  PROVE  IsData(t) /\ t \in MsgTypes /\ HdrLen(t) = 3 /\ CtrlId(t) = 224
<1>1. IsData(t) /\ t \in MsgTypes
  BY DEF IsData, MsgTypes
<1>2. HdrLen(t) = 3
  BY DEF HdrLen, associate_response, timing_advance, ul_req, dl_data, ul_data
<1>3. CtrlId(t) = 224
  BY DEF CtrlId, dl_data, ul_data
<1> QED
  BY <1>1, <1>2, <1>3

(* The header of a fragment (mac_msg_create_dl_data, _ul_data).            *)
LEMMA DataHeader ==
  ASSUME NEW m, m.type \in {dl_data, ul_data}
  PROVE  Header(m) = <<Frag1(m.data_length), Frag2(m.data_length, m.final_flag),
                       Frag3(m.seqNr, m.fragNr)>>
<1>1. CtrlId(m.type) = 224
  BY DEF CtrlId, dl_data, ul_data
<1> QED
  BY <1>1 DEF Frag1, Frag2, Frag3, Header, IsData, associate_response, dl_mcs_info, ul_mcs_info,
     timing_advance, session_end, ul_req, channel_quality, keepalive,
     control_ack, mcs_change_req, dl_data, ul_data

(* What is read from it.                                                   *)
LEMMA ParseDataHeader ==
  ASSUME NEW t \in {dl_data, ul_data}, NEW buf
  PROVE  ParseHeader(t, buf) =
           [type |-> t, data_length |-> (buf[1] % 32) * 128 + buf[2] \div 2,
            final_flag |-> buf[2] % 2, seqNr |-> buf[3] \div 32,
            fragNr |-> buf[3] % 32]
BY DEF ParseHeader, IsData, associate_response, dl_mcs_info, ul_mcs_info,
     timing_advance, session_end, ul_req, channel_quality, keepalive,
     control_ack, mcs_change_req, dl_data, ul_data

DataOf(u) == IF u = 8 THEN ul_data ELSE dl_data

(* mac_msg_parse of a fragment that the buffer holds as a whole.           *)
LEMMA ParseData ==
  ASSUME NEW u \in {0, 8}, NEW t \in {dl_data, ul_data}, t = DataOf(u),
         NEW buf \in Seq(Byte), Len(buf) >= 3, buf[1] \div 32 = 7,
         Len(buf) >= 3 + ParseHeader(t, buf).data_length,
         ParseHeader(t, buf).data_length \in Nat
  PROVE  LET h == ParseHeader(t, buf)
         IN  ParseOf(buf, u) =
               [type |-> t, data_length |-> h.data_length,
                final_flag |-> h.final_flag, seqNr |-> h.seqNr, fragNr |-> h.fragNr,
                data |-> SubSeq(buf, 4, 4 + h.data_length - 1)]
<1> DEFINE h == ParseHeader(t, buf)
<1>1. IsData(t) /\ t \in MsgTypes /\ HdrLen(t) = 3
  BY DataTypes
<1>2. buf # <<>> /\ buf[1] \div 32 # 0 /\ ~(Len(buf) < 3)
      /\ ~(Len(buf) < 3 + h.data_length) /\ 3 + 1 = 4
  OBVIOUS
<1>3. CASE u = 8
  <2>1. TypeOf(buf[1], TRUE) = t
    BY <1>3 DEF TypeOf, DataOf, dl_data, ul_data
  <2> QED
    BY <1>1, <1>2, <1>3, <2>1 DEF ParseOf, Parse
<1>4. CASE u = 0
  <2>1. buf[1] \div 32 = t
    BY <1>4 DEF DataOf, dl_data, ul_data
  <2>2. TypeOf(buf[1], FALSE) = t
    BY <2>1 DEF TypeOf
  <2>3. Parse(buf, FALSE) = 
           [type |-> t, data_length |-> h.data_length,
            final_flag |-> h.final_flag, seqNr |-> h.seqNr, fragNr |-> h.fragNr,
            data |-> SubSeq(buf, 4, 4 + h.data_length - 1)]
    BY <1>1, <1>2, <2>2 DEF Parse
  <2> QED
    <3>1. u # 8
      BY <1>4
    <3> QED
      BY <2>3, <3>1, Zenon DEF ParseOf
<1> QED
  BY <1>3, <1>4

IsFragment(m, t, n, f, s, g, d) ==
  /\ Len(d) = n
  /\ m = [type |-> t, data_length |-> n, final_flag |-> f,
          seqNr |-> s, fragNr |-> g, data |-> d]

(* A fragment: its header carries its length, so that what is behind it    *)
(* stays behind.                                                           *)
THEOREM FragmentSurvives ==
  ASSUME NEW u \in {0, 8}, NEW t \in {dl_data, ul_data}, t = DataOf(u),
         NEW f \in 0 .. 1, NEW n \in Nat, n <= MaxLen, NEW d \in Seq(Byte),
         NEW s \in 0 .. 7, NEW g \in Nat, g <= 31,
         NEW m, IsFragment(m, t, n, f, s, g, d)
  PROVE  Survives(m, u) /\ MsgLen(m) = 3 + n
<1> DEFINE b1 == Frag1(n)
           b2 == Frag2(n, f)
           b3 == Frag3(s, g)
           head == <<b1, b2, b3>>
<1>0. Len(d) = n
  BY DEF IsFragment
<1>1. /\ b1 \in Byte /\ b2 \in Byte /\ b3 \in Byte /\ b1 \div 32 = 7
      /\ (b1 % 32) * 128 + b2 \div 2 = n
      /\ b2 % 2 = f /\ b3 \div 32 = s /\ b3 % 32 = g
  BY LengthBytes, NumberByte
<1>2. m.type = t /\ m.data = d /\ IsData(t) /\ t \in MsgTypes /\ HdrLen(t) = 3
      /\ m.data_length = n /\ m.final_flag = f /\ m.seqNr = s /\ m.fragNr = g
  BY DataTypes DEF IsFragment
<1>3. Header(m) = head
  <2>1. m.type \in {dl_data, ul_data}
    BY <1>2
  <2> QED
    BY <1>2, <2>1, DataHeader
<1>4. MsgLen(m) = 3 + n
  BY <1>0, <1>2 DEF MsgLen, PayloadLen
<1>5. Generate(m) = head \o d
  BY <1>2, <1>3 DEF Generate
<1> HIDE DEF b1, b2, b3
<1>6. head \in Seq(Byte) /\ Len(head) = 3
      /\ head[1] = b1 /\ head[2] = b2 /\ head[3] = b3
  BY <1>1
<1> HIDE DEF head
<1>7. /\ Generate(m) \in Seq(Byte) /\ Len(Generate(m)) = 3 + n
      /\ Generate(m)[1] = b1 /\ Generate(m)[2] = b2 /\ Generate(m)[3] = b3
      /\ \A i \in 1 .. n : Generate(m)[3 + i] = d[i]
  <2> DEFINE p == head \o d
  <2>1. /\ p \in Seq(Byte) /\ Len(p) = 3 + n
        /\ \A i \in 1 .. 3 : p[i] = head[i]
        /\ \A i \in 1 .. n : p[3 + i] = d[i]
    <3>1. /\ p \in Seq(Byte) /\ Len(p) = Len(head) + Len(d)
          /\ \A i \in 1 .. Len(head) : p[i] = head[i]
          /\ \A i \in 1 .. Len(d) : p[Len(head) + i] = d[i]
      BY <1>6, Concatenated, Zenon
    <3> HIDE DEF p
    <3> QED
      BY <1>0, <1>6, <3>1
  <2> HIDE DEF p
  <2>2. p[1] = b1 /\ p[2] = b2 /\ p[3] = b3
    BY <1>6, <2>1
  <2> QED
    BY <1>5, <2>1, <2>2 DEF p
<1>8. ASSUME NEW buf \in Seq(Byte), Len(buf) >= 3 + n,
             \A i \in 1 .. 3 + n : buf[i] = Generate(m)[i]
      PROVE  ParseOf(buf, u) = m
  <2>1. buf[1] = b1 /\ buf[2] = b2 /\ buf[3] = b3 /\ Len(buf) >= 3
    <3>1. 1 \in 1 .. 3 + n /\ 2 \in 1 .. 3 + n /\ 3 \in 1 .. 3 + n
      OBVIOUS
    <3>2. Len(buf) \in Nat /\ Len(buf) >= 3
      BY <1>8
    <3> QED
      BY <1>7, <1>8, <3>1, <3>2
  <2>2. \A i \in 1 .. n : buf[3 + i] = d[i]
    BY <1>7, <1>8
  <2>3. SubSeq(buf, 4, 4 + n - 1) = d
    <3>1. SubSeq(buf, 4, 3 + n) \in Seq(Byte) /\ Len(SubSeq(buf, 4, 3 + n)) = n
      BY <1>8
    <3>2. \A i \in 1 .. n : SubSeq(buf, 4, 3 + n)[i] = buf[3 + i]
      BY <1>8
    <3>3. SubSeq(buf, 4, 3 + n) = d
      BY <1>0, <2>2, <3>1, <3>2, SeqEqual
    <3> QED
      BY <3>3
  <2> DEFINE h == ParseHeader(t, buf)
  <2>4. h.data_length = n /\ h.final_flag = f /\ h.seqNr = s /\ h.fragNr = g
    <3>1. h = [type |-> t, data_length |-> (b1 % 32) * 128 + b2 \div 2,
               final_flag |-> b2 % 2, seqNr |-> b3 \div 32, fragNr |-> b3 % 32]
      <4>1. h = [type |-> t, data_length |-> (buf[1] % 32) * 128 + buf[2] \div 2,
                 final_flag |-> buf[2] % 2, seqNr |-> buf[3] \div 32,
                 fragNr |-> buf[3] % 32]
        BY ParseDataHeader
      <4> QED
        BY <2>1, <4>1
    <3> QED
      BY <1>1, <3>1
  <2> HIDE DEF h
  <2>5. ParseOf(buf, u) =
          [type |-> t, data_length |-> h.data_length,
           final_flag |-> h.final_flag, seqNr |-> h.seqNr, fragNr |-> h.fragNr,
           data |-> SubSeq(buf, 4, 4 + h.data_length - 1)]
    <3>1. h = ParseHeader(t, buf) /\ buf[1] \div 32 = 7
      BY <1>1, <2>1 DEF h
    <3>2. Len(buf) >= 3 + h.data_length /\ h.data_length \in Nat
      BY <1>8, <2>4
    <3> QED
      BY <2>1, <3>1, <3>2, ParseData DEF h
  <2> QED
    <3>1. ParseOf(buf, u) = [type |-> t, data_length |-> n, final_flag |-> f,
                              seqNr |-> s, fragNr |-> g, data |-> d]
      BY <2>3, <2>4, <2>5
    <3> QED
      BY <3>1 DEF IsFragment
<1>9. Survives(m, u)
  BY <1>2, <1>4, <1>7, <1>8 DEF Survives
<1> QED
  BY <1>4, <1>9

(* The types of control messages.                                          *)
LEMMA ControlTypes ==
  /\ \A m \in UlControl : \/ m.type = ul_req \/ m.type = keepalive
                          \/ m.type = control_ack \/ m.type = mcs_change_req
  /\ \A m \in DlControl : \/ m.type = dl_mcs_info \/ m.type = ul_mcs_info
                          \/ m.type = timing_advance \/ m.type = session_end
  /\ \A m \in BroadcastControl : m.type = associate_response
BY DEF UlControl, DlControl, BroadcastControl

(* Every control message comes through: what the parse functions read from *)
(* what the create functions wrote is the message again, field for field,  *)
(* whatever follows it (mac_msg_generate, mac_msg_parse).                  *)
THEOREM ControlMessagesSurvive ==
  /\ \A m \in UlControl : Survives(m, 8)
  /\ \A m \in DlControl \cup BroadcastControl : Survives(m, 0)
BY ControlTypes, UlReqSurvives, KeepaliveSurvives, ControlAckSurvives,
   McsChangeReqSurvives, DlMcsInfoSurvives, UlMcsInfoSurvives,
   TimingAdvanceSurvives, SessionEndSurvives, AssociateResponseSurvives

(* Messages to one have at most 2 bytes, and messages to all have 3.       *)
LEMMA ControlLengths ==
  /\ \A m \in UlControl \cup DlControl :
       MsgLen(m) \in 1 .. 2 /\ ~IsData(m.type) /\ m.type \in MsgTypes
  /\ \A m \in BroadcastControl :
       MsgLen(m) = 3 /\ ~IsData(m.type) /\ m.type \in MsgTypes
<1> USE DEF associate_response, dl_mcs_info, ul_mcs_info, timing_advance,
     session_end, ul_req, channel_quality, keepalive, control_ack,
     mcs_change_req, dl_data, ul_data
<1>1. /\ \A t \in {9, 11, 12, 13, 2, 3, 4, 5} :
           HdrLen(t) \in 1 .. 2 /\ ~IsData(t) /\ t \in MsgTypes
      /\ HdrLen(1) = 3 /\ ~IsData(1) /\ 1 \in MsgTypes
  BY DEF HdrLen, IsData, MsgTypes
<1>2. ASSUME NEW m, NEW t, m.type = t, ~IsData(t), HdrLen(t) \in 1 .. 3
      PROVE  MsgLen(m) = HdrLen(t)
  BY <1>2 DEF MsgLen, PayloadLen
<1>3. /\ \A m \in UlControl \cup DlControl : m.type \in {9, 11, 12, 13, 2, 3, 4, 5}
      /\ \A m \in BroadcastControl : m.type = 1
  BY ControlTypes
<1> QED
  BY <1>1, <1>2, <1>3

(* A fragment of n bytes, as the sender creates it.                        *)
LEMMA CreatedSurvives ==
  ASSUME NEW u \in {0, 8}, NEW f \in 0 .. 1, NEW d \in Seq(Byte),
         Len(d) <= MaxLen, NEW k \in Nat
  PROVE  LET m == DataMsg(DataOf(u), f, k, k, d)
         IN  /\ Survives(m, u) /\ MsgLen(m) = 3 + Len(d)
             /\ m.type = DataOf(u)
<1> DEFINE m == DataMsg(DataOf(u), f, k, k, d)
<1>1. k % 8 \in 0 .. 7 /\ k % 32 \in Nat /\ k % 32 <= 31 /\ f % 2 = f
  OBVIOUS
<1>2. Len(d) % 4096 = Len(d) /\ Len(d) \in Nat
  BY DEF MaxLen
<1>3. IsFragment(m, DataOf(u), Len(d), f, k % 8, k % 32, d)
  BY <1>1, <1>2 DEF IsFragment, DataMsg
<1>4. m.type = DataOf(u)
  BY DEF DataMsg
<1>5. DataOf(u) \in {dl_data, ul_data}
  BY DEF DataOf
<1> HIDE DEF m
<1>6. Survives(m, u) /\ MsgLen(m) = 3 + Len(d)
  BY <1>1, <1>2, <1>3, <1>5, FragmentSurvives
<1> QED
  BY <1>4, <1>6 DEF m

---------------------------------------------------------------------------
(* The bytes of a channel. *)

(* What the assumptions say of the size of a slot.                         *)
LEMMA UsableFacts ==
  /\ Usable \in Nat /\ Usable >= 1 /\ Usable <= MaxLen
  /\ SLOT_BYTES \in Nat /\ Usable < SLOT_BYTES
BY ChannelAssumption DEF ChannelAssumption, Usable, MaxLen

(* What a channel carries.                                                 *)
Messages ==
  UlControl \cup DlControl \cup BroadcastControl
    \cup [type : {dl_data, ul_data}, data_length : Nat, final_flag : Nat,
          seqNr : Nat, fragNr : Nat, data : Seq(Byte)]

(* A fragment that the sender creates is a message.                        *)
LEMMA FragmentIsMessage ==
  ASSUME NEW u \in {0, 8}, NEW f \in 0 .. 1, NEW d \in Seq(Byte), NEW k \in Nat
  PROVE  DataMsg(DataOf(u), f, k, k, d) \in Messages
<1>1. /\ Len(d) % 4096 \in Nat /\ f % 2 \in Nat /\ k % 8 \in Nat /\ k % 32 \in Nat
      /\ DataOf(u) \in {dl_data, ul_data}
  BY DEF DataOf
<1>2. DataMsg(DataOf(u), f, k, k, d) \in
        [type : {dl_data, ul_data}, data_length : Nat, final_flag : Nat,
         seqNr : Nat, fragNr : Nat, data : Seq(Byte)]
  BY <1>1 DEF DataMsg
<1> QED
  BY <1>2, Zenon DEF Messages

(* The messages ms are in the bytes d one behind the other, the k-th one   *)
(* from byte at[k] on, and a byte 0 is behind the last one.                *)
End(at, ms) == at[Len(ms) + 1]

Layout(at, ms, d) ==
  /\ at \in [1 .. Len(ms) + 1 -> Nat] /\ at[1] = 0
  /\ End(at, ms) <= Usable
  /\ \A k \in 1 .. Len(ms) :
       /\ at[k + 1] = at[k] + MsgLen(ms[k])
       /\ at[k + 1] <= End(at, ms)
       /\ \A i \in 1 .. MsgLen(ms[k]) : d[at[k] + i] = Generate(ms[k])[i]
  /\ End(at, ms) < Usable => d[End(at, ms) + 1] = 0

(* Bytes that change behind the byte 0 change no message.                  *)
LEMMA LayoutKept ==
  ASSUME NEW ms \in Seq(Messages), NEW at, NEW d, Layout(at, ms, d), NEW e,
         \A i \in 1 .. Usable : i <= End(at, ms) + 1 => e[i] = d[i],
         \A k \in 1 .. Len(ms) : MsgLen(ms[k]) \in Nat
  PROVE  Layout(at, ms, e)
<1>1. End(at, ms) \in Nat /\ Usable \in Nat /\ Len(ms) \in Nat
  BY UsableFacts DEF Layout, End
<1>2. ASSUME NEW k \in 1 .. Len(ms), NEW i \in 1 .. MsgLen(ms[k])
      PROVE  e[at[k] + i] = Generate(ms[k])[i]
  <2>1. at[k] \in Nat /\ at[k + 1] = at[k] + MsgLen(ms[k]) /\ MsgLen(ms[k]) \in Nat
    BY <1>2 DEF Layout
  <2>2. at[k] + i \in 1 .. Usable /\ at[k] + i <= End(at, ms)
    BY <1>1, <1>2, <2>1 DEF Layout
  <2>3. at[k] + i <= End(at, ms) + 1
    BY <1>1, <2>2
  <2> DEFINE j == at[k] + i
  <2>4. j \in 1 .. Usable /\ j <= End(at, ms) + 1
    BY <2>2, <2>3
  <2> HIDE DEF j
  <2>5. e[j] = d[j]
    BY <2>4
  <2> QED
    BY <2>5 DEF Layout, j
<1>3. End(at, ms) < Usable => e[End(at, ms) + 1] = 0
  <2>1. CASE End(at, ms) < Usable
    <3>1. End(at, ms) + 1 \in 1 .. Usable /\ End(at, ms) + 1 <= End(at, ms) + 1
      BY <1>1, <2>1
    <3>2. e[End(at, ms) + 1] = d[End(at, ms) + 1]
      BY <3>1
    <3> QED
      BY <2>1, <3>2 DEF Layout
  <2> QED
    BY <2>1
<1> QED
  BY <1>2, <1>3 DEF Layout

(* The bytes e are the bytes d but for m, which is behind the first w.     *)
Behind(w, m, d, e) ==
  /\ w + MsgLen(m) <= Usable
  /\ \A i \in 1 .. Usable : i <= w => e[i] = d[i]
  /\ \A i \in 1 .. MsgLen(m) : e[w + i] = Generate(m)[i]
  /\ w + MsgLen(m) < Usable => e[w + MsgLen(m) + 1] = 0

(* A message written behind the last one.                                  *)
LEMMA LayoutExtended ==
  ASSUME NEW ms \in Seq(Messages), NEW at, NEW d, Layout(at, ms, d), NEW e,
         NEW m \in Messages, MsgLen(m) \in Nat,
         \A k \in 1 .. Len(ms) : MsgLen(ms[k]) \in Nat,
         Behind(End(at, ms), m, d, e)
  PROVE  \E at2 : /\ Layout(at2, Append(ms, m), e)
                  /\ End(at2, Append(ms, m)) = End(at, ms) + MsgLen(m)
<1> DEFINE n == Len(ms)
           w == End(at, ms)
           ms2 == Append(ms, m)
           at2 == [k \in 1 .. n + 2 |-> IF k = n + 2 THEN w + MsgLen(m) ELSE at[k]]
<1>1. w \in Nat /\ Usable \in Nat /\ n \in Nat
  BY UsableFacts DEF Layout, End
<1>2. /\ ms2 \in Seq(Messages) /\ Len(ms2) = n + 1 /\ ms2[n + 1] = m
      /\ \A k \in 1 .. n : ms2[k] = ms[k]
  OBVIOUS
<1>3. /\ at2[n + 2] = w + MsgLen(m) /\ at2[n + 1] = w
      /\ \A k \in 1 .. n + 1 : at2[k] = at[k]
      /\ at2 \in [1 .. n + 2 -> Nat]
  <2>1. at \in [1 .. n + 1 -> Nat] /\ at[n + 1] = w
    BY DEF Layout, End
  <2> HIDE DEF n, w
  <2> QED
    BY <1>1, <2>1
<1>4. End(at2, ms2) = w + MsgLen(m)
  BY <1>1, <1>2, <1>3 DEF End
<1> HIDE DEF at2, ms2, w
<1>5. ASSUME NEW k \in 1 .. n + 1
      PROVE  /\ at2[k + 1] = at2[k] + MsgLen(ms2[k])
             /\ at2[k + 1] <= End(at2, ms2)
             /\ \A i \in 1 .. MsgLen(ms2[k]) : e[at2[k] + i] = Generate(ms2[k])[i]
  <2>1. CASE k = n + 1
    <3>1. at2[k] = w /\ at2[k + 1] = w + MsgLen(m) /\ ms2[k] = m
      BY <1>1, <1>2, <1>3, <2>1
    <3> QED
      BY <1>1, <1>4, <3>1 DEF w, Behind
  <2>2. CASE k \in 1 .. n
    <3>1. at2[k] = at[k] /\ at2[k + 1] = at[k + 1] /\ ms2[k] = ms[k]
      <4>1. k \in 1 .. n + 1 /\ k + 1 \in 1 .. n + 1
        BY <1>1, <2>2
      <4> HIDE DEF n
      <4> QED
        BY <1>2, <1>3, <2>2, <4>1
    <3>2. /\ at[k + 1] = at[k] + MsgLen(ms[k]) /\ at[k + 1] <= w
          /\ at[k] \in Nat /\ at[k + 1] \in Nat
          /\ \A i \in 1 .. MsgLen(ms[k]) : d[at[k] + i] = Generate(ms[k])[i]
      <4>1. k \in 1 .. Len(ms) /\ k + 1 \in 1 .. Len(ms) + 1 /\ k \in 1 .. Len(ms) + 1
        BY <1>1, <2>2
      <4> HIDE DEF n
      <4>2. at[k] \in Nat /\ at[k + 1] \in Nat
        BY <4>1 DEF Layout
      <4> QED
        BY <4>1, <4>2 DEF Layout, w
    <3>3. ASSUME NEW i \in 1 .. MsgLen(ms[k])
          PROVE  e[at[k] + i] = Generate(ms[k])[i]
      <4>1. MsgLen(ms[k]) \in Nat
        BY <2>2
      <4>2. w <= Usable
        BY DEF Layout, w
      <4>3. at[k] + i \in 1 .. Usable /\ at[k] + i <= w
        BY <1>1, <3>2, <3>3, <4>1, <4>2
      <4> QED
        BY <3>2, <3>3, <4>3 DEF w, Behind
    <3> QED
      BY <1>1, <1>4, <3>1, <3>2, <3>3
  <2> QED
    BY <1>1, <2>1, <2>2
<1>6. Layout(at2, ms2, e)
  <2>1. at2[1] = 0
    BY <1>1, <1>3 DEF Layout
  <2>2. at2 \in [1 .. Len(ms2) + 1 -> Nat]
    BY <1>1, <1>2, <1>3
  <2>3. End(at2, ms2) <= Usable /\ (End(at2, ms2) < Usable => e[End(at2, ms2) + 1] = 0)
    BY <1>1, <1>4 DEF w, Behind
  <2> QED
    BY <1>2, <1>5, <2>1, <2>2, <2>3 DEF Layout
<1> QED
  BY <1>4, <1>6 DEF ms2, w

(* What is behind the first w bytes.                                       *)
LEMMA Cut ==
  ASSUME NEW d \in Seq(Byte), NEW w \in Nat, w <= Len(d)
  PROVE  /\ SubSeq(d, w + 1, Len(d)) \in Seq(Byte)
         /\ Len(SubSeq(d, w + 1, Len(d))) = Len(d) - w
         /\ \A i \in 1 .. Len(d) - w : SubSeq(d, w + 1, Len(d))[i] = d[w + i]
OBVIOUS

(* Behind k - 1 messages the k-th one is parsed, and nothing behind all.   *)
LEMMA NextParsed ==
  ASSUME NEW ms \in Seq(Messages), NEW at, NEW d \in [1 .. Usable -> Byte],
         Layout(at, ms, d), NEW u \in {0, 8}, NEW k \in 1 .. Len(ms),
         Survives(ms[k], u)
  PROVE  /\ at[k] \in Nat /\ at[k] + MsgLen(ms[k]) = at[k + 1]
         /\ at[k + 1] <= Usable
         /\ ParseOf(SubSeq(d, at[k] + 1, Usable), u) = ms[k]
<1> DEFINE w == at[k]
           n == MsgLen(ms[k])
           buf == SubSeq(d, w + 1, Usable)
<1>1. /\ w \in Nat /\ at[k + 1] = w + n /\ at[k + 1] <= End(at, ms)
      /\ End(at, ms) \in Nat /\ End(at, ms) <= Usable
      /\ \A i \in 1 .. n : d[w + i] = Generate(ms[k])[i]
  <2>1. k \in 1 .. Len(ms) + 1 /\ Len(ms) + 1 \in 1 .. Len(ms) + 1
    OBVIOUS
  <2> QED
    BY <2>1 DEF Layout, End
<1>2. n \in Nat /\ Usable \in Nat
  BY UsableFacts DEF Survives
<1>3. w + n <= Usable
  BY <1>1, <1>2
<1>4. d \in Seq(Byte) /\ Len(d) = Usable
  BY <1>2
<1> HIDE DEF w, n
<1>5. /\ buf \in Seq(Byte) /\ Len(buf) = Usable - w
      /\ \A i \in 1 .. Usable - w : buf[i] = d[w + i]
  <2>1. w \in Nat /\ w <= Len(d)
    BY <1>1, <1>2, <1>3, <1>4 DEF w
  <2> QED
    BY <1>4, <2>1, Cut
<1> HIDE DEF buf
<1>6. Len(buf) >= n /\ \A i \in 1 .. n : buf[i] = Generate(ms[k])[i]
  BY <1>1, <1>2, <1>3, <1>5
<1>7. ParseOf(buf, u) = ms[k]
  BY <1>5, <1>6 DEF Survives, n
<1> QED
  BY <1>1, <1>3, <1>7 DEF w, n, buf

(* Nothing is parsed behind the last one.                                  *)
LEMMA NothingBehind ==
  ASSUME NEW ms \in Seq(Messages), NEW at, NEW d \in [1 .. Usable -> Byte],
         Layout(at, ms, d), NEW u \in {0, 8}
  PROVE  ParseOf(SubSeq(d, End(at, ms) + 1, Usable), u) = NULL
<1> DEFINE w == End(at, ms)
           buf == SubSeq(d, w + 1, Usable)
<1>1. w \in Nat /\ w <= Usable /\ Usable \in Nat
  BY UsableFacts DEF Layout, End
<1>2. d \in Seq(Byte) /\ Len(d) = Usable
  BY <1>1
<1>3. buf = <<>> \/ buf[1] \div 32 = 0
  <2>1. CASE w = Usable
    BY <1>1, <1>2, <2>1
  <2>2. CASE w < Usable
    <3>1. buf[1] = d[w + 1]
      BY <1>1, <1>2, <2>2
    <3>2. d[w + 1] = 0
      BY <2>2 DEF Layout
    <3> HIDE DEF buf
    <3> QED
      BY <3>1, <3>2
  <2> QED
    BY <1>1, <2>1, <2>2
<1> HIDE DEF buf
<1>4. Parse(buf, TRUE) = NULL /\ Parse(buf, FALSE) = NULL
  BY <1>3 DEF Parse
<1> QED
  BY <1>4, Zenon DEF ParseOf, buf, w

---------------------------------------------------------------------------
(* The channel. *)

Base == IF ul_flag THEN 8 ELSE 0

ChannelInv ==
  /\ ul_flag \in BOOLEAN /\ crc_ok \in BOOLEAN
  /\ phase \in {"fill", "air", "parse", "end"}
  /\ data \in [1 .. Usable -> Byte]
  /\ IF ul_flag THEN ctrl_queue \in Seq(UlControl)
     ELSE ctrl_queue \in Seq(DlControl) \/ ctrl_queue \in Seq(BroadcastControl)
  /\ added \in Seq(Messages)
  /\ \A k \in 1 .. Len(added) : Survives(added[k], Base)
  /\ parsed \in Seq(Messages) /\ Len(parsed) <= Len(added)
  /\ \A k \in 1 .. Len(parsed) : parsed[k] = added[k]
  /\ phase \in {"fill", "air"} => parsed = <<>>
  /\ phase = "end" => /\ writepos \in {0, SLOT_BYTES}
                      /\ crc_ok => Len(parsed) = Len(added)
  /\ \E at : /\ Layout(at, added, data)
             /\ phase \in {"fill", "air"} => writepos = End(at, added)
             /\ phase = "parse" => writepos = at[Len(parsed) + 1]

(* A queue of at most n messages.                                          *)
LEMMA WaitingIsSeq ==
  ASSUME NEW S, NEW n \in Nat, NEW T, S \subseteq T, NEW q \in SeqOf(S, n)
  PROVE  q \in Seq(T) /\ Len(q) <= n
<1>1. PICK m \in 0 .. n : q \in [1 .. m -> S]
  BY DEF SeqOf
<1>2. q \in Seq(S) /\ Len(q) = m
  BY <1>1
<1>3. q \in Seq(T)
  BY <1>2
<1> QED
  BY <1>2, <1>3

(* The invariant holds of a new channel (lchan_create).                    *)
LEMMA ChannelInitial == ChannelInit => ChannelInv
<1> SUFFICES ASSUME ChannelInit
             PROVE  ChannelInv
  OBVIOUS
<1> DEFINE at == [k \in 1 .. 1 |-> 0]
<1>1. /\ Usable \in Nat /\ Usable >= 1 /\ MaxCtrl \in Nat
      /\ UlMessages \subseteq UlControl /\ DlMessages \subseteq DlControl
      /\ BroadcastMessages \subseteq BroadcastControl
  BY UsableFacts, ChannelAssumption DEF ChannelAssumption
<1>2. /\ ul_flag \in BOOLEAN /\ crc_ok = FALSE /\ phase = "fill" /\ writepos = 0
      /\ added = <<>> /\ parsed = <<>> /\ data = [i \in 1 .. Usable |-> 0]
  BY DEF ChannelInit
<1>3. IF ul_flag THEN ctrl_queue \in Seq(UlControl)
      ELSE ctrl_queue \in Seq(DlControl) \/ ctrl_queue \in Seq(BroadcastControl)
  <2>1. \/ ul_flag /\ ctrl_queue \in SeqOf(UlMessages, MaxCtrl)
        \/ ~ul_flag /\ ctrl_queue \in SeqOf(DlMessages, MaxCtrl)
        \/ ~ul_flag /\ ctrl_queue \in SeqOf(BroadcastMessages, MaxCtrl)
    BY DEF ChannelInit
  <2>2. CASE ul_flag /\ ctrl_queue \in SeqOf(UlMessages, MaxCtrl)
    <3>1. ctrl_queue \in Seq(UlControl)
      <4>1. ctrl_queue \in SeqOf(UlMessages, MaxCtrl) /\ MaxCtrl \in Nat
            /\ UlMessages \subseteq UlControl
        BY <1>1, <2>2
      <4> QED
        BY <4>1, WaitingIsSeq
    <3> QED
      BY <2>2, <3>1
  <2>3. CASE ~ul_flag /\ ctrl_queue \in SeqOf(DlMessages, MaxCtrl)
    <3>1. ctrl_queue \in Seq(DlControl)
      <4>1. ctrl_queue \in SeqOf(DlMessages, MaxCtrl) /\ MaxCtrl \in Nat
            /\ DlMessages \subseteq DlControl
        BY <1>1, <2>3
      <4> QED
        BY <4>1, WaitingIsSeq
    <3> QED
      BY <2>3, <3>1
  <2>4. CASE ~ul_flag /\ ctrl_queue \in SeqOf(BroadcastMessages, MaxCtrl)
    <3>1. ctrl_queue \in Seq(BroadcastControl)
      <4>1. ctrl_queue \in SeqOf(BroadcastMessages, MaxCtrl) /\ MaxCtrl \in Nat
            /\ BroadcastMessages \subseteq BroadcastControl
        BY <1>1, <2>4
      <4> QED
        BY <4>1, WaitingIsSeq
    <3> QED
      BY <2>4, <3>1
  <2> QED
    BY <2>1, <2>2, <2>3, <2>4
<1>4. data \in [1 .. Usable -> Byte]
  BY <1>2 DEF Byte
<1>5. Layout(at, <<>>, data) /\ End(at, <<>>) = 0
  <2>1. data[1] = 0
    BY <1>1, <1>2
  <2> QED
    BY <1>1, <2>1 DEF Layout, End
<1>6. /\ <<>> \in Seq(Messages) /\ Len(<<>>) = 0
      /\ \A k \in 1 .. Len(<<>>) : FALSE
  OBVIOUS
<1> HIDE DEF at
<1>7. /\ added \in Seq(Messages) /\ parsed \in Seq(Messages)
      /\ Len(parsed) <= Len(added)
      /\ \A k \in 1 .. Len(added) : Survives(added[k], Base)
      /\ \A k \in 1 .. Len(parsed) : parsed[k] = added[k]
  BY <1>2, <1>6
<1>8. /\ Layout(at, added, data) /\ writepos = End(at, added)
      /\ phase # "parse" /\ phase # "end"
  BY <1>2, <1>5
<1> QED
  BY <1>2, <1>3, <1>4, <1>7, <1>8 DEF ChannelInv

(* The parts of the invariant but for ctrl_queue and the bytes are kept    *)
(* where nothing is parsed.                                                *)
QueueOK ==
  IF ul_flag THEN ctrl_queue \in Seq(UlControl)
  ELSE ctrl_queue \in Seq(DlControl) \/ ctrl_queue \in Seq(BroadcastControl)

(* lchan_add_message keeps the invariant when the message fits.            *)
LEMMA Added ==
  ASSUME ChannelInv, phase = "fill", QueueOK', NEW m \in Messages,
         Survives(m, Base), AddMessage(m), UNCHANGED <<ul_flag, phase, crc_ok, parsed>>
  PROVE  ChannelInv'
<1>1. PICK at : Layout(at, added, data) /\ writepos = End(at, added)
  BY DEF ChannelInv
<1> DEFINE g == Generate(m) \o (IF MsgLen(m) < Unused THEN <<0>> ELSE <<>>)
           w == writepos
           n == MsgLen(m)
<1>2. /\ w \in Nat /\ w <= Usable /\ Usable \in Nat /\ n \in Nat
      /\ Generate(m) \in Seq(Byte) /\ Len(Generate(m)) = n
      /\ n <= Usable - w /\ Unused = Usable - w
      /\ data \in [1 .. Usable -> Byte]
  <2>1. w \in Nat /\ w <= Usable
    BY <1>1 DEF Layout, End, ChannelInv
  <2>2. n \in Nat /\ Generate(m) \in Seq(Byte) /\ Len(Generate(m)) = n
    BY DEF Survives
  <2>3. n <= Usable - w /\ Unused = Usable - w
    BY DEF AddMessage, Unused
  <2> QED
    BY <2>1, <2>2, <2>3, UsableFacts DEF ChannelInv
<1>3. /\ writepos' = w + n /\ added' = Append(added, m) /\ data' = Written(g)
  BY DEF AddMessage
<1>4. /\ g \in Seq(Byte) /\ Len(g) >= n /\ w + Len(g) <= Usable
      /\ \A i \in 1 .. n : g[i] = Generate(m)[i]
      /\ n < Usable - w => Len(g) = n + 1 /\ g[n + 1] = 0
  <2>1. CASE n < Usable - w
    <3>1. g = Generate(m) \o <<0>> /\ <<0>> \in Seq(Byte) /\ Len(<<0>>) = 1
          /\ <<0>>[1] = 0
      BY <1>2, <2>1 DEF Byte
    <3> HIDE DEF g
    <3> QED
      BY <1>2, <2>1, <3>1, Concatenated
  <2>2. CASE ~(n < Usable - w)
    <3>1. g = Generate(m)
      BY <1>2, <2>2
    <3> QED
      BY <1>2, <2>2, <3>1
  <2> QED
    BY <2>1, <2>2
<1> HIDE DEF g
<1>5. /\ data' \in [1 .. Usable -> Byte]
      /\ \A i \in 1 .. Usable : i <= w => data'[i] = data[i]
      /\ \A i \in 1 .. Len(g) : data'[w + i] = g[i]
  <2>1. data' = [i \in 1 .. Usable |-> IF i \in w + 1 .. w + Len(g)
                                       THEN g[i - w] ELSE data[i]]
    BY <1>3 DEF Written
  <2>2. ASSUME NEW i \in 1 .. Usable
        PROVE  /\ data'[i] = IF i \in w + 1 .. w + Len(g) THEN g[i - w] ELSE data[i]
               /\ (IF i \in w + 1 .. w + Len(g) THEN g[i - w] ELSE data[i]) \in Byte
    <3>1. i \in w + 1 .. w + Len(g) => i - w \in 1 .. Len(g)
      BY <1>2, <1>4
    <3> QED
      BY <1>2, <1>4, <2>1, <3>1
  <2>3. ASSUME NEW i \in 1 .. Len(g)
        PROVE  data'[w + i] = g[i]
    <3>1. w + i \in 1 .. Usable /\ w + i \in w + 1 .. w + Len(g) /\ (w + i) - w = i
      BY <1>2, <1>4
    <3> QED
      BY <2>1, <3>1
  <2>4. ASSUME NEW i \in 1 .. Usable, i <= w
        PROVE  data'[i] = data[i]
    <3>1. i \notin w + 1 .. w + Len(g)
      BY <1>2, <2>4
    <3> QED
      BY <2>1, <3>1
  <2> QED
    BY <2>1, <2>2, <2>3, <2>4
<1>6. /\ \A i \in 1 .. n : data'[w + i] = Generate(m)[i]
      /\ w + n < Usable => data'[w + n + 1] = 0
  <2>1. ASSUME NEW i \in 1 .. n
        PROVE  data'[w + i] = Generate(m)[i]
    <3>1. i \in 1 .. Len(g)
      BY <1>2, <1>4
    <3> QED
      BY <1>4, <1>5, <3>1
  <2>2. ASSUME w + n < Usable
        PROVE  data'[w + n + 1] = 0
    <3>1. Len(g) = n + 1 /\ g[n + 1] = 0 /\ n + 1 \in 1 .. Len(g)
      BY <1>2, <1>4, <2>2
    <3>2. data'[w + (n + 1)] = 0
      BY <1>5, <3>1
    <3> QED
      BY <1>2, <3>2
  <2> QED
    BY <2>1, <2>2
<1> HIDE DEF w, n
<1>7. /\ added \in Seq(Messages) /\ added' \in Seq(Messages)
      /\ \A k \in 1 .. Len(added) : MsgLen(added[k]) \in Nat
      /\ \A k \in 1 .. Len(added') : Survives(added'[k], Base')
  <2>1. added \in Seq(Messages) /\ \A k \in 1 .. Len(added) : Survives(added[k], Base)
    BY DEF ChannelInv
  <2>2. Base' = Base
    BY DEF Base
  <2>3. /\ added' \in Seq(Messages) /\ Len(added') = Len(added) + 1
        /\ added'[Len(added) + 1] = m
        /\ \A k \in 1 .. Len(added) : added'[k] = added[k]
    BY <1>3, <2>1
  <2>4. ASSUME NEW k \in 1 .. Len(added')
        PROVE  Survives(added'[k], Base)
    <3>1. k \in 1 .. Len(added) \/ k = Len(added) + 1
      BY <2>1, <2>3
    <3> QED
      BY <2>1, <2>3, <3>1
  <2> QED
    BY <2>1, <2>2, <2>3, <2>4 DEF Survives
<1>8. \E at2 : Layout(at2, added', data') /\ writepos' = End(at2, added')
  <2>1. MsgLen(m) \in Nat
    BY <1>2 DEF n
  <2>2. Behind(End(at, added), m, data, data')
    <3>1. w + n <= Usable
      BY <1>2 DEF w, n
    <3> QED
      BY <1>1, <1>5, <1>6, <3>1 DEF n, w, Behind
  <2>3. PICK at2 : /\ Layout(at2, Append(added, m), data')
                   /\ End(at2, Append(added, m)) = End(at, added) + MsgLen(m)
    BY <1>1, <1>7, <2>1, <2>2, LayoutExtended
  <2> QED
    BY <1>1, <1>3, <2>3 DEF n, w
<1>9. /\ ul_flag' \in BOOLEAN /\ crc_ok' \in BOOLEAN /\ phase' = "fill"
      /\ parsed' = <<>> /\ parsed' \in Seq(Messages) /\ Len(parsed') = 0
  BY DEF ChannelInv
<1>10. /\ Len(parsed') <= Len(added')
       /\ \A k \in 1 .. Len(parsed') : parsed'[k] = added'[k]
  BY <1>7, <1>9
<1> QED
  BY <1>5, <1>7, <1>8, <1>9, <1>10 DEF ChannelInv, QueueOK

(* The constants that are bytes.                                           *)
LEMMA ByteConstants == FragmentByte \in Byte /\ RandomBytes \subseteq Byte
BY ChannelAssumption DEF ChannelAssumption

(* While it is filled, writepos is in the channel.                         *)
LEMMA LayoutEnd ==
  ASSUME ChannelInv, phase = "fill", NEW at, Layout(at, added, data),
         writepos = End(at, added)
  PROVE  writepos \in Nat /\ writepos <= Usable
<1>1. Len(added) + 1 \in 1 .. Len(added) + 1
  <2>1. added \in Seq(Messages)
    BY DEF ChannelInv
  <2> QED
    BY <2>1
<1> QED
  BY <1>1 DEF Layout, End

(* What a queue's first message is, and what is left of it.                *)
LEMMA QueueTail ==
  ASSUME QueueOK, ctrl_queue # <<>>, ctrl_queue' = Tail(ctrl_queue), ul_flag' = ul_flag,
         ul_flag \in BOOLEAN
  PROVE  /\ QueueOK'
         /\ IF ul_flag THEN Head(ctrl_queue) \in UlControl
            ELSE \/ ctrl_queue \in Seq(DlControl) /\ Head(ctrl_queue) \in DlControl
                 \/ /\ ctrl_queue \in Seq(BroadcastControl)
                    /\ Head(ctrl_queue) \in BroadcastControl
<1>1. CASE ul_flag
  <2>1. ctrl_queue \in Seq(UlControl)
    BY <1>1 DEF QueueOK
  <2> QED
    BY <1>1, <2>1 DEF QueueOK
<1>2. CASE ~ul_flag /\ ctrl_queue \in Seq(DlControl)
  <2>1. Tail(ctrl_queue) \in Seq(DlControl) /\ Head(ctrl_queue) \in DlControl
    BY <1>2
  <2> QED
    BY <1>2, <2>1 DEF QueueOK
<1>3. CASE ~ul_flag /\ ctrl_queue \in Seq(BroadcastControl)
  <2>1. Tail(ctrl_queue) \in Seq(BroadcastControl) /\ Head(ctrl_queue) \in BroadcastControl
    BY <1>3
  <2> QED
    BY <1>3, <2>1 DEF QueueOK
<1> QED
  BY <1>1, <1>2, <1>3 DEF QueueOK

(* One iteration of lchan_add_all_msgs keeps the invariant.                *)
LEMMA AddCtrlKeeps == ASSUME ChannelInv, AddCtrl PROVE ChannelInv'
<1> DEFINE m == Head(ctrl_queue)
<1>1. /\ phase = "fill" /\ ctrl_queue # <<>> /\ ctrl_queue' = Tail(ctrl_queue)
      /\ UNCHANGED <<ul_flag, phase, crc_ok, parsed>>
      /\ AddMessage(m) \/ UNCHANGED <<data, writepos, added>>
  BY DEF AddCtrl
<1>2. QueueOK /\ ul_flag \in BOOLEAN
  BY DEF ChannelInv, QueueOK
<1>3. QueueOK'
  BY <1>1, <1>2, QueueTail
<1>4. m \in Messages /\ Survives(m, Base)
  <2>1. \/ ul_flag /\ m \in UlControl
        \/ ~ul_flag /\ m \in DlControl \cup BroadcastControl
    BY <1>1, <1>2, QueueTail
  <2>2. CASE ul_flag /\ m \in UlControl
    BY <2>2, ControlMessagesSurvive DEF Base, Messages
  <2>3. CASE ~ul_flag /\ m \in DlControl \cup BroadcastControl
    BY <2>3, ControlMessagesSurvive DEF Base, Messages
  <2> QED
    BY <2>1, <2>2, <2>3
<1>5. CASE AddMessage(m)
  <2> HIDE DEF m
  <2> QED
    BY <1>1, <1>3, <1>4, <1>5, Added
<1>6. CASE UNCHANGED <<data, writepos, added>>
  <2>1. Base' = Base
    BY <1>1 DEF Base
  <2> QED
    BY <1>1, <1>3, <1>6, <2>1 DEF ChannelInv, QueueOK
<1> QED
  BY <1>1, <1>5, <1>6

(* So does a fragment that is cut to the bytes that are left.              *)
LEMMA AddFragmentKeeps == ASSUME ChannelInv, AddFragment PROVE ChannelInv'
<1>1. /\ phase = "fill" /\ UNCHANGED <<ul_flag, ctrl_queue, crc_ok, phase, parsed>>
      /\ ul_flag \in BOOLEAN
  BY DEF AddFragment, ChannelInv
<1>2. QueueOK'
  BY <1>1 DEF ChannelInv, QueueOK
<1>3. DataType = DataOf(Base) /\ Base \in {0, 8}
  BY <1>1 DEF DataType, DataOf, Base
<1>4. HdrLen(DataType) = 3
  <2>1. DataType \in {dl_data, ul_data}
    BY DEF DataType
  <2> QED
    BY <2>1, DataTypes
<1>5. Unused \in Int /\ Unused <= MaxLen
  <2>1. PICK at : Layout(at, added, data) /\ writepos = End(at, added)
    BY <1>1 DEF ChannelInv
  <2>2. writepos \in Nat
    BY <1>1, <2>1, LayoutEnd
  <2> QED
    BY <2>2, UsableFacts DEF Unused, MaxLen
<1>6. PICK n \in 0 .. Unused - HdrLen(DataType), final \in 0 .. 1 :
        AddMessage(DataMsg(DataType, final, n, n, [i \in 1 .. n |-> FragmentByte]))
  BY Zenon DEF AddFragment
<1> DEFINE d == [i \in 1 .. n |-> FragmentByte]
           m == DataMsg(DataType, final, n, n, d)
<1>7. n \in Nat /\ n <= Unused - 3
  BY <1>4, <1>5
<1>8. d \in Seq(Byte) /\ Len(d) = n
  <2>1. FragmentByte \in Byte
    BY ByteConstants
  <2> QED
    BY <1>7, <2>1
<1>9. Len(d) <= MaxLen
  BY <1>5, <1>7, <1>8 DEF MaxLen
<1> HIDE DEF d
<1>10. m \in Messages /\ Survives(m, Base)
  BY <1>3, <1>7, <1>8, <1>9, FragmentIsMessage, CreatedSurvives
<1>11. AddMessage(m)
  BY <1>6 DEF d
<1> HIDE DEF m
<1> QED
  BY <1>1, <1>2, <1>10, <1>11, Added

(* lchan_calc_crc fills from behind the byte 0, and keeps it.              *)
LEMMA CalcCrcKeeps == ASSUME ChannelInv, CalcCrc PROVE ChannelInv'
<1>1. /\ phase = "fill" /\ phase' = "air" /\ crc_ok' = TRUE
      /\ UNCHANGED <<ul_flag, ctrl_queue, writepos, added, parsed>>
  BY DEF CalcCrc
<1>2. PICK r \in RandomBytes :
        data' = [i \in 1 .. Usable |-> IF i - 1 >= FillFrom THEN r ELSE data[i]]
  BY Zenon DEF CalcCrc
<1>3. r \in Byte
  BY ByteConstants
<1>4. PICK at : Layout(at, added, data) /\ writepos = End(at, added)
  BY <1>1 DEF ChannelInv
<1>5. writepos \in Nat /\ Usable \in Nat /\ data \in [1 .. Usable -> Byte]
  BY <1>1, <1>4, LayoutEnd, UsableFacts DEF ChannelInv
<1>6. data' \in [1 .. Usable -> Byte]
  BY <1>2, <1>3, <1>5
<1>7. \A i \in 1 .. Usable : i <= End(at, added) + 1 => data'[i] = data[i]
  BY <1>2, <1>4, <1>5 DEF FillFrom
<1>8. added \in Seq(Messages) /\ \A k \in 1 .. Len(added) : MsgLen(added[k]) \in Nat
  BY DEF ChannelInv, Survives
<1>9. Layout(at, added', data') /\ writepos' = End(at, added')
  BY <1>1, <1>4, <1>7, <1>8, LayoutKept
<1>10. Base' = Base
  BY <1>1 DEF Base
<1> QED
  BY <1>1, <1>6, <1>9, <1>10 DEF ChannelInv

(* A slot that is received, damaged or not, keeps it.                      *)
LEMMA ReceiveKeeps == ASSUME ChannelInv, Receive PROVE ChannelInv'
<1>1. /\ phase = "air" /\ phase' \in {"parse", "end"} /\ crc_ok' \in BOOLEAN
      /\ writepos' = 0 /\ UNCHANGED <<ul_flag, ctrl_queue, data, added, parsed>>
      /\ phase' = "end" => crc_ok' = FALSE
  BY DEF Receive
<1>2. PICK at : Layout(at, added, data)
  BY DEF ChannelInv
<1>3. parsed' = <<>> /\ Len(parsed') = 0 /\ at[1] = 0
  BY <1>1, <1>2 DEF ChannelInv, Layout
<1>4. Layout(at, added', data') /\ writepos' = at[Len(parsed') + 1]
  BY <1>1, <1>2, <1>3
<1>5. Base' = Base
  BY <1>1 DEF Base
<1> QED
  BY <1>1, <1>4, <1>5 DEF ChannelInv

(* lchan_parse_next_msg keeps it.                                          *)
LEMMA ParseNextKeeps == ASSUME ChannelInv, ParseNext PROVE ChannelInv'
<1> DEFINE msg == Parse(SubSeq(data, writepos + 1, Usable), ul_flag)
           n == Len(parsed)
<1>1. /\ phase = "parse" /\ UNCHANGED <<ul_flag, ctrl_queue, data, crc_ok, added>>
      /\ \/ /\ msg # NULL
            /\ parsed' = Append(parsed, msg) /\ writepos' = writepos + MsgLen(msg)
            /\ phase' = phase
         \/ msg = NULL /\ writepos' = SLOT_BYTES /\ phase' = "end" /\ parsed' = parsed
  <2>1. ~(Len(parsed) > Len(added))
    BY DEF ChannelInv
  <2> QED
    BY <2>1 DEF ParseNext, NextPos
<1>2. PICK at : Layout(at, added, data) /\ writepos = at[n + 1]
  BY <1>1 DEF ChannelInv
<1>3. /\ added \in Seq(Messages) /\ parsed \in Seq(Messages) /\ n <= Len(added)
      /\ \A k \in 1 .. Len(added) : Survives(added[k], Base)
      /\ \A k \in 1 .. n : parsed[k] = added[k]
      /\ data \in [1 .. Usable -> Byte] /\ ul_flag \in BOOLEAN
  BY DEF ChannelInv
<1>4. Base \in {0, 8} /\ Base' = Base
  BY <1>1 DEF Base
<1>5. msg = ParseOf(SubSeq(data, at[n + 1] + 1, Usable), Base)
  BY <1>2, <1>3, ParseFlag DEF Base
<1> HIDE DEF msg
<1>6. CASE n < Len(added)
  <2>1. n + 1 \in 1 .. Len(added) /\ n \in Nat
    BY <1>3, <1>6
  <2>2. /\ at[n + 1] \in Nat /\ at[n + 1] + MsgLen(added[n + 1]) = at[n + 2]
        /\ msg = added[n + 1]
    <3>1. Survives(added[n + 1], Base)
      BY <1>3, <2>1
    <3>2. (n + 1) + 1 = n + 2
      BY <2>1
    <3> HIDE DEF n
    <3> QED
      <4> DEFINE k == n + 1
      <4>1. k \in 1 .. Len(added) /\ Survives(added[k], Base)
        BY <2>1, <3>1
      <4> HIDE DEF k
      <4>2. /\ at[k] \in Nat /\ at[k] + MsgLen(added[k]) = at[k + 1]
            /\ ParseOf(SubSeq(data, at[k] + 1, Usable), Base) = added[k]
        BY <1>2, <1>3, <1>4, <4>1, NextParsed
      <4> QED
        BY <1>5, <3>2, <4>2 DEF k
  <2>3. msg # NULL
    <3>1. msg.type \in MsgTypes
      BY <1>3, <2>1, <2>2 DEF Survives
    <3>2. NULL.type \notin MsgTypes
      BY DEF NULL, MsgTypes, associate_response, dl_mcs_info, ul_mcs_info,
         timing_advance, session_end, ul_req, channel_quality, keepalive,
         control_ack, mcs_change_req, dl_data, ul_data
    <3> QED
      BY <3>1, <3>2
  <2>4. parsed' = Append(parsed, added[n + 1]) /\ writepos' = at[n + 2] /\ phase' = "parse"
    BY <1>1, <1>2, <2>2, <2>3
  <2>5. /\ parsed' \in Seq(Messages) /\ Len(parsed') = n + 1
        /\ parsed'[n + 1] = added[n + 1] /\ \A k \in 1 .. n : parsed'[k] = parsed[k]
    <3>1. added[n + 1] \in Messages
      BY <1>3, <2>1
    <3> QED
      BY <1>3, <2>1, <2>4, <3>1
  <2>6. \A k \in 1 .. Len(parsed') : parsed'[k] = added[k]
    <3>1. \A k \in 1 .. n + 1 : k \in 1 .. n \/ k = n + 1
      BY <2>1
    <3> QED
      BY <1>3, <2>5, <3>1
  <2>7. Layout(at, added', data') /\ writepos' = at[Len(parsed') + 1]
    BY <1>1, <1>2, <2>1, <2>4, <2>5
  <2> QED
    BY <1>1, <1>4, <1>6, <2>1, <2>4, <2>5, <2>6, <2>7 DEF ChannelInv
<1>7. CASE n = Len(added)
  <2>1. msg = NULL
    BY <1>2, <1>3, <1>4, <1>5, <1>7, NothingBehind DEF End
  <2>2. writepos' = SLOT_BYTES /\ phase' = "end" /\ parsed' = parsed
    BY <1>1, <2>1
  <2> QED
    BY <1>1, <1>2, <1>4, <1>7, <2>2 DEF ChannelInv
<1> QED
  BY <1>3, <1>6, <1>7

(* Every step keeps it.                                                    *)
LEMMA ChannelKept == ChannelInv /\ [ChannelNext]_channelVars => ChannelInv'
<1> SUFFICES ASSUME ChannelInv, [ChannelNext]_channelVars
             PROVE  ChannelInv'
  OBVIOUS
<1>1. CASE AddCtrl
  BY <1>1, AddCtrlKeeps
<1>2. CASE AddFragment
  BY <1>2, AddFragmentKeeps
<1>3. CASE CalcCrc
  BY <1>3, CalcCrcKeeps
<1>4. CASE Receive
  BY <1>4, ReceiveKeeps
<1>5. CASE ParseNext
  BY <1>5, ParseNextKeeps
<1>6. CASE UNCHANGED channelVars
  <2>1. Base' = Base
    BY <1>6 DEF Base, channelVars
  <2> QED
    BY <1>6, <2>1 DEF ChannelInv, channelVars
<1> QED
  BY <1>1, <1>2, <1>3, <1>4, <1>5, <1>6 DEF ChannelNext

(* The invariant gives the types,                                          *)
LEMMA ChannelTypes == ChannelInv => ChannelTypeOK
<1> SUFFICES ASSUME ChannelInv PROVE ChannelTypeOK
  OBVIOUS
<1>1. /\ added \in Seq(Messages) /\ parsed \in Seq(Messages)
      /\ Len(parsed) <= Len(added)
      /\ \A k \in 1 .. Len(added) : Survives(added[k], Base)
      /\ \A k \in 1 .. Len(parsed) : parsed[k] = added[k]
  BY DEF ChannelInv
<1>2. /\ \A k \in DOMAIN added : added[k].type \in MsgTypes
      /\ \A k \in DOMAIN parsed : parsed[k].type \in MsgTypes
  <2>1. DOMAIN added = 1 .. Len(added) /\ DOMAIN parsed = 1 .. Len(parsed)
    BY <1>1
  <2>2. \A k \in 1 .. Len(parsed) : k \in 1 .. Len(added)
    BY <1>1
  <2> QED
    BY <1>1, <2>1, <2>2 DEF Survives
<1>3. writepos \in 0 .. Usable \/ (phase = "end" /\ writepos = SLOT_BYTES)
  <2>1. PICK at : /\ Layout(at, added, data)
                  /\ phase \in {"fill", "air"} => writepos = End(at, added)
                  /\ phase = "parse" => writepos = at[Len(parsed) + 1]
    BY DEF ChannelInv
  <2>2. /\ Len(added) + 1 \in 1 .. Len(added) + 1
        /\ Len(parsed) + 1 \in 1 .. Len(added) + 1
    BY <1>1
  <2>3. \A k \in 1 .. Len(added) + 1 : at[k] \in Nat /\ at[k] <= Usable
    <3>1. SUFFICES ASSUME NEW k \in 1 .. Len(added) + 1
                   PROVE  at[k] \in Nat /\ at[k] <= Usable
      OBVIOUS
    <3>2. at[k] \in Nat /\ End(at, added) \in Nat /\ End(at, added) <= Usable
      BY <2>1, <2>2 DEF Layout, End
    <3>3. CASE k = Len(added) + 1
      BY <3>2, <3>3 DEF End
    <3>4. CASE k \in 1 .. Len(added)
      <4>1. MsgLen(added[k]) \in Nat
        BY <1>1, <3>4 DEF Survives
      <4>2. at[k + 1] = at[k] + MsgLen(added[k]) /\ at[k + 1] <= End(at, added)
        BY <2>1, <3>4 DEF Layout
      <4> QED
        BY <3>2, <4>1, <4>2, UsableFacts
    <3> QED
      BY <1>1, <3>3, <3>4
  <2>4. CASE phase \in {"fill", "air"}
    BY <2>1, <2>2, <2>3, <2>4, UsableFacts DEF End
  <2>5. CASE phase = "parse"
    BY <2>1, <2>2, <2>3, <2>5, UsableFacts
  <2>6. CASE phase = "end"
    BY <2>6, UsableFacts DEF ChannelInv
  <2> QED
    BY <2>4, <2>5, <2>6 DEF ChannelInv
<1> QED
  BY <1>2, <1>3 DEF ChannelTypeOK, ChannelInv

(* and that what is parsed is what was added.                              *)
LEMMA ChannelExact == ChannelInv => ParsedIsAdded
<1> SUFFICES ASSUME ChannelInv PROVE ParsedIsAdded
  OBVIOUS
<1>1. /\ added \in Seq(Messages) /\ parsed \in Seq(Messages)
      /\ Len(parsed) <= Len(added)
      /\ \A k \in 1 .. Len(parsed) : parsed[k] = added[k]
      /\ phase = "end" /\ crc_ok => Len(parsed) = Len(added)
  BY DEF ChannelInv
<1>2. IsPrefix(parsed, added)
  <2>1. /\ SubSeq(parsed, 1, Len(parsed)) \in Seq(Messages)
        /\ SubSeq(added, 1, Len(parsed)) \in Seq(Messages)
        /\ Len(SubSeq(parsed, 1, Len(parsed))) = Len(parsed)
        /\ Len(SubSeq(added, 1, Len(parsed))) = Len(parsed)
    BY <1>1
  <2>2. \A i \in 1 .. Len(parsed) :
          SubSeq(parsed, 1, Len(parsed))[i] = SubSeq(added, 1, Len(parsed))[i]
    BY <1>1
  <2>3. SubSeq(parsed, 1, Len(parsed)) = SubSeq(added, 1, Len(parsed))
    BY <2>1, <2>2, SeqEqual
  <2> QED
    BY <1>1, <2>3 DEF IsPrefix
<1>3. ASSUME Len(parsed) = Len(added) PROVE parsed = added
  BY <1>1, <1>3, SeqEqual
<1> QED
  BY <1>1, <1>2, <1>3 DEF ParsedIsAdded

(* A channel's types: its messages are of types that exist, and neither    *)
(* side gets into the bytes of the CRC (lchan_add_message and              *)
(* lchan_parse_next_msg), for every size of slot and every queue.          *)
THEOREM ChannelTypeCorrect == ChannelSpec => []ChannelTypeOK
<1>1. ChannelSpec => []ChannelInv
  BY ChannelInitial, ChannelKept, PTL DEF ChannelSpec
<1> QED
  BY <1>1, ChannelTypes, PTL

(* The receiver takes out of a channel what the sender put in, message for *)
(* message and field for field, and none of the random bytes behind: for   *)
(* every slot size, CRC, queue, fragment and padding (mac_channels.c).     *)
THEOREM ParsedAlwaysAdded == ChannelSpec => []ParsedIsAdded
<1>1. ChannelSpec => []ChannelInv
  BY ChannelInitial, ChannelKept, PTL DEF ChannelSpec
<1> QED
  BY <1>1, ChannelExact, PTL

(* A message to all has 3 bytes and the estimate counts on 2: what saves   *)
(* it is that nothing else goes into its channel before it, and either     *)
(* that the usable bytes are not 2 more than a multiple of 3, or that they *)
(* are enough for a full queue.  The slots that carry it have 60 of them   *)
(* by default (mcs 0).                                                     *)
Room3 == Usable % 3 # 2 \/ 3 * MaxCtrl <= Usable

(* Such a queue still has the room it needs.                               *)
BroadcastFits ==
  ~ul_flag /\ phase = "fill" /\ ctrl_queue # <<>> /\ ctrl_queue \notin Seq(DlControl)
    /\ RoomForCtrl
    => \/ Usable % 3 # 2 /\ writepos % 3 = 0
       \/ writepos + 3 * Len(ctrl_queue) <= Usable

(* It holds of a new channel.                                              *)
LEMMA FitsInitially == ASSUME Room3, ChannelInit PROVE BroadcastFits
<1>1. /\ MaxCtrl \in Nat /\ BroadcastMessages \subseteq BroadcastControl
      /\ DlMessages \subseteq DlControl
  BY ChannelAssumption DEF ChannelAssumption
<1> SUFFICES ASSUME ~ul_flag, ctrl_queue \notin Seq(DlControl)
             PROVE  \/ Usable % 3 # 2 /\ writepos % 3 = 0
                    \/ writepos + 3 * Len(ctrl_queue) <= Usable
  BY DEF BroadcastFits
<1>2. writepos = 0
  BY DEF ChannelInit
<1>3. \/ ctrl_queue \in SeqOf(DlMessages, MaxCtrl)
      \/ ctrl_queue \in SeqOf(BroadcastMessages, MaxCtrl)
  BY DEF ChannelInit
<1>4. ctrl_queue \notin SeqOf(DlMessages, MaxCtrl)
  BY <1>1, WaitingIsSeq
<1>5. Len(ctrl_queue) <= MaxCtrl /\ Len(ctrl_queue) \in Nat
  BY <1>1, <1>3, <1>4, WaitingIsSeq
<1> QED
  BY <1>1, <1>2, <1>5, UsableFacts DEF Room3

(* The message that is taken from the queue fits.                          *)
LEMMA HeadFits ==
  ASSUME ChannelInv, BroadcastFits, AddCtrl
  PROVE  AddMessage(Head(ctrl_queue))
<1> DEFINE m == Head(ctrl_queue)
<1>1. /\ phase = "fill" /\ ctrl_queue # <<>> /\ ctrl_queue' = Tail(ctrl_queue)
      /\ RoomForCtrl /\ ul_flag' = ul_flag
      /\ AddMessage(m) \/ MsgLen(m) > Unused
  BY DEF AddCtrl
<1>2. PICK at : Layout(at, added, data) /\ writepos = End(at, added)
  BY <1>1 DEF ChannelInv
<1>3. writepos \in Nat /\ writepos <= Usable /\ Usable \in Nat /\ Unused = Usable - writepos
  BY <1>1, <1>2, LayoutEnd, UsableFacts DEF Unused
<1>4. Unused > 1
  BY <1>1 DEF RoomForCtrl
<1>5. /\ QueueOK /\ ul_flag \in BOOLEAN
  BY DEF ChannelInv, QueueOK
<1>6. \/ m \in UlControl \cup DlControl
      \/ /\ ~ul_flag /\ ctrl_queue \in Seq(BroadcastControl) /\ m \in BroadcastControl
         /\ ctrl_queue \notin Seq(DlControl)
  <2>1. CASE ctrl_queue \in Seq(DlControl)
    BY <1>1, <2>1
  <2>2. CASE ctrl_queue \notin Seq(DlControl)
    BY <1>1, <1>5, <2>2, QueueTail
  <2> QED
    BY <2>1, <2>2
<1>7. CASE m \in UlControl \cup DlControl
  <2>1. MsgLen(m) \in 1 .. 2
    BY <1>7, ControlLengths
  <2>2. ~(MsgLen(m) > Unused)
    BY <1>3, <1>4, <2>1
  <2> QED
    BY <1>1, <2>2
<1>8. CASE /\ ~ul_flag /\ ctrl_queue \in Seq(BroadcastControl) /\ m \in BroadcastControl
           /\ ctrl_queue \notin Seq(DlControl)
  <2>1. MsgLen(m) = 3
    BY <1>8, ControlLengths
  <2>2. \/ Usable % 3 # 2 /\ writepos % 3 = 0
        \/ writepos + 3 * Len(ctrl_queue) <= Usable
    BY <1>1, <1>8 DEF BroadcastFits
  <2>3. Len(ctrl_queue) \in Nat /\ Len(ctrl_queue) >= 1
    BY <1>1, <1>8
  <2>4. Unused >= 3
    BY <1>3, <1>4, <2>2, <2>3
  <2>5. ~(MsgLen(m) > Unused)
    BY <1>3, <2>1, <2>4
  <2> QED
    BY <1>1, <2>5
<1> QED
  BY <1>6, <1>7, <1>8

(* Every step keeps the room for the messages to all.                      *)
LEMMA FitsKept ==
  ASSUME ChannelInv, BroadcastFits, [ChannelNext]_channelVars
  PROVE  BroadcastFits'
<1>1. CASE AddCtrl
  <2> DEFINE m == Head(ctrl_queue)
  <2>1. /\ phase = "fill" /\ ctrl_queue # <<>> /\ ctrl_queue' = Tail(ctrl_queue)
        /\ RoomForCtrl /\ ul_flag' = ul_flag /\ ul_flag \in BOOLEAN /\ QueueOK
    BY <1>1 DEF AddCtrl, ChannelInv, QueueOK
  <2>2. writepos' = writepos + MsgLen(m)
    BY <1>1, HeadFits DEF AddMessage
  <2>3. PICK at : Layout(at, added, data) /\ writepos = End(at, added)
    BY <2>1 DEF ChannelInv
  <2>4. writepos \in Nat /\ Usable \in Nat
    BY <2>1, <2>3, LayoutEnd, UsableFacts
  <2> SUFFICES ASSUME ~ul_flag, ctrl_queue' # <<>>, ctrl_queue' \notin Seq(DlControl)
               PROVE  \/ Usable % 3 # 2 /\ writepos' % 3 = 0
                      \/ writepos' + 3 * Len(ctrl_queue') <= Usable
    BY <2>1 DEF BroadcastFits, Usable
  <2>5. ctrl_queue \notin Seq(DlControl)
    BY <2>1
  <2>6. ctrl_queue \in Seq(BroadcastControl) /\ m \in BroadcastControl
    BY <2>1, <2>5, QueueTail
  <2>7. MsgLen(m) = 3
    BY <2>6, ControlLengths
  <2>8. /\ Len(ctrl_queue) \in Nat /\ Len(ctrl_queue') = Len(ctrl_queue) - 1
    BY <2>1, <2>6
  <2>9. \/ Usable % 3 # 2 /\ writepos % 3 = 0
        \/ writepos + 3 * Len(ctrl_queue) <= Usable
    BY <2>1, <2>5 DEF BroadcastFits
  <2>10. CASE Usable % 3 # 2 /\ writepos % 3 = 0
    BY <2>2, <2>4, <2>7, <2>10
  <2>11. CASE writepos + 3 * Len(ctrl_queue) <= Usable
    BY <2>2, <2>4, <2>7, <2>8, <2>11
  <2> QED
    BY <2>9, <2>10, <2>11
<1>2. CASE AddFragment
  <2>1. /\ ctrl_queue' = ctrl_queue
        /\ ctrl_queue = <<>> \/ ~RoomForCtrl
        /\ phase = "fill"
        /\ \E m : MsgLen(m) \in Nat /\ writepos' = writepos + MsgLen(m)
    <3>1. ASSUME NEW n \in 0 .. Unused - HdrLen(DataType), NEW final \in 0 .. 1,
                 AddMessage(DataMsg(DataType, final, n, n, [i \in 1 .. n |-> FragmentByte]))
          PROVE  \E m : MsgLen(m) \in Nat /\ writepos' = writepos + MsgLen(m)
      <4> DEFINE m == DataMsg(DataType, final, n, n, [i \in 1 .. n |-> FragmentByte])
      <4>1. m.type = DataType /\ m.data = [i \in 1 .. n |-> FragmentByte]
        BY DEF DataMsg
      <4>2. DataType \in {dl_data, ul_data}
        BY DEF DataType
      <4>3. HdrLen(m.type) = 3 /\ Len(m.data) \in Nat
        BY <4>1, <4>2, DataTypes
      <4>4. MsgLen(m) \in Nat
        BY <4>3 DEF MsgLen, PayloadLen
      <4>5. writepos' = writepos + MsgLen(m)
        BY <3>1 DEF AddMessage
      <4> QED
        BY <4>4, <4>5
    <3> QED
      BY <1>2, <3>1 DEF AddFragment
  <2>2. CASE ctrl_queue = <<>>
    BY <2>1, <2>2 DEF BroadcastFits
  <2>3. CASE ~RoomForCtrl
    <3>1. PICK at : Layout(at, added, data) /\ writepos = End(at, added)
      BY <2>1 DEF ChannelInv
    <3>2. writepos \in Nat /\ Usable \in Nat
      BY <2>1, <3>1, LayoutEnd, UsableFacts
    <3>3. ~RoomForCtrl'
      BY <2>1, <2>3, <3>2 DEF RoomForCtrl, Unused, Usable
    <3> QED
      BY <3>3 DEF BroadcastFits
  <2> QED
    BY <2>1, <2>2, <2>3
<1>3. CASE CalcCrc \/ Receive
  BY <1>3 DEF CalcCrc, Receive, BroadcastFits
<1>4. CASE ParseNext
  BY <1>4 DEF ParseNext, BroadcastFits
<1>5. CASE UNCHANGED channelVars
  BY <1>5 DEF channelVars, BroadcastFits, RoomForCtrl, Unused, Usable
<1> QED
  BY <1>1, <1>2, <1>3, <1>4, <1>5 DEF ChannelNext

(* The estimate of the loop in lchan_add_all_msgs is enough for whatever   *)
(* it takes from the queue.                                                *)
THEOREM MessageNeverLost ==
  ASSUME Room3
  PROVE  ChannelSpec => NoMessageLost
<1>1. ASSUME ChannelInv, BroadcastFits, [ChannelNext]_channelVars
      PROVE  ctrl_queue' # ctrl_queue => added' # added
  <2> SUFFICES ASSUME ctrl_queue' # ctrl_queue
               PROVE  added' # added
    OBVIOUS
  <2>1. AddCtrl
    BY <1>1 DEF ChannelNext, AddFragment, CalcCrc, Receive, ParseNext, channelVars
  <2>2. added' = Append(added, Head(ctrl_queue))
    BY <1>1, <2>1, HeadFits DEF AddMessage
  <2>3. added \in Seq(Messages)
    BY <1>1 DEF ChannelInv
  <2>4. Len(Append(added, Head(ctrl_queue))) # Len(added)
    BY <2>3
  <2> QED
    BY <2>2, <2>4
<1>2. ChannelInit => BroadcastFits
  BY FitsInitially
<1>3. ChannelInv /\ BroadcastFits /\ [ChannelNext]_channelVars => BroadcastFits'
  BY FitsKept
<1>4. ChannelInv /\ BroadcastFits /\ [ChannelNext]_channelVars
        => [ctrl_queue' # ctrl_queue => added' # added]_channelVars
  BY <1>1
<1> QED
  BY ChannelInitial, ChannelKept, <1>2, <1>3, <1>4, PTL DEF ChannelSpec, NoMessageLost
===========================================================================
