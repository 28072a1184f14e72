-------------------------- MODULE TxAlign_proofs --------------------------
(***************************************************************************)
(* For every length of the symbols and every drift below it: the uplink    *)
(* follows the downlink, also in step with the radio (PttTiming), and the  *)
(* pin of the radio follows the samples.                                   *)
(***************************************************************************)
EXTENDS PttTiming, TLAPS

(* Quotient and remainder make up a number, below 0 as well.               *)
LEMMA DivModInt ==
  ASSUME NEW m \in Nat \ {0}, NEW a \in Int
  PROVE  /\ a \div m \in Int
         /\ a % m \in 0 .. m - 1
         /\ a = m * (a \div m) + (a % m)
OBVIOUS

(* A number that is less than once out of range is brought back by one     *)
(* length.                                                                 *)
LEMMA ModOnce ==
  ASSUME NEW m \in Nat \ {0}, NEW a \in Int, -m < a, a < m
  PROVE  a % m = IF a < 0 THEN a + m ELSE a
OBVIOUS

LEMMA ModTwice ==
  ASSUME NEW m \in Nat \ {0}, NEW a \in Int, 0 <= a, a < 2 * m
  PROVE  a % m = IF a < m THEN a ELSE a - m
<1>1. PICK q \in Int, r \in 0 .. m - 1 : r = a % m /\ a = m * q + r
  BY DivModInt
<1>2. q = 0 \/ q = 1
  <2>1. CASE q < 0
    <3>1. m * q <= -m
      BY <2>1
    <3> QED
      BY <3>1, <1>1
  <2>2. CASE q > 1
    <3>1. m * q >= 2 * m
      BY <2>2
    <3> QED
      BY <3>1, <1>1
  <2> QED
    BY <2>1, <2>2
<1> QED
  BY <1>1, <1>2

---------------------------------------------------------------------------
TypeInv ==
  /\ synced \in {"no", "flag", "yes"}
  /\ tx_pc \in {"wait", "first", "second", "check", "record"}
  /\ phy_rx_offset \in 0 .. buflen - 1
  /\ rx_offset \in -(buflen - 1) .. buflen - 1
  /\ mac_advance \in Nat /\ timing_advance \in Nat
  /\ tx_shift \in Int /\ tx_symbol \in Int
  /\ used \in [rx : 0 .. buflen - 1, ta : Nat]
  /\ lag \in Int /\ bias \in Int
  /\ torn \in BOOLEAN /\ slipped \in BOOLEAN

(* The thread that waits for the first sync has not moved anything.        *)
WaitInv ==
  /\ synced = "no" => tx_pc = "wait"
  /\ tx_pc = "wait" => lag = 0 /\ timing_advance = 0

(* Before rx_offset is set all offsets are 0.                              *)
FlagInv ==
  synced # "yes" =>
    phy_rx_offset = 0 /\ mac_advance = 0 /\ rx_offset = 0 /\ used.rx = 0

(* The negated offset that the thread starts with is left behind before    *)
(* the receiver's has moved further than one drift, so that one turn round *)
(* the buffer is always enough.                                            *)
StartInv ==
  tx_pc # "wait" =>
    \/ Known.rx >= 0
    \/ phy_rx_offset = -Known.rx
    \/ /\ Known.rx = -SymLen
       /\ -Drift <= phy_rx_offset - SymLen /\ phy_rx_offset - SymLen <= Drift

IInv == TypeInv /\ WaitInv /\ FlagInv /\ StartInv /\ FollowsDownlink

LEMMA BufLen == SymLen \in Nat \ {0} /\ buflen = 2 * SymLen
BY AlignAssumption DEF buflen, SYMBOLS_PER_BUF

LEMMA InitIInv == AlignInit => IInv
<1> SUFFICES ASSUME AlignInit PROVE IInv
  OBVIOUS
<1>1. TypeInv
  <2>1. 0 \in 0 .. buflen - 1 /\ 0 \in -(buflen - 1) .. buflen - 1
    BY BufLen
  <2>2. used \in [rx : 0 .. buflen - 1, ta : Nat]
    BY <2>1 DEF AlignInit
  <2>3. /\ phy_rx_offset \in 0 .. buflen - 1
        /\ rx_offset \in -(buflen - 1) .. buflen - 1
        /\ mac_advance \in Nat /\ timing_advance \in Nat
    BY <2>1 DEF AlignInit
  <2>4. tx_shift \in Int /\ tx_symbol \in Int /\ lag \in Int /\ bias \in Int
    BY DEF AlignInit
  <2>5. /\ synced = "no" /\ tx_pc = "wait" /\ torn = FALSE /\ slipped = FALSE
    BY DEF AlignInit
  <2> QED
    BY <2>2, <2>3, <2>4, <2>5 DEF TypeInv
<1>2. WaitInv /\ FlagInv
  BY DEF AlignInit, WaitInv, FlagInv
<1>3. StartInv /\ FollowsDownlink
  BY DEF AlignInit, StartInv, FollowsDownlink
<1> QED
  BY <1>1, <1>2, <1>3 DEF IInv

LEMMA InitialSyncIInv == IInv /\ InitialSync => IInv'
<1> SUFFICES ASSUME IInv, InitialSync PROVE IInv'
  OBVIOUS
<1> USE DEF IInv, InitialSync, threadVars
<1>1. TypeInv'
  BY AlignAssumption DEF TypeInv
<1>2. WaitInv' /\ FlagInv'
  BY DEF TypeInv, WaitInv, FlagInv
<1>3. StartInv' /\ FollowsDownlink'
  BY DEF TypeInv, WaitInv, StartInv, FollowsDownlink
<1> QED
  BY <1>1, <1>2, <1>3

LEMMA SetOffsetIInv ==
  ASSUME NEW r \in 0 .. buflen - 1, IInv, SetOffset(r)
  PROVE  IInv'
<1> USE DEF IInv, SetOffset, threadVars
<1>0. SymLen \in Nat \ {0} /\ buflen = 2 * SymLen
  BY BufLen
<1>1. Nearest(r) \in Int
  BY <1>0 DEF Nearest
<1>2. TypeInv'
  BY <1>0, <1>1 DEF TypeInv
<1>3. WaitInv' /\ FlagInv'
  BY DEF TypeInv, WaitInv, FlagInv
<1>4. Known = Known' /\ (tx_pc # "wait" => Known.rx = 0)
  BY DEF Known, FlagInv, TypeInv
<1>5. StartInv'
  BY <1>4, <1>0 DEF StartInv, TypeInv
<1>6. FollowsDownlink'
  <2> SUFFICES ASSUME tx_pc' # "wait", ~torn', ~slipped'
               PROVE  lag' + Known'.ta + Nearest(phy_rx_offset' - Known'.rx) = bias'
    BY DEF FollowsDownlink
  <2>1. lag + Known.ta + Nearest(phy_rx_offset - Known.rx) = bias
    BY DEF FollowsDownlink
  <2>2. phy_rx_offset - Known.rx = 0 /\ phy_rx_offset' - Known'.rx = r
    BY <1>4 DEF FlagInv
  <2>3. Nearest(0) = 0
    BY <1>0 DEF Nearest
  <2>4. Known.ta \in Int
    BY DEF Known, TypeInv
  <2>5. lag' = lag - r /\ bias' = bias + Nearest(r) - r
    OBVIOUS
  <2>6. lag \in Int /\ bias \in Int
    BY DEF TypeInv
  <2>7. lag + Known.ta = bias
    BY <2>1, <2>2, <2>3, <2>4, <2>6
  <2>8. lag' + Known.ta + Nearest(r) = bias'
    BY <2>5, <2>7, <2>4, <2>6, <1>1
  <2> QED
    BY <2>8, <2>2, <1>4
<1> QED
  BY <1>2, <1>3, <1>5, <1>6

(* How far a drift moves the offset, seen from the transmit thread.        *)
LEMMA NearestMoves ==
  ASSUME NEW phy \in 0 .. buflen - 1, NEW known \in -(buflen - 1) .. buflen - 1,
         NEW d \in -Drift .. Drift,
         Nearest(phy - known) = 0,
         \/ known >= 0
         \/ phy = -known
         \/ /\ known = -SymLen
            /\ -Drift <= phy - SymLen /\ phy - SymLen <= Drift
  PROVE  /\ (phy + d) % buflen \in 0 .. buflen - 1
         /\ Nearest(((phy + d) % buflen) - known) = d
         /\ known >= 0 \/ (known = -SymLen /\ ((phy + d) % buflen) - SymLen = d)
<1> DEFINE B == buflen
           new == (phy + d) % B
<1>0. /\ SymLen \in Nat \ {0} /\ B = 2 * SymLen
      /\ Drift \in Nat /\ Drift < SymLen /\ d \in Int
  BY BufLen, AlignAssumption
<1>1. -B < phy + d /\ phy + d < 2 * B
  BY <1>0
<1>2. new = IF phy + d < 0 THEN phy + d + B ELSE IF phy + d < B THEN phy + d ELSE phy + d - B
  <2> DEFINE moved == phy + d
  <2>0. B \in Nat \ {0} /\ moved \in Int /\ -B < moved /\ moved < 2 * B
    BY <1>0, <1>1
  <2>1. new = moved % B
    OBVIOUS
  <2> HIDE DEF B, new, moved
  <2>2. CASE moved < 0
    <3>1. moved < B
      BY <2>0, <2>2
    <3>2. moved % B = moved + B
      BY <3>1, <2>0, <2>2, ModOnce
    <3> QED
      BY <3>2, <2>1, <2>2 DEF moved
  <2>3. CASE moved >= 0
    <3>1. moved % B = IF moved < B THEN moved ELSE moved - B
      BY <2>0, <2>3, ModTwice
    <3> QED
      BY <3>1, <2>1, <2>3, <2>0 DEF moved
  <2> QED
    BY <2>2, <2>3, <2>0
<1>3. phy - known = 0 \/ phy - known = B \/ phy - known = -B
  BY <1>0 DEF Nearest
<1>4. new \in 0 .. B - 1
  BY <1>0, <1>1, <1>2
<1>5. known >= 0 => phy = known
  BY <1>3, <1>0
<1>6. known < 0 => known = -SymLen /\ phy = SymLen
  BY <1>3, <1>0
<1>7. known < 0 => new - SymLen = d
  BY <1>6, <1>2, <1>0
<1>8. Nearest(new - known) = d
  <2>1. CASE known >= 0
    <3>1. new - known = d \/ new - known = d + B \/ new - known = d - B
      BY <2>1, <1>5, <1>2, <1>0
    <3> QED
      BY <3>1, <1>0 DEF Nearest
  <2>2. CASE known < 0
    <3>1. new - known = d + B
      BY <2>2, <1>6, <1>7, <1>0, <1>4
    <3> QED
      BY <3>1, <1>0 DEF Nearest
  <2> QED
    BY <2>1, <2>2
<1> QED
  BY <1>4, <1>6, <1>7, <1>8

LEMMA KnownType ==
  ASSUME TypeInv
  PROVE  /\ Known.rx \in -(buflen - 1) .. buflen - 1
         /\ Known.ta \in Nat
BY BufLen DEF TypeInv, Known

LEMMA ResyncIInv ==
  ASSUME NEW d \in -Drift .. Drift, IInv, Resync(d)
  PROVE  IInv'
<1> USE DEF IInv, Resync, threadVars
<1>0. d \in Int
  BY AlignAssumption
<1>1. Known' = Known
  BY DEF Known
<1>2. /\ phy_rx_offset' \in 0 .. buflen - 1
      /\ Nearest(phy_rx_offset' - Known.rx) = d
      /\ Known.rx >= 0 \/ (Known.rx = -SymLen /\ phy_rx_offset' - SymLen = d)
  BY NearestMoves, KnownType DEF StartInv, TypeInv
<1>3. TypeInv'
  BY <1>0, <1>2 DEF TypeInv
<1>4. WaitInv' /\ FlagInv'
  BY DEF WaitInv, FlagInv
<1>5. StartInv'
  BY <1>1, <1>2, AlignAssumption DEF StartInv
<1>6. FollowsDownlink'
  <2>1. tx_pc # "wait" /\ ~torn /\ ~slipped => lag + Known.ta + 0 = bias
    BY DEF FollowsDownlink
  <2>2. lag' = lag - d /\ bias' = bias /\ lag \in Int /\ bias \in Int /\ Known.ta \in Int
    BY KnownType DEF TypeInv
  <2>3. tx_pc # "wait" /\ ~torn /\ ~slipped => lag' + Known.ta + d = bias'
    BY <2>1, <2>2, <1>0
  <2> QED
    BY <2>3, <1>1, <1>2 DEF FollowsDownlink
<1> QED
  BY <1>3, <1>4, <1>5, <1>6

LEMMA SetAdvanceIInv ==
  ASSUME NEW a \in Advances, IInv, SetAdvance(a)
  PROVE  IInv'
<1> USE DEF IInv, SetAdvance, threadVars
<1>1. Known' = Known
  BY DEF Known
<1>2. TypeInv'
  BY AlignAssumption DEF TypeInv
<1>3. WaitInv' /\ FlagInv' /\ StartInv' /\ FollowsDownlink'
  BY <1>1 DEF WaitInv, FlagInv, StartInv, FollowsDownlink
<1> QED
  BY <1>2, <1>3

LEMMA StartIInv == IInv /\ Start => IInv'
<1> SUFFICES ASSUME IInv, Start PROVE IInv'
  OBVIOUS
<1> USE DEF IInv, Start
<1>0. SymLen \in Nat \ {0} /\ buflen = 2 * SymLen
  BY BufLen
<1>1. /\ rx_offset' \in -(buflen - 1) .. buflen - 1 /\ tx_shift' \in Int
      /\ rx_offset' = -phy_rx_offset
  BY <1>0 DEF TypeInv
<1>2. phy_rx_offset - rx_offset' \in Int /\ Nearest(phy_rx_offset - rx_offset') \in Int
  BY <1>0, <1>1 DEF TypeInv, Nearest
<1>3. TypeInv'
  BY <1>1, <1>2 DEF TypeInv
<1>4. WaitInv' /\ FlagInv'
  BY DEF WaitInv, FlagInv, TypeInv
<1>5. Known'.rx = rx_offset' /\ Known'.ta = timing_advance
  BY DEF Known
<1>6. StartInv'
  BY <1>1, <1>5, <1>0 DEF StartInv, TypeInv
<1>7. FollowsDownlink'
  <2>1. lag = 0 /\ timing_advance = 0 /\ lag' = lag
    BY DEF WaitInv
  <2>2. phy_rx_offset' = phy_rx_offset /\ bias' = Nearest(phy_rx_offset - rx_offset')
    OBVIOUS
  <2> QED
    BY <2>1, <2>2, <1>2, <1>5 DEF FollowsDownlink
<1> QED
  BY <1>3, <1>4, <1>6, <1>7

LEMMA WriteSymbolIInv == IInv /\ WriteSymbol => IInv'
<1> SUFFICES ASSUME IInv, WriteSymbol PROVE IInv'
  OBVIOUS
<1> USE DEF IInv, WriteSymbol
<1>1. Known' = Known
  BY DEF Known
<1>2. Lost(tx_symbol) \in Int
  BY AlignAssumption DEF Lost, TypeInv
<1>3. Lost(tx_symbol) * SymLen \in Int /\ (Lost(tx_symbol) = 0 => Lost(tx_symbol) * SymLen = 0)
  BY <1>2, BufLen
<1>4. TypeInv'
  BY <1>2, <1>3 DEF TypeInv
<1>5. WaitInv' /\ FlagInv'
  BY DEF WaitInv, FlagInv
<1>6. StartInv'
  BY <1>1 DEF StartInv
<1>7. Lost(tx_symbol) >= 0
  BY AlignAssumption DEF Lost, TypeInv
<1>8. FollowsDownlink'
  <2>1. ~slipped' => ~slipped /\ ~(Lost(tx_symbol) > 0)
    OBVIOUS
  <2>2. ~slipped' => Lost(tx_symbol) * SymLen = 0
    BY <2>1, <1>2, <1>3, <1>7
  <2>3. lag' = lag + Lost(tx_symbol) * SymLen /\ lag \in Int
    BY DEF TypeInv
  <2>4. ~slipped' => lag' = lag
    BY <2>2, <2>3
  <2> QED
    BY <2>1, <2>4, <1>1 DEF FollowsDownlink
<1> QED
  BY <1>4, <1>5, <1>6, <1>8

(* Taking buffers off the shift and repeating their symbols moves the      *)
(* uplink by as much as the shift was to be moved.                         *)
LEMMA AdaptMoves ==
  ASSUME NEW diff \in Int, TypeInv, Adapt(diff)
  PROVE  tx_shift' \in Int /\ tx_symbol' \in Int /\ lag' = lag - diff
<1> DEFINE shift == tx_shift - diff
           turns == shift \div buflen
           rest == shift % buflen
<1>0. SymLen \in Nat \ {0} /\ buflen = 2 * SymLen /\ buflen \in Nat \ {0}
  BY BufLen
<1>1. shift \in Int /\ tx_shift \in Int /\ tx_symbol \in Int /\ lag \in Int
  BY DEF TypeInv
<1>2. turns \in Int /\ rest \in Int /\ shift = buflen * turns + rest
  <2>1. shift \in Int /\ buflen \in Nat \ {0}
    BY <1>0, <1>1
  <2> HIDE DEF shift
  <2>2. /\ shift \div buflen \in Int
        /\ shift % buflen \in 0 .. buflen - 1
        /\ shift = buflen * (shift \div buflen) + (shift % buflen)
    BY <2>1, DivModInt
  <2> QED
    BY <2>2, <1>0
<1>3. /\ tx_shift' = rest /\ tx_symbol' = tx_symbol - 2 * turns
      /\ lag' = lag + (tx_shift' - tx_shift) - (tx_symbol' - tx_symbol) * SymLen
  BY DEF Adapt, SYMBOLS_PER_BUF
<1>4. shift = tx_shift - diff
  OBVIOUS
<1> HIDE DEF shift, turns, rest
<1>5. (tx_symbol' - tx_symbol) * SymLen = -(buflen * turns)
  <2>1. tx_symbol' - tx_symbol = -(2 * turns)
    BY <1>1, <1>2, <1>3
  <2>2. (-(2 * turns)) * SymLen = -((2 * SymLen) * turns)
    BY <1>0, <1>2
  <2> QED
    BY <2>1, <2>2, <1>0
<1>6. buflen * turns \in Int
  BY <1>0, <1>2
<1> QED
  BY <1>1, <1>2, <1>3, <1>4, <1>5, <1>6

LEMMA CheckOffsetIInv == IInv /\ CheckOffset => IInv'
<1> SUFFICES ASSUME IInv, CheckOffset PROVE IInv'
  OBVIOUS
<1> USE DEF IInv, CheckOffset
<1>0. SymLen \in Nat \ {0} /\ buflen = 2 * SymLen
  BY BufLen
<1>1. Diff \in Int /\ Nearest(phy_rx_offset - rx_offset) \in Int
  BY <1>0 DEF TypeInv, Diff, Nearest
<1>2. CASE tx_pc' = "record"
  <2>0. used' = [rx |-> phy_rx_offset, ta |-> mac_advance] /\ Adapt(Diff)
    BY <1>2
  <2>1. tx_shift' \in Int /\ tx_symbol' \in Int /\ lag' = lag - Diff
    BY <2>0, <1>1, AdaptMoves
  <2>2. lag' \in Int
    BY <2>1, <1>1 DEF TypeInv
  <2>3. TypeInv'
    BY <2>0, <2>1, <2>2, <1>2 DEF TypeInv
  <2>4. WaitInv' /\ FlagInv'
    BY <2>0, <1>2 DEF WaitInv, FlagInv
  <2>5. Known' = [rx |-> phy_rx_offset, ta |-> mac_advance]
    BY <2>0, <1>2 DEF Known
  <2>6. StartInv'
    BY <2>5 DEF StartInv, TypeInv
  <2>7. FollowsDownlink'
    <3>1. Known = [rx |-> rx_offset, ta |-> timing_advance]
      BY DEF Known
    <3>2. Nearest(phy_rx_offset' - Known'.rx) = 0
      BY <2>5, <1>0 DEF TypeInv, Nearest
    <3>3. ~torn /\ ~slipped => lag + timing_advance + Nearest(phy_rx_offset - rx_offset) = bias
      BY <3>1 DEF FollowsDownlink
    <3>4. ~torn /\ ~slipped => lag' + mac_advance + 0 = bias
      BY <3>3, <2>1, <1>1 DEF Diff, TypeInv
    <3> QED
      BY <3>2, <3>4, <2>5 DEF FollowsDownlink
  <2> QED
    BY <2>3, <2>4, <2>6, <2>7
<1>3. CASE tx_pc' # "record"
  <2>1. tx_pc' = "first" /\ UNCHANGED <<used, tx_shift, tx_symbol, lag>>
    BY <1>3
  <2>2. Known' = Known
    BY <2>1 DEF Known
  <2>3. TypeInv'
    BY <2>1 DEF TypeInv
  <2>4. WaitInv' /\ FlagInv' /\ StartInv' /\ FollowsDownlink'
    BY <2>1, <2>2 DEF WaitInv, FlagInv, StartInv, FollowsDownlink
  <2> QED
    BY <2>3, <2>4
<1> QED
  BY <1>2, <1>3

LEMMA RecordIInv == IInv /\ Record => IInv'
<1> SUFFICES ASSUME IInv, Record PROVE IInv'
  OBVIOUS
<1> USE DEF IInv, Record
<1>0. SymLen \in Nat \ {0} /\ buflen = 2 * SymLen
  BY BufLen
<1>1. TypeInv'
  BY <1>0 DEF TypeInv
<1>2. WaitInv' /\ FlagInv'
  BY DEF WaitInv, FlagInv
<1>3. Known' = [rx |-> phy_rx_offset, ta |-> mac_advance]
  BY DEF Known
<1>4. StartInv'
  BY <1>3 DEF StartInv, TypeInv
<1>5. FollowsDownlink'
  <2>1. ~torn' => ~torn /\ used = [rx |-> phy_rx_offset, ta |-> mac_advance]
    BY DEF TypeInv
  <2>2. ~torn' => Known' = Known
    BY <2>1, <1>3 DEF Known
  <2> QED
    BY <2>1, <2>2 DEF FollowsDownlink
<1> QED
  BY <1>1, <1>2, <1>4, <1>5

LEMMA IInvAlways == AlignSpec => []IInv
<1>1. IInv /\ [AlignNext]_alignVars => IInv'
  <2> SUFFICES ASSUME IInv, [AlignNext]_alignVars PROVE IInv'
    OBVIOUS
  <2>1. CASE InitialSync
    BY <2>1, InitialSyncIInv
  <2>2. CASE \E r \in 0 .. buflen - 1 : SetOffset(r)
    BY <2>2, SetOffsetIInv
  <2>3. CASE \E d \in -Drift .. Drift : d # 0 /\ Resync(d)
    BY <2>3, ResyncIInv
  <2>4. CASE \E a \in Advances : SetAdvance(a)
    BY <2>4, SetAdvanceIInv
  <2>5. CASE Start
    BY <2>5, StartIInv
  <2>6. CASE WriteSymbol
    BY <2>6, WriteSymbolIInv
  <2>7. CASE CheckOffset
    BY <2>7, CheckOffsetIInv
  <2>8. CASE Record
    BY <2>8, RecordIInv
  <2>9. CASE UNCHANGED alignVars
    BY <2>9 DEF alignVars, IInv, TypeInv, WaitInv, FlagInv, StartInv, FollowsDownlink, Known
  <2> QED
    BY <2>1, <2>2, <2>3, <2>4, <2>5, <2>6, <2>7, <2>8, <2>9 DEF AlignNext
<1> QED
  BY InitIInv, <1>1, PTL DEF AlignSpec

(* For every length of the buffers, and every drift below a symbol's, the  *)
(* uplink stays where the first check has put it against the downlink, but *)
(* for the timing advance, however often the shift wraps.                  *)
THEOREM FollowsAlways == AlignSpec => []FollowsDownlink
BY IInvAlways, PTL DEF IInv

(* With the radio and the pin, the transmit thread and those it competes   *)
(* with do nothing that they do not do in TxAlign.                         *)
THEOREM RadioImplementsAlign == Spec => AlignSpec
<1>1. Init => AlignInit
  BY DEF Init
<1>2. [Next]_vars => [AlignNext]_alignVars
  <2> SUFFICES ASSUME [Next]_vars PROVE [AlignNext]_alignVars
    OBVIOUS
  <2>1. CASE TxThreadStep
    BY <2>1 DEF TxThreadStep, TxThread, WriteFirst, WriteSecond, Check, SetDelay, AlignNext
  <2>2. CASE PinIdle /\ OtherThreads
    BY <2>2 DEF OtherThreads, AlignNext
  <2>3. CASE Pin \/ WaitHour \/ Tick
    BY <2>3 DEF Pin, WaitHour, Tick
  <2>4. CASE Spin \/ UNCHANGED vars
    BY <2>4 DEF Spin, vars
  <2> QED
    BY <2>1, <2>2, <2>3, <2>4 DEF Next
<1> QED
  BY <1>1, <1>2, PTL DEF Spec, AlignSpec

THEOREM FollowsOnAir == Spec => []FollowsDownlink
BY RadioImplementsAlign, FollowsAlways, PTL

---------------------------------------------------------------------------
(* The pin.  The invariants are about states in which Kept holds, i.e.     *)
(* nothing has happened that PinFollowsAir excludes.                       *)
Kept == ~early /\ ~raced /\ ~dropped

Sample == [symbol : Levels, buffer : Levels]

(* Of the events of q that are due before n samples have been sent, the    *)
(* k-th is the last.                                                       *)
IsLast(q, k, n) ==
  /\ q[k].left <= n
  /\ \A m \in 1 .. Len(q) : q[m].left <= n => q[m].left <= q[k].left

(* A pin that has the level v, and is switched by q, has the right one     *)
(* when the samples a are sent.                                            *)
AirIs(a, q, v) ==
  \A i \in 1 .. Len(a) :
    /\ \A k \in 1 .. Len(q) : IsLast(q, k, i - 1) => a[i].buffer = q[k].value
    /\ (\A k \in 1 .. Len(q) : q[k].left > i - 1) => a[i].buffer = v

(* When all events of q have come, its level is l.                         *)
LevelIs(q, v, l) ==
  /\ \A k \in 1 .. Len(q) :
       (\A m \in 1 .. Len(q) : q[m].left <= q[k].left) => l = q[k].value
  /\ q = <<>> => l = v

(* All events of q are due when n samples have been sent.                  *)
DueBy(q, n) == \A k \in 1 .. Len(q) : q[k].left <= n

LEMMA EventIs ==
  ASSUME NEW q \in Seq(Events), NEW k \in 1 .. Len(q)
  PROVE  q[k] \in Events /\ q[k].left \in Int /\ q[k].value \in Levels
<1>1. q[k] \in Events
  OBVIOUS
<1> QED
  BY <1>1 DEF Events, Levels

(* Samples written behind those on their way have the level of the last    *)
(* event.                                                                  *)
LEMMA LevelLasts ==
  ASSUME NEW a \in Seq(Sample), NEW b \in Seq(Sample),
         NEW q \in Seq(Events), NEW v, NEW l,
         AirIs(a, q, v), LevelIs(q, v, l), DueBy(q, Len(a)),
         \A i \in 1 .. Len(b) : b[i].buffer = l
  PROVE  AirIs(a \o b, q, v)
<1>1. \A i \in 1 .. Len(a \o b) :
        \/ i \in 1 .. Len(a) /\ (a \o b)[i] = a[i]
        \/ i - 1 >= Len(a) /\ (a \o b)[i].buffer = l
  <2> TAKE i \in 1 .. Len(a \o b)
  <2>1. Len(a \o b) = Len(a) + Len(b)
    OBVIOUS
  <2>2. CASE i <= Len(a)
    BY <2>2
  <2>3. CASE i > Len(a)
    <3>1. i - Len(a) \in 1 .. Len(b) /\ (a \o b)[i] = b[i - Len(a)]
      BY <2>1, <2>3
    <3> QED
      BY <3>1, <2>3
  <2> QED
    BY <2>2, <2>3
<1> SUFFICES ASSUME NEW i \in 1 .. Len(a \o b)
             PROVE /\ \A k \in 1 .. Len(q) :
                        IsLast(q, k, i - 1) => (a \o b)[i].buffer = q[k].value
                   /\ (\A k \in 1 .. Len(q) : q[k].left > i - 1)
                        => (a \o b)[i].buffer = v
  BY DEF AirIs
<1>2. CASE i \in 1 .. Len(a) /\ (a \o b)[i] = a[i]
  BY <1>2 DEF AirIs
<1>3. CASE i - 1 >= Len(a) /\ (a \o b)[i].buffer = l
  <2>1. \A m \in 1 .. Len(q) : q[m].left \in Int /\ q[m].left <= i - 1
    BY <1>3, EventIs DEF DueBy
  <2>2. ASSUME NEW k \in 1 .. Len(q), IsLast(q, k, i - 1)
        PROVE  l = q[k].value
    BY <2>1, <2>2 DEF IsLast, LevelIs
  <2>3. ASSUME \A k \in 1 .. Len(q) : q[k].left > i - 1 PROVE l = v
    <3>1. Len(q) = 0
      <4>1. 1 \notin 1 .. Len(q)
        BY <2>1, <2>3
      <4> QED
        BY <4>1
    <3>2. q = <<>>
      BY <3>1
    <3> QED
      BY <3>2 DEF LevelIs
  <2> QED
    BY <1>3, <2>2, <2>3
<1> QED
  BY <1>1, <1>2, <1>3

(* A new event, later than all others and than the samples on their way.   *)
LEMMA NewEvent ==
  ASSUME NEW a \in Seq(Sample), NEW q \in Seq(Events), NEW v,
         NEW e \in Events, e.left >= Len(a), AirIs(a, q, v),
         \A k \in 1 .. Len(q) : q[k].left < e.left
  PROVE  AirIs(a, Append(q, e), v) /\ LevelIs(Append(q, e), v, e.value)
<1> DEFINE r == Append(q, e)
<1>1. /\ Len(r) = Len(q) + 1 /\ r # <<>> /\ r[Len(r)] = e
      /\ \A k \in 1 .. Len(q) : r[k] = q[k]
      /\ e.left \in Int
  BY DEF Events
<1>2. \A k \in 1 .. Len(q) : q[k].left \in Int
  BY EventIs
<1> HIDE DEF r
<1>3. AirIs(a, r, v)
  <2> SUFFICES ASSUME NEW i \in 1 .. Len(a)
               PROVE /\ \A k \in 1 .. Len(r) :
                          IsLast(r, k, i - 1) => a[i].buffer = r[k].value
                     /\ (\A k \in 1 .. Len(r) : r[k].left > i - 1)
                          => a[i].buffer = v
    BY DEF AirIs
  <2>1. e.left > i - 1
    BY <1>1
  <2>2. ASSUME NEW k \in 1 .. Len(r), IsLast(r, k, i - 1)
        PROVE  a[i].buffer = r[k].value
    <3>1. k \in 1 .. Len(q)
      BY <2>1, <2>2, <1>1 DEF IsLast
    <3>2. IsLast(q, k, i - 1)
      BY <2>2, <3>1, <1>1 DEF IsLast
    <3> QED
      BY <3>1, <3>2, <1>1 DEF AirIs
  <2>3. ASSUME \A k \in 1 .. Len(r) : r[k].left > i - 1
        PROVE  a[i].buffer = v
    <3>1. \A k \in 1 .. Len(q) : q[k].left > i - 1
      BY <2>3, <1>1
    <3> QED
      BY <3>1 DEF AirIs
  <2> QED
    BY <2>2, <2>3
<1>4. LevelIs(r, v, e.value)
  <2> SUFFICES ASSUME NEW k \in 1 .. Len(r),
                      \A m \in 1 .. Len(r) : r[m].left <= r[k].left
               PROVE  r[k] = e
    BY <1>1 DEF LevelIs
  <2>1. e.left <= r[k].left
    BY <1>1
  <2>2. k \notin 1 .. Len(q)
    BY <2>1, <1>1, <1>2
  <2> QED
    BY <2>2, <1>1
<1> QED
  BY <1>3, <1>4 DEF r

(* Sorting changes nothing.                                                *)
LEMMA ReorderedIs ==
  ASSUME NEW q \in Seq(Events), NEW s \in Reorderings(q)
  PROVE  /\ s \in Seq(Events) /\ Len(s) = Len(q)
         /\ \A i \in 1 .. Len(q) : \E k \in 1 .. Len(q) : s[i] = q[k]
         /\ \A k \in 1 .. Len(q) : \E i \in 1 .. Len(q) : s[i] = q[k]
<1>1. PICK p \in Bijection(DOMAIN q, DOMAIN q) :
        s = [i \in DOMAIN q |-> q[p[i]]]
  BY DEF Reorderings
<1>2. DOMAIN q = 1 .. Len(q) /\ Len(q) \in Nat
  OBVIOUS
<1>3. /\ p \in [1 .. Len(q) -> 1 .. Len(q)]
      /\ \A k \in 1 .. Len(q) : \E i \in 1 .. Len(q) : p[i] = k
  BY <1>1, <1>2 DEF Bijection, Injection, Surjection
<1>4. \A i \in 1 .. Len(q) : s[i] = q[p[i]]
  BY <1>1, <1>2
<1>5. s \in [1 .. Len(q) -> Events]
  BY <1>1, <1>2, <1>3, EventIs
<1>6. s \in Seq(Events) /\ Len(s) = Len(q)
  BY <1>5, <1>2
<1>7. \A i \in 1 .. Len(q) : \E k \in 1 .. Len(q) : s[i] = q[k]
  BY <1>3, <1>4
<1>8. \A k \in 1 .. Len(q) : \E i \in 1 .. Len(q) : s[i] = q[k]
  <2> TAKE k \in 1 .. Len(q)
  <2>1. PICK i \in 1 .. Len(q) : p[i] = k
    BY <1>3
  <2> QED
    BY <2>1, <1>4
<1> QED
  BY <1>6, <1>7, <1>8

LEMMA ReorderKeeps ==
  ASSUME NEW a, NEW q \in Seq(Events), NEW s \in Reorderings(q),
         NEW v, NEW l, AirIs(a, q, v), LevelIs(q, v, l)
  PROVE  AirIs(a, s, v) /\ LevelIs(s, v, l)
<1>1. /\ s \in Seq(Events) /\ Len(s) = Len(q)
      /\ \A i \in 1 .. Len(q) : \E k \in 1 .. Len(q) : s[i] = q[k]
      /\ \A k \in 1 .. Len(q) : \E i \in 1 .. Len(q) : s[i] = q[k]
  BY ReorderedIs
<1>2. AirIs(a, s, v)
  <2> SUFFICES ASSUME NEW i \in 1 .. Len(a)
               PROVE /\ \A k \in 1 .. Len(s) :
                          IsLast(s, k, i - 1) => a[i].buffer = s[k].value
                     /\ (\A k \in 1 .. Len(s) : s[k].left > i - 1)
                          => a[i].buffer = v
    BY DEF AirIs
  <2>1. ASSUME NEW k \in 1 .. Len(s), IsLast(s, k, i - 1)
        PROVE  a[i].buffer = s[k].value
    <3>1. PICK m \in 1 .. Len(q) : s[k] = q[m]
      BY <1>1
    <3>2. IsLast(q, m, i - 1)
      BY <3>1, <2>1, <1>1 DEF IsLast
    <3> QED
      BY <3>1, <3>2 DEF AirIs
  <2>2. ASSUME \A k \in 1 .. Len(s) : s[k].left > i - 1
        PROVE  a[i].buffer = v
    <3>1. \A k \in 1 .. Len(q) : q[k].left > i - 1
      BY <2>2, <1>1
    <3> QED
      BY <3>1 DEF AirIs
  <2> QED
    BY <2>1, <2>2
<1>3. LevelIs(s, v, l)
  <2>1. ASSUME NEW k \in 1 .. Len(s),
               \A m \in 1 .. Len(s) : s[m].left <= s[k].left
        PROVE  l = s[k].value
    <3>1. PICK n \in 1 .. Len(q) : s[k] = q[n]
      BY <1>1
    <3>2. \A m \in 1 .. Len(q) : q[m].left <= q[n].left
      BY <3>1, <2>1, <1>1
    <3> QED
      BY <3>1, <3>2 DEF LevelIs
  <2>2. s = <<>> => q = <<>>
    BY <1>1
  <2> QED
    BY <2>1, <2>2 DEF LevelIs
<1> QED
  BY <1>2, <1>3

(* A queue without its last event.                                         *)
LEMMA FrontIs ==
  ASSUME NEW S, NEW q \in Seq(S), q # <<>>
  PROVE  /\ Len(q) \in Nat /\ Len(q) >= 1
         /\ SubSeq(q, 1, Len(q) - 1) \in Seq(S)
         /\ Len(SubSeq(q, 1, Len(q) - 1)) = Len(q) - 1
         /\ \A k \in 1 .. Len(q) - 1 : SubSeq(q, 1, Len(q) - 1)[k] = q[k]
<1>1. Len(q) \in Nat /\ Len(q) >= 1
  OBVIOUS
<1>2. SubSeq(q, 1, Len(q) - 1) = [i \in 1 .. Len(q) - 1 |-> q[i]]
  BY <1>1
<1>3. [i \in 1 .. Len(q) - 1 |-> q[i]] \in [1 .. Len(q) - 1 -> S]
  BY <1>1
<1>4. ASSUME NEW f \in [1 .. Len(q) - 1 -> S]
      PROVE  f \in Seq(S) /\ Len(f) = Len(q) - 1
  BY <1>1
<1> QED
  BY <1>1, <1>2, <1>3, <1>4

(* The event that is due is the last of a sorted queue.                    *)
LEMMA LastHandled ==
  ASSUME NEW a, NEW q \in Seq(Events), NEW v, NEW l, q # <<>>, Sorted(q),
         q[Len(q)].left <= 0, AirIs(a, q, v), LevelIs(q, v, l)
  PROVE  /\ AirIs(a, SubSeq(q, 1, Len(q) - 1), q[Len(q)].value)
         /\ LevelIs(SubSeq(q, 1, Len(q) - 1), q[Len(q)].value, l)
<1> DEFINE n == Len(q)
           f == SubSeq(q, 1, n - 1)
<1>1. n \in Nat /\ n >= 1
  OBVIOUS
<1>2. Len(f) = n - 1 /\ (f = <<>> => n = 1)
  <2>1. Len(f) = n - 1
    BY FrontIs
  <2>2. ASSUME f = <<>> PROVE n = 1
    <3> HIDE DEF f
    <3>1. Len(f) = 0
      BY <2>2
    <3> QED
      BY <3>1, <2>1, <1>1
  <2> QED
    BY <2>1, <2>2
<1>3. \A k \in 1 .. n - 1 : f[k] = q[k] /\ k \in 1 .. n
  BY <1>1, FrontIs
<1>4. \A k \in 1 .. n : q[n].left <= q[k].left /\ q[k].left \in Int
  <2> TAKE k \in 1 .. n
  <2>1. q[k].left \in Int /\ q[n].left \in Int
    BY <1>1, EventIs
  <2>2. k < n => q[k].left >= q[n].left
    BY <1>1 DEF Sorted
  <2> QED
    BY <2>1, <2>2, <1>1
<1>5. n \in 1 .. n
  BY <1>1
<1> HIDE DEF n, f
<1>6. AirIs(a, f, q[n].value)
  <2> SUFFICES ASSUME NEW i \in 1 .. Len(a)
               PROVE /\ \A k \in 1 .. Len(f) :
                          IsLast(f, k, i - 1) => a[i].buffer = f[k].value
                     /\ (\A k \in 1 .. Len(f) : f[k].left > i - 1)
                          => a[i].buffer = q[n].value
    BY DEF AirIs
  <2>0. q[n].left <= i - 1
    BY <1>4, <1>5 DEF n
  <2>1. ASSUME NEW k \in 1 .. Len(f), IsLast(f, k, i - 1)
        PROVE  a[i].buffer = f[k].value
    <3>1. k \in 1 .. n - 1 /\ k \in 1 .. n /\ f[k] = q[k]
      BY <1>2, <1>3
    <3>2. q[k].left <= i - 1
      BY <3>1, <2>1 DEF IsLast
    <3>3. ASSUME NEW m \in 1 .. n, q[m].left <= i - 1
          PROVE  q[m].left <= q[k].left
      <4>1. CASE m = n
        BY <4>1, <3>1, <1>4
      <4>2. CASE m # n
        <5>1. m \in 1 .. n - 1
          BY <4>2, <1>1
        <5> QED
          BY <5>1, <3>1, <3>3, <2>1, <1>2, <1>3 DEF IsLast
      <4> QED
        BY <4>1, <4>2
    <3>4. IsLast(q, k, i - 1)
      BY <3>2, <3>3 DEF IsLast, n
    <3> QED
      BY <3>1, <3>4 DEF AirIs, n
  <2>2. ASSUME \A k \in 1 .. Len(f) : f[k].left > i - 1
        PROVE  a[i].buffer = q[n].value
    <3>1. ASSUME NEW m \in 1 .. n, q[m].left <= i - 1
          PROVE  m = n
      <4>1. SUFFICES ASSUME m \in 1 .. n - 1 PROVE FALSE
        BY <1>1
      <4>2. q[m].left > i - 1
        BY <4>1, <2>2, <1>2, <1>3
      <4> QED
        BY <4>2, <3>1, <1>4
    <3>2. IsLast(q, n, i - 1)
      BY <3>1, <2>0, <1>4, <1>5 DEF IsLast, n
    <3> QED
      BY <3>2, <1>5 DEF AirIs, n
  <2> QED
    BY <2>1, <2>2
<1>7. LevelIs(f, q[n].value, l)
  <2>1. ASSUME NEW k \in 1 .. Len(f),
               \A m \in 1 .. Len(f) : f[m].left <= f[k].left
        PROVE  l = f[k].value
    <3>1. k \in 1 .. n - 1 /\ k \in 1 .. n /\ f[k] = q[k]
      BY <1>2, <1>3
    <3>2. ASSUME NEW m \in 1 .. n PROVE q[m].left <= q[k].left
      <4>1. CASE m = n
        BY <4>1, <3>1, <1>4
      <4>2. CASE m # n
        <5>1. m \in 1 .. n - 1
          BY <4>2, <1>1
        <5> QED
          BY <5>1, <3>1, <2>1, <1>2, <1>3
      <4> QED
        BY <4>1, <4>2
    <3> QED
      BY <3>1, <3>2 DEF LevelIs, n
  <2>2. ASSUME f = <<>> PROVE l = q[n].value
    <3>1. n = 1
      BY <2>2, <1>2
    <3>2. \A m \in 1 .. n : q[m].left <= q[n].left
      BY <3>1, <1>4
    <3> QED
      BY <3>2, <1>5 DEF LevelIs, n
  <2> QED
    BY <2>1, <2>2 DEF LevelIs
<1> QED
  BY <1>6, <1>7 DEF n, f

(* The events of q when one unit of time has passed.                       *)
Passed(q) == [i \in DOMAIN q |-> [q[i] EXCEPT !.left = @ - 1]]

LEMMA Earlier ==
  ASSUME NEW e \in Events
  PROVE  [value |-> e.value, left |-> e.left - 1, whole |-> e.whole]
           \in Events
<1>1. /\ e.value \in {LOW, HIGH} /\ e.left - 1 \in Int
      /\ e.whole \in BOOLEAN
  BY DEF Events
<1> QED
  BY <1>1 DEF Events

LEMMA PassedIs ==
  ASSUME NEW q \in Seq(Events)
  PROVE  /\ Passed(q) \in Seq(Events) /\ Len(Passed(q)) = Len(q)
         /\ \A k \in 1 .. Len(q) : /\ Passed(q)[k].left = q[k].left - 1
                                   /\ Passed(q)[k].value = q[k].value
<1>1. DOMAIN q = 1 .. Len(q) /\ Len(q) \in Nat
  OBVIOUS
<1>2. \A k \in 1 .. Len(q) :
        [q[k] EXCEPT !.left = @ - 1]
          = [value |-> q[k].value, left |-> q[k].left - 1,
             whole |-> q[k].whole]
  <2> TAKE k \in 1 .. Len(q)
  <2>1. q[k] \in Events
    BY EventIs
  <2> QED
    BY <2>1 DEF Events
<1>3. \A k \in 1 .. Len(q) :
        Passed(q)[k] = [value |-> q[k].value, left |-> q[k].left - 1,
                        whole |-> q[k].whole]
  BY <1>1, <1>2 DEF Passed
<1>4. \A k \in 1 .. Len(q) : Passed(q)[k] \in Events
  BY <1>3, EventIs, Earlier
<1>5. Passed(q) \in [1 .. Len(q) -> Events]
  BY <1>1, <1>4 DEF Passed
<1>6. Passed(q) \in Seq(Events) /\ Len(Passed(q)) = Len(q)
  BY <1>5, <1>1
<1>7. \A k \in 1 .. Len(q) : /\ Passed(q)[k].left = q[k].left - 1
                            /\ Passed(q)[k].value = q[k].value
  <2> TAKE k \in 1 .. Len(q)
  <2>1. ASSUME NEW e, e = [value |-> q[k].value, left |-> q[k].left - 1,
                           whole |-> q[k].whole]
        PROVE  e.left = q[k].left - 1 /\ e.value = q[k].value
    BY <2>1
  <2> QED
    BY <1>3, <2>1
<1> QED
  BY <1>6, <1>7

LEMMA PassedKeeps ==
  ASSUME NEW a \in Seq(Sample), a # <<>>, NEW q \in Seq(Events),
         NEW v, NEW l, AirIs(a, q, v), LevelIs(q, v, l)
  PROVE  /\ AirIs(Tail(a), Passed(q), v) /\ LevelIs(Passed(q), v, l)
         /\ Sorted(q) => Sorted(Passed(q))
<1> DEFINE r == Passed(q)
           b == Tail(a)
<1>1. /\ r \in Seq(Events) /\ Len(r) = Len(q)
      /\ \A k \in 1 .. Len(q) : /\ r[k].left = q[k].left - 1
                                /\ r[k].value = q[k].value
  BY PassedIs
<1>2. Len(b) = Len(a) - 1 /\ \A i \in 1 .. Len(b) : b[i] = a[i + 1]
  OBVIOUS
<1>3. \A k \in 1 .. Len(q) : q[k].left \in Int
  BY EventIs
<1>0. Len(a) \in Nat /\ DOMAIN q = 1 .. Len(q) /\ DOMAIN r = 1 .. Len(q)
  BY <1>1
<1> HIDE DEF r, b
<1>4. AirIs(b, r, v)
  <2> SUFFICES ASSUME NEW i \in 1 .. Len(b)
               PROVE /\ \A k \in 1 .. Len(r) :
                          IsLast(r, k, i - 1) => b[i].buffer = r[k].value
                     /\ (\A k \in 1 .. Len(r) : r[k].left > i - 1)
                          => b[i].buffer = v
    BY DEF AirIs
  <2>0. i + 1 \in 1 .. Len(a) /\ b[i] = a[i + 1] /\ (i + 1) - 1 = i
    BY <1>0, <1>2
  <2>1. ASSUME NEW k \in 1 .. Len(r), IsLast(r, k, i - 1)
        PROVE  b[i].buffer = r[k].value
    <3>1. k \in 1 .. Len(q)
      BY <1>1
    <3>2. q[k].left <= i
      BY <3>1, <2>1, <1>1, <1>3 DEF IsLast
    <3>3. ASSUME NEW m \in 1 .. Len(q), q[m].left <= i
          PROVE  q[m].left <= q[k].left
      <4>1. r[m].left <= i - 1 /\ m \in 1 .. Len(r)
        BY <3>3, <1>1, <1>3
      <4>2. r[m].left <= r[k].left
        BY <4>1, <2>1 DEF IsLast
      <4> QED
        BY <4>2, <3>1, <1>1, <1>3
    <3>4. IsLast(q, k, (i + 1) - 1)
      BY <3>2, <3>3, <2>0 DEF IsLast
    <3>5. a[i + 1].buffer = q[k].value
      BY <3>4, <3>1, <2>0 DEF AirIs
    <3> QED
      BY <3>5, <3>1, <2>0, <1>1
  <2>2. ASSUME \A k \in 1 .. Len(r) : r[k].left > i - 1
        PROVE  b[i].buffer = v
    <3>1. \A k \in 1 .. Len(q) : q[k].left > (i + 1) - 1
      BY <2>2, <1>1, <1>3
    <3> QED
      BY <3>1, <2>0 DEF AirIs
  <2> QED
    BY <2>1, <2>2
<1>5. LevelIs(r, v, l)
  <2>1. ASSUME NEW k \in 1 .. Len(r),
               \A m \in 1 .. Len(r) : r[m].left <= r[k].left
        PROVE  l = r[k].value
    <3>1. k \in 1 .. Len(q)
      BY <1>1
    <3>2. \A m \in 1 .. Len(q) : q[m].left <= q[k].left
      BY <3>1, <2>1, <1>1, <1>3
    <3> QED
      BY <3>1, <3>2, <1>1 DEF LevelIs
  <2>2. r = <<>> => q = <<>>
    BY <1>1
  <2> QED
    BY <2>1, <2>2 DEF LevelIs
<1>6. Sorted(q) => Sorted(r)
  BY <1>0, <1>1, <1>3 DEF Sorted
<1> QED
  BY <1>4, <1>5, <1>6 DEF r, b
---------------------------------------------------------------------------
Empty == event_q = <<>>
Due == event_q[Len(event_q)].left

RadioType ==
  /\ mac_advance \in Advances /\ timing_advance \in Advances
  /\ tx_shift \in 0 .. buflen - 1 /\ tx_subframe \in 0 .. FRAME_LEN - 1
  /\ air \in Seq(Sample) /\ ptt_delay \in Nat
  /\ level \in Levels /\ ul_data_tx \in [1 .. 2 -> Levels]
  /\ early \in BOOLEAN

GpioType ==
  /\ event_q \in Seq(Events) /\ Len(event_q) <= EVENT_QUEUE_LEN
  /\ below \in 0 .. MaxIdleHours /\ next_event \in Int
  /\ pin_ctrl \in {"waiting", "expired", "woken", "spinning", "stopped"}
  /\ pin \in Levels
  /\ held \in BOOLEAN /\ stop \in BOOLEAN
  /\ raced \in BOOLEAN /\ dropped \in BOOLEAN

(* The radio's buffers begin with odd symbols.                             *)
SymbolInv ==
  /\ tx_pc = "second" => tx_symbol % 2 = 0 /\ tx_symbol < SUBFRAME_LEN
  /\ tx_pc # "second" /\ synced # "no" => tx_symbol % 2 = 1

(* Time passes only while the transmit thread waits for a buffer, so that  *)
(* what is on its way when a symbol is written is known.                   *)
LengthInv ==
  /\ tx_pc = "second" => Len(air) = Latency + tx_shift
  /\ tx_pc = "check" => Len(air) >= Latency /\ Len(air) <= Latency + buflen
  /\ tx_pc \notin {"second", "check"} => Len(air) = Latency

(* After the first change of the offset the delay is that of the samples.  *)
DelayInv ==
  /\ tx_pc # "record" => ptt_delay < Latency \/ ptt_delay = Latency + tx_shift
  /\ tx_pc = "wait" => ptt_delay < Latency

(* The pin's thread waits for the last event of a sorted queue.            *)
QueueInv ==
  /\ pin_ctrl = "waiting" /\ ~held =>
       Sorted(event_q) /\ (Kept /\ ~Empty => next_event = Due)
  /\ Empty => next_event = Hour
  /\ pin_ctrl = "expired" /\ Empty => below < MaxIdleHours /\ ~held

(* A timeout is about the last event, unless one is being appended.        *)
DueInv ==
  Kept => /\ ~stop /\ pin_ctrl # "stopped"
          /\ pin_ctrl = "expired" => ~held /\ Sorted(event_q)
          /\ pin_ctrl = "expired" /\ ~Empty => Due <= 0

(* All events come before the last sample written is sent; a buffer has    *)
(* one at most.                                                            *)
EventInv ==
  Kept =>
    \A k \in 1 .. Len(event_q) :
      IF tx_pc = "second"
        THEN \/ event_q[k].left < Latency
             \/ event_q[k].left <= Latency + tx_shift /\ ~SwitchesAt(tx_symbol)
        ELSE event_q[k].left < Len(air)

AirInv == Kept => AirIs(air, event_q, pin) /\ LevelIs(event_q, pin, level)

PInv ==
  /\ RadioType /\ GpioType /\ SymbolInv /\ LengthInv /\ DelayInv
  /\ QueueInv /\ DueInv /\ EventInv /\ AirInv

LEMMA Lengths ==
  /\ SymLen \in Nat \ {0} /\ buflen = 2 * SymLen /\ buflen \in Nat
  /\ buflen >= 2 /\ Latency \in Nat /\ Latency >= buflen
  /\ (KERNEL_BUF_TX - 1) * buflen = Latency - buflen
  /\ Hour \in Nat /\ Hour > 0 /\ Hour >= Latency + buflen
<1>1. SymLen \in Nat \ {0} /\ buflen = 2 * SymLen
  BY BufLen
<1>2. buflen \in Nat /\ buflen >= 2
  BY <1>1
<1>3. KERNEL_BUF_TX \in Nat /\ KERNEL_BUF_TX >= 1
  BY PttAssumption
<1>4. \A b \in Nat, k \in Nat :
        k >= 1 => /\ k * b \in Nat /\ k * b >= b
                  /\ (k - 1) * b = k * b - b
  OBVIOUS
<1>5. /\ Latency \in Nat /\ Latency >= buflen
      /\ (KERNEL_BUF_TX - 1) * buflen = Latency - buflen
  BY <1>2, <1>3, <1>4 DEF Latency
<1>6. Hour \in Nat /\ Hour > 0 /\ Hour >= Latency + buflen
  BY GpioAssumption, PttAssumption
<1> QED
  BY <1>1, <1>2, <1>5, <1>6

LEMMA SamplesAre ==
  ASSUME NEW ls \in [1 .. 2 -> Levels], NEW l \in Levels,
         NEW from \in Int, NEW to \in Int, 0 <= from, from <= to, to <= buflen
  PROVE  /\ Samples(ls, l, from, to) \in Seq(Sample)
         /\ Len(Samples(ls, l, from, to)) = to - from
         /\ \A i \in 1 .. to - from : Samples(ls, l, from, to)[i].buffer = l
<1>0. SymLen \in Nat \ {0} /\ buflen = 2 * SymLen /\ to - from \in Nat
  BY Lengths
<1> DEFINE at(i) == 1 + (from + i - 1) \div SymLen
           one(i) == [symbol |-> ls[at(i)], buffer |-> l]
<1>1. \A i \in 1 .. to - from : at(i) \in 1 .. 2
  <2> TAKE i \in 1 .. to - from
  <2>1. from + i - 1 \in Int /\ from + i - 1 >= 0 /\ from + i - 1 < 2 * SymLen
    BY <1>0
  <2>2. PICK q \in Int, r \in 0 .. SymLen - 1 :
          q = (from + i - 1) \div SymLen /\ from + i - 1 = SymLen * q + r
    BY <2>1, <1>0, DivModInt
  <2>3. q = 0 \/ q = 1
    <3>1. CASE q < 0
      <4>1. SymLen * q <= -SymLen
        BY <3>1, <1>0
      <4> QED
        BY <4>1, <2>1, <2>2, <1>0
    <3>2. CASE q > 1
      <4>1. SymLen * q >= 2 * SymLen
        BY <3>2, <1>0
      <4> QED
        BY <4>1, <2>1, <2>2, <1>0
    <3> QED
      BY <3>1, <3>2
  <2> QED
    BY <2>2, <2>3
<1> HIDE DEF at
<1>2. \A i \in 1 .. to - from : one(i) \in Sample /\ one(i).buffer = l
  BY <1>1 DEF Sample
<1>3. Samples(ls, l, from, to) = [i \in 1 .. to - from |-> one(i)]
  BY DEF Samples, at
<1> HIDE DEF one
<1>4. [i \in 1 .. to - from |-> one(i)] \in [1 .. to - from -> Sample]
  BY <1>2
<1>5. ASSUME NEW f \in [1 .. to - from -> Sample]
      PROVE  f \in Seq(Sample) /\ Len(f) = to - from
  BY <1>0
<1> QED
  BY <1>2, <1>3, <1>4, <1>5

LEMMA InitPInv == Init => PInv
<1> SUFFICES ASSUME Init PROVE PInv
  OBVIOUS
<1> USE DEF Init, AlignInit, GpioInit
<1> DEFINE s == [symbol |-> LOW, buffer |-> LOW]
<1>1. LOW \in Levels /\ s \in Sample /\ s.buffer = LOW
  BY DEF Levels, Sample
<1>2. <<LOW, LOW>> \in [1 .. 2 -> Levels]
  BY <1>1
<1> HIDE DEF s
<1>3. /\ air \in Seq(Sample) /\ Len(air) = Latency
      /\ \A i \in 1 .. Len(air) : air[i].buffer = LOW
  <2>1. air = [i \in 1 .. Latency |-> s]
    BY DEF Times, s
  <2>2. [i \in 1 .. Latency |-> s] \in [1 .. Latency -> Sample]
    BY <1>1
  <2>3. ASSUME NEW f \in [1 .. Latency -> Sample]
        PROVE  f \in Seq(Sample) /\ Len(f) = Latency
    BY Lengths
  <2>4. air \in Seq(Sample) /\ Len(air) = Latency
    BY <2>1, <2>2, <2>3
  <2> QED
    BY <2>1, <2>4, <1>1
<1>4. RadioType
  <2>1. 0 \in 0 .. buflen - 1 /\ ptt_delay \in Nat
    BY Lengths
  <2>2. 0 \in Advances /\ 0 \in 0 .. FRAME_LEN - 1
    BY AlignAssumption
  <2> QED
    BY <1>1, <1>2, <1>3, <2>1, <2>2 DEF RadioType
<1>5. GpioType
  <2>1. event_q \in Seq(Events) /\ Len(event_q) <= EVENT_QUEUE_LEN
    BY GpioAssumption
  <2>2. below \in 0 .. MaxIdleHours /\ next_event \in Int
    BY GpioAssumption
  <2> QED
    BY <1>1, <2>1, <2>2 DEF GpioType
<1>6. SymbolInv /\ LengthInv /\ QueueInv /\ DueInv
  BY <1>3 DEF SymbolInv, LengthInv, QueueInv, DueInv, Empty, Sorted
<1>7. DelayInv
  BY Lengths DEF DelayInv
<1>8. EventInv
  BY DEF EventInv
<1>9. AirInv
  BY <1>3 DEF AirInv, AirIs, LevelIs
<1> QED
  BY <1>4, <1>5, <1>6, <1>7, <1>8, <1>9 DEF PInv
---------------------------------------------------------------------------
(* Steps that leave the pin and what is on its way alone.                  *)
LEMMA PinUntouched ==
  ASSUME PInv, UNCHANGED <<gpioVars, radioVars>>
  PROVE  /\ GpioType' /\ QueueInv' /\ DueInv' /\ AirInv'
         /\ tx_pc # "second" /\ tx_pc' # "second" => EventInv'
<1> USE DEF PInv, gpioVars, radioVars
<1>1. GpioType'
  BY DEF GpioType
<1>2. QueueInv' /\ DueInv'
  BY DEF QueueInv, DueInv, Empty, Due, Kept
<1>3. AirInv'
  BY DEF AirInv, Kept
<1>4. ASSUME tx_pc # "second", tx_pc' # "second" PROVE EventInv'
  BY <1>4 DEF EventInv, Kept
<1> QED
  BY <1>1, <1>2, <1>3, <1>4

LEMMA OtherThreadsPInv ==
  ASSUME IInv, PInv, OtherThreads
  PROVE  PInv'
<1>1. /\ UNCHANGED <<gpioVars, radioVars>> /\ UNCHANGED <<tx_pc, tx_shift>>
      /\ timing_advance' = timing_advance
      /\ mac_advance' = mac_advance \/ mac_advance' \in Advances
      /\ \/ synced # "no" /\ UNCHANGED <<tx_symbol, tx_subframe>>
         \/ /\ synced = "no" /\ tx_symbol' = FirstSymbol /\ tx_subframe' = 0
  BY DEF OtherThreads, InitialSync, SetOffset, Resync, SetAdvance, threadVars
<1>2. RadioType'
  <2>1. 0 \in 0 .. FRAME_LEN - 1
    BY AlignAssumption
  <2>2. mac_advance' \in Advances /\ tx_subframe' \in 0 .. FRAME_LEN - 1
    BY <1>1, <2>1 DEF PInv, RadioType
  <2> QED
    BY <1>1, <2>2 DEF PInv, RadioType, radioVars
<1>3. SymbolInv'
  <2>1. CASE synced # "no" /\ UNCHANGED <<tx_symbol, tx_subframe>>
    BY <2>1, <1>1 DEF PInv, SymbolInv
  <2>2. CASE synced = "no" /\ tx_symbol' = FirstSymbol
    <3>1. tx_pc = "wait"
      BY <2>2 DEF IInv, WaitInv
    <3> QED
      BY <2>2, <3>1, <1>1, ApartAssumption DEF SymbolInv
  <2> QED
    BY <1>1, <2>1, <2>2
<1>4. LengthInv' /\ DelayInv'
  BY <1>1 DEF PInv, LengthInv, DelayInv, radioVars
<1>5. EventInv'
  <2>1. CASE tx_pc # "second"
    BY <1>1, <2>1, PinUntouched
  <2>2. CASE tx_pc = "second"
    <3>1. synced # "no"
      BY <2>2 DEF IInv, WaitInv
    <3> QED
      BY <1>1, <3>1 DEF PInv, EventInv, Kept, gpioVars, radioVars
  <2> QED
    BY <2>1, <2>2
<1> QED
  BY <1>1, <1>2, <1>3, <1>4, <1>5, PinUntouched DEF PInv

LEMMA StartPInv ==
  ASSUME IInv, PInv, Start, UNCHANGED <<gpioVars, radioVars>>
  PROVE  PInv'
<1> USE DEF Start
<1>1. phy_rx_offset \in 0 .. buflen - 1
  BY DEF IInv, TypeInv
<1>2. RadioType'
  BY <1>1 DEF PInv, RadioType, radioVars
<1>3. SymbolInv' /\ LengthInv'
  BY DEF PInv, SymbolInv, LengthInv, radioVars
<1>4. DelayInv'
  BY DEF PInv, DelayInv, radioVars
<1> QED
  BY <1>2, <1>3, <1>4, PinUntouched DEF PInv

LEMMA CheckPInv ==
  ASSUME IInv, PInv, Check
  PROVE  PInv'
<1> USE DEF Check, CheckOffset
<1>0. SymLen \in Nat \ {0} /\ buflen = 2 * SymLen /\ buflen \in Nat \ {0}
  BY Lengths
<1>1. UNCHANGED <<gpioVars, radioVars>>
  OBVIOUS
<1>2. tx_shift \in Int /\ tx_symbol \in Int /\ Diff \in Int
  <2>1. TypeInv
    BY DEF IInv
  <2>2. tx_shift \in Int /\ tx_symbol \in Int
    BY <2>1 DEF TypeInv
  <2>3. mac_advance - timing_advance \in Int
    BY <2>1 DEF TypeInv
  <2>4. Nearest(phy_rx_offset - rx_offset) \in Int
    <3>1. buflen - 1 \in Int /\ -(buflen - 1) \in Int
      BY <1>0
    <3>2. phy_rx_offset \in Int /\ rx_offset \in Int
      BY <2>1, <3>1 DEF TypeInv
    <3>3. \A d \in Int : Nearest(d) \in Int
      BY <1>0 DEF Nearest
    <3> QED
      BY <3>2, <3>3
  <2> QED
    BY <2>2, <2>3, <2>4 DEF Diff
<1>3. \/ /\ tx_pc' = "record"
         /\ \E n \in Int : /\ tx_shift' \in 0 .. buflen - 1
                           /\ tx_symbol' = tx_symbol - 2 * n
      \/ tx_pc' = "first" /\ UNCHANGED <<tx_shift, tx_symbol>>
  <2>1. CASE tx_symbol >= CheckFrom /\ tx_subframe = 0 /\ Diff # 0
    <3> DEFINE d == tx_shift - Diff
    <3>1. d \in Int
      BY <1>2
    <3>2. d \div buflen \in Int /\ d % buflen \in 0 .. buflen - 1
      BY <3>1, <1>0, DivModInt
    <3>3. /\ tx_pc' = "record" /\ tx_shift' = d % buflen
          /\ tx_symbol' = tx_symbol - 2 * (d \div buflen)
      BY <2>1 DEF Adapt, SYMBOLS_PER_BUF
    <3> QED
      BY <3>2, <3>3
  <2>2. CASE ~(tx_symbol >= CheckFrom /\ tx_subframe = 0 /\ Diff # 0)
    BY <2>2
  <2> QED
    BY <2>1, <2>2
<1>4. RadioType'
  BY <1>1, <1>3 DEF PInv, RadioType, radioVars
<1>5. SymbolInv'
  <2>1. tx_pc' # "second" /\ synced' = synced /\ tx_pc = "check"
    BY <1>3
  <2>2. \A n \in Int : (tx_symbol - 2 * n) % 2 = tx_symbol % 2
    BY <1>2
  <2>3. tx_symbol' % 2 = tx_symbol % 2
    BY <1>3, <2>2
  <2> QED
    BY <2>1, <2>3 DEF PInv, SymbolInv
<1>6. LengthInv'
  BY <1>1, <1>3 DEF LengthInv, radioVars
<1>7. DelayInv'
  BY <1>1, <1>3 DEF PInv, DelayInv, radioVars
<1> QED
  BY <1>1, <1>3, <1>4, <1>5, <1>6, <1>7, PinUntouched DEF PInv

LEMMA SetDelayPInv ==
  ASSUME IInv, PInv, SetDelay
  PROVE  PInv'
<1> USE DEF SetDelay, Record
<1>1. tx_shift \in 0 .. buflen - 1 /\ Latency \in Nat /\ buflen \in Nat
  BY Lengths DEF PInv, RadioType
<1>2. RadioType'
  BY <1>1 DEF PInv, RadioType
<1>3. GpioType' /\ QueueInv' /\ DueInv'
  BY DEF PInv, GpioType, QueueInv, DueInv, Empty, Due, Kept, gpioVars
<1>4. SymbolInv' /\ LengthInv' /\ DelayInv'
  BY DEF PInv, SymbolInv, LengthInv, DelayInv
<1>5. EventInv' /\ AirInv'
  BY DEF PInv, EventInv, AirInv, Kept, gpioVars
<1> QED
  BY <1>2, <1>3, <1>4, <1>5 DEF PInv

LEMMA StutterPInv ==
  ASSUME PInv, UNCHANGED vars
  PROVE  PInv'
<1>1. UNCHANGED <<gpioVars, radioVars>> /\ UNCHANGED alignVars
  BY DEF vars
<1>2. RadioType' /\ SymbolInv' /\ LengthInv' /\ DelayInv'
  BY <1>1
  DEF PInv, RadioType, SymbolInv, LengthInv, DelayInv, alignVars, radioVars
<1>3. EventInv'
  BY <1>1 DEF PInv, EventInv, Kept, alignVars, radioVars, gpioVars
<1> QED
  BY <1>1, <1>2, <1>3, PinUntouched DEF PInv

---------------------------------------------------------------------------
(* Steps of the pin's thread.                                              *)
LEMMA AlignUntouched ==
  ASSUME PInv, UNCHANGED <<alignVars, radioVars>>
  PROVE  RadioType' /\ SymbolInv' /\ LengthInv' /\ DelayInv'
BY DEF PInv, RadioType, SymbolInv, LengthInv, DelayInv, alignVars, radioVars

(* The events, but for their order and those that are left out.            *)
LEMMA EventsAmong ==
  ASSUME PInv, UNCHANGED <<alignVars, radioVars>>, Kept' => Kept,
         \A i \in 1 .. Len(event_q') : \E k \in 1 .. Len(event_q) :
           event_q'[i] = event_q[k]
  PROVE  EventInv'
BY DEF PInv, EventInv, alignVars, radioVars

LEMMA RearmIs ==
  ASSUME NEW q \in Seq(Events), Rearm(q), Len(q) <= EVENT_QUEUE_LEN
  PROVE  /\ event_q' \in Reorderings(q) /\ event_q' \in Seq(Events)
         /\ Len(event_q') = Len(q) /\ Sorted(event_q')
         /\ next_event' \in Int
         /\ Empty' => q = <<>> /\ next_event' = Hour
         /\ ~Empty' => next_event' = Due'
         /\ pin_ctrl' \in {"waiting", "spinning", "stopped"}
         /\ ~stop => pin_ctrl' # "stopped"
         /\ \A i \in 1 .. Len(event_q') : \E k \in 1 .. Len(q) :
              event_q'[i] = q[k]
<1>1. PICK s \in Reorderings(q) :
        /\ Sorted(s) /\ event_q' = s
        /\ next_event' = IF q = <<>> THEN Hour ELSE s[Len(s)].left
        /\ pin_ctrl' = CASE stop -> "stopped"
                         [] ~stop /\ q # <<>> /\ s[Len(s)].whole -> "spinning"
                         [] OTHER -> "waiting"
  BY DEF Rearm
<1>2. /\ s \in Seq(Events) /\ Len(s) = Len(q)
      /\ \A i \in 1 .. Len(q) : \E k \in 1 .. Len(q) : s[i] = q[k]
  BY ReorderedIs
<1>3. s = <<>> <=> q = <<>>
  BY <1>2
<1>4. q # <<>> => s[Len(s)].left \in Int
  <2>1. q # <<>> => Len(s) \in 1 .. Len(s)
    BY <1>2, <1>3
  <2> QED
    BY <2>1, <1>2, EventIs
<1>5. next_event' \in Int
  BY <1>1, <1>4, Lengths
<1>6. /\ Empty' => q = <<>> /\ next_event' = Hour
      /\ ~Empty' => next_event' = Due'
  BY <1>1, <1>3 DEF Empty, Due
<1>7. /\ pin_ctrl' \in {"waiting", "spinning", "stopped"}
      /\ ~stop => pin_ctrl' # "stopped"
  BY <1>1
<1> QED
  BY <1>1, <1>2, <1>5, <1>6, <1>7

LEMMA TimeoutPInv ==
  ASSUME PInv, Timeout, UNCHANGED <<alignVars, radioVars>>
  PROVE  PInv'
<1> USE DEF Timeout
<1>1. Kept' => Kept /\ ~held
  BY DEF Kept, radioVars
<1>2. GpioType'
  BY DEF PInv, GpioType
<1>3. ~Empty
  <2>1. Empty => next_event > 0
    BY Lengths DEF PInv, QueueInv
  <2> QED
    BY <2>1, Lengths DEF PInv, GpioType
<1>4. QueueInv'
  BY <1>3 DEF PInv, QueueInv, Empty
<1>5. DueInv'
  BY <1>1, <1>3 DEF PInv, DueInv, QueueInv, Empty, Due
<1>6. EventInv' /\ AirInv'
  BY <1>1 DEF PInv, EventInv, AirInv, alignVars, radioVars
<1> QED
  BY <1>2, <1>4, <1>5, <1>6, AlignUntouched DEF PInv

LEMMA IdlePInv ==
  ASSUME PInv, IdleHour, UNCHANGED <<alignVars, radioVars>>
  PROVE  PInv'
<1> USE DEF IdleHour
<1>1. GpioType'
  BY DEF PInv, GpioType
<1>2. QueueInv' /\ DueInv'
  BY DEF PInv, QueueInv, DueInv, Empty, Due, Kept, Sorted, radioVars
<1>3. EventInv' /\ AirInv'
  BY DEF PInv, EventInv, AirInv, Kept, alignVars, radioVars
<1> QED
  BY <1>1, <1>2, <1>3, AlignUntouched DEF PInv

LEMMA SignalPInv ==
  ASSUME PInv, Signal, UNCHANGED <<alignVars, radioVars>>
  PROVE  PInv'
<1> USE DEF Signal
<1>1. GpioType'
  BY DEF PInv, GpioType
<1>2. QueueInv' /\ DueInv'
  BY DEF PInv, GpioType, QueueInv, DueInv, Empty, Due, Kept, radioVars
<1>3. EventInv' /\ AirInv'
  BY DEF PInv, EventInv, AirInv, Kept, alignVars, radioVars
<1> QED
  BY <1>1, <1>2, <1>3, AlignUntouched DEF PInv

LEMMA ReschedulePInv ==
  ASSUME PInv, Reschedule, UNCHANGED <<alignVars, radioVars>>
  PROVE  PInv'
<1>1. /\ Rearm(event_q) /\ UNCHANGED <<below, held, stop, pin, raced, dropped>>
      /\ event_q \in Seq(Events) /\ Len(event_q) <= EVENT_QUEUE_LEN
      /\ Kept' => Kept
  BY DEF Reschedule, PInv, GpioType, Kept, radioVars
<1>2. /\ event_q' \in Reorderings(event_q) /\ event_q' \in Seq(Events)
      /\ Len(event_q') = Len(event_q) /\ Sorted(event_q')
      /\ next_event' \in Int
      /\ Empty' => next_event' = Hour
      /\ ~Empty' => next_event' = Due'
      /\ pin_ctrl' \in {"waiting", "spinning", "stopped"}
      /\ ~stop => pin_ctrl' # "stopped"
      /\ \A i \in 1 .. Len(event_q') : \E k \in 1 .. Len(event_q) :
           event_q'[i] = event_q[k]
  BY <1>1, RearmIs
<1>3. GpioType'
  BY <1>1, <1>2 DEF PInv, GpioType
<1>4. QueueInv' /\ DueInv'
  BY <1>1, <1>2 DEF PInv, QueueInv, DueInv
<1>5. EventInv'
  BY <1>1, <1>2, EventsAmong
<1>6. AirInv'
  BY <1>1, <1>2, ReorderKeeps DEF PInv, AirInv, radioVars
<1> QED
  BY <1>3, <1>4, <1>5, <1>6, AlignUntouched DEF PInv

LEMMA HandleEventPInv ==
  ASSUME PInv, HandleEvent, UNCHANGED <<alignVars, radioVars>>
  PROVE  PInv'
<1>0. /\ pin_ctrl = "expired" /\ ~held
      /\ UNCHANGED <<held, stop, raced, dropped>>
      /\ event_q \in Seq(Events) /\ Len(event_q) <= EVENT_QUEUE_LEN
      /\ Kept' => Kept
  BY DEF HandleEvent, PInv, GpioType, Kept, radioVars
<1> DEFINE f == IF Empty THEN <<>> ELSE SubSeq(event_q, 1, Len(event_q) - 1)
<1>1. /\ f \in Seq(Events) /\ Len(f) <= EVENT_QUEUE_LEN
      /\ \A k \in 1 .. Len(f) : k \in 1 .. Len(event_q) /\ f[k] = event_q[k]
  <2>1. CASE Empty
    BY <2>1, <1>0 DEF Empty
  <2>2. CASE ~Empty
    <3>1. /\ Len(event_q) \in Nat /\ Len(event_q) >= 1
          /\ f \in Seq(Events) /\ Len(f) = Len(event_q) - 1
          /\ \A k \in 1 .. Len(event_q) - 1 : f[k] = event_q[k]
      BY <2>2, <1>0, FrontIs DEF Empty
    <3> QED
      BY <3>1, <1>0, GpioAssumption
  <2> QED
    BY <2>1, <2>2
<1>2. /\ Rearm(f)
      /\ Empty => below' = below + 1 /\ pin' = pin
      /\ ~Empty => below' = below /\ pin' = event_q[Len(event_q)].value
  BY DEF HandleEvent, Empty
<1>3. Kept => AirIs(air, f, pin') /\ LevelIs(f, pin', level)
  <2> SUFFICES ASSUME Kept PROVE AirIs(air, f, pin') /\ LevelIs(f, pin', level)
    OBVIOUS
  <2>0. AirIs(air, event_q, pin) /\ LevelIs(event_q, pin, level)
    BY DEF PInv, AirInv
  <2>1. CASE Empty
    BY <2>0, <2>1, <1>2 DEF Empty
  <2>2. CASE ~Empty
    <3>1. event_q # <<>> /\ Sorted(event_q) /\ event_q[Len(event_q)].left <= 0
      BY <2>2, <1>0 DEF PInv, DueInv, Empty, Due
    <3>2. /\ AirIs(air, SubSeq(event_q, 1, Len(event_q) - 1),
                   event_q[Len(event_q)].value)
          /\ LevelIs(SubSeq(event_q, 1, Len(event_q) - 1),
                     event_q[Len(event_q)].value, level)
      BY <3>1, <2>0, <1>0, LastHandled
    <3> QED
      BY <3>2, <2>2, <1>2
  <2> QED
    BY <2>1, <2>2
<1> HIDE DEF f
<1>4. /\ event_q' \in Reorderings(f) /\ event_q' \in Seq(Events)
      /\ Len(event_q') = Len(f) /\ Sorted(event_q')
      /\ next_event' \in Int
      /\ Empty' => next_event' = Hour
      /\ ~Empty' => next_event' = Due'
      /\ pin_ctrl' \in {"waiting", "spinning", "stopped"}
      /\ ~stop => pin_ctrl' # "stopped"
      /\ \A i \in 1 .. Len(event_q') : \E k \in 1 .. Len(f) :
           event_q'[i] = f[k]
  BY <1>1, <1>2, RearmIs
<1>5. GpioType'
  <2>1. pin' \in Levels
    <3>1. ~Empty => Len(event_q) \in 1 .. Len(event_q)
      BY <1>0 DEF Empty
    <3> QED
      BY <3>1, <1>0, <1>2, EventIs DEF PInv, GpioType
  <2>2. below' \in 0 .. MaxIdleHours
    BY <1>0, <1>2, GpioAssumption DEF PInv, GpioType, QueueInv
  <2> QED
    BY <1>0, <1>1, <1>4, <2>1, <2>2 DEF PInv, GpioType
<1>6. QueueInv' /\ DueInv'
  BY <1>0, <1>4 DEF PInv, QueueInv, DueInv
<1>7. EventInv'
  <2>1. \A i \in 1 .. Len(event_q') : \E k \in 1 .. Len(event_q) :
          event_q'[i] = event_q[k]
    BY <1>1, <1>4
  <2> QED
    BY <2>1, <1>0, EventsAmong
<1>8. AirInv'
  <2>1. level' = level /\ air' = air
    BY DEF radioVars
  <2>2. Kept => AirIs(air, event_q', pin') /\ LevelIs(event_q', pin', level)
    BY <1>1, <1>3, <1>4, ReorderKeeps
  <2> QED
    BY <2>1, <2>2, <1>0 DEF AirInv
<1> QED
  BY <1>5, <1>6, <1>7, <1>8, AlignUntouched DEF PInv
---------------------------------------------------------------------------
(* A sample is sent.                                                       *)
LEMMA TickPInv ==
  ASSUME PInv, Tick
  PROVE  PInv'
<1>1. /\ tx_pc = "check" /\ Len(air) > Latency /\ air' = Tail(air)
      /\ UNCHANGED <<level, ul_data_tx, ptt_delay, early>>
      /\ UNCHANGED alignVars
      /\ UNCHANGED <<below, pin_ctrl, held, stop, pin, raced, dropped>>
      /\ Kept' => Kept
  BY DEF Tick, Elapse, gpioVars, Kept
<1>2. /\ air \in Seq(Sample) /\ air # <<>> /\ Len(air) \in Nat
      /\ Tail(air) \in Seq(Sample) /\ Len(Tail(air)) = Len(air) - 1
  <2>1. air \in Seq(Sample)
    BY DEF PInv, RadioType
  <2>2. air # <<>>
    <3>1. Len(air) > 0
      BY <1>1, <2>1, Lengths
    <3> QED
      BY <3>1
  <2> QED
    BY <2>1, <2>2
<1>3. RadioType'
  BY <1>1, <1>2 DEF PInv, RadioType, alignVars
<1>4. SymbolInv' /\ DelayInv'
  BY <1>1 DEF PInv, SymbolInv, DelayInv, alignVars
<1>5. LengthInv'
  BY <1>1, <1>2, Lengths DEF PInv, LengthInv, alignVars
<1>6. CASE PinSettled /\ Elapse
  <2>1. /\ event_q \in Seq(Events) /\ event_q' = Passed(event_q)
        /\ next_event \in Int /\ ~held /\ pin_ctrl = "waiting"
        /\ next_event' = IF next_event = Hour THEN Hour ELSE next_event - 1
    BY <1>6 DEF Elapse, Passed, PinSettled, PInv, GpioType
  <2>2. /\ event_q' \in Seq(Events) /\ Len(event_q') = Len(event_q)
        /\ Len(event_q) \in Nat
        /\ \A k \in 1 .. Len(event_q) :
             /\ event_q'[k].left = event_q[k].left - 1
             /\ event_q[k].left \in Int
    <3>1. /\ Passed(event_q) \in Seq(Events)
          /\ Len(Passed(event_q)) = Len(event_q)
          /\ \A k \in 1 .. Len(event_q) :
               Passed(event_q)[k].left = event_q[k].left - 1
      BY <2>1, PassedIs
    <3>2. \A k \in 1 .. Len(event_q) : event_q[k].left \in Int
      BY <2>1, EventIs
    <3>3. Len(event_q) \in Nat
      BY <2>1
    <3> QED
      BY <2>1, <3>1, <3>2, <3>3
  <2>3. GpioType'
    <3>1. next_event' \in Int
      BY <2>1, Lengths
    <3> QED
      BY <1>1, <2>2, <3>1 DEF PInv, GpioType
  <2>4. Empty' <=> Empty
    BY <2>1, <2>2 DEF Empty
  <2>5. Sorted(event_q)
    BY <2>1 DEF PInv, QueueInv
  <2>6. Sorted(event_q')
    <3>1. /\ DOMAIN event_q = 1 .. Len(event_q)
          /\ DOMAIN event_q' = 1 .. Len(event_q)
      BY <2>1, <2>2
    <3> QED
      BY <3>1, <2>2, <2>5 DEF Sorted
  <2>7. EventInv'
    <3> SUFFICES ASSUME Kept', NEW k \in 1 .. Len(event_q')
                 PROVE  event_q'[k].left < Len(air')
      BY <1>1 DEF EventInv, alignVars
    <3>1. event_q[k].left < Len(air) /\ event_q[k].left \in Int
      BY <1>1, <2>2 DEF PInv, EventInv
    <3>2. event_q'[k].left = event_q[k].left - 1
      BY <2>2
    <3> QED
      BY <3>1, <3>2, <1>1, <1>2
  <2>8. QueueInv'
    <3>1. Empty => next_event' = Hour
      BY <2>1 DEF PInv, QueueInv
    <3>2. ASSUME Kept, ~Empty PROVE next_event' = Due'
      <4>1. Len(event_q) \in 1 .. Len(event_q)
        BY <3>2, <2>1 DEF Empty
      <4>2. next_event = Due /\ Due' = Due - 1
        BY <3>2, <4>1, <2>1, <2>2 DEF PInv, QueueInv, Due
      <4>3. next_event # Hour
        <5>1. Due < Len(air) /\ Len(air) <= Latency + buflen /\ Due \in Int
          BY <3>2, <4>1, <1>1, <2>2 DEF PInv, EventInv, LengthInv, Due
        <5> QED
          BY <5>1, <4>2, <1>2, Lengths
      <4> QED
        BY <4>2, <4>3, <2>1
    <3> QED
      BY <1>1, <2>1, <2>4, <2>6, <3>1, <3>2 DEF QueueInv
  <2>9. DueInv'
    BY <1>1, <2>1 DEF PInv, DueInv
  <2>10. AirInv'
    <3>1. Kept => AirIs(air, event_q, pin) /\ LevelIs(event_q, pin, level)
      BY DEF PInv, AirInv
    <3>2. Kept => /\ AirIs(Tail(air), Passed(event_q), pin)
                  /\ LevelIs(Passed(event_q), pin, level)
      BY <3>1, <2>1, <1>2, PassedKeeps
    <3> QED
      BY <3>2, <1>1, <2>1 DEF AirInv
  <2> QED
    BY <1>3, <1>4, <1>5, <2>3, <2>7, <2>8, <2>9, <2>10 DEF PInv
<1>7. CASE PinStopped /\ UNCHANGED gpioVars
  <2>1. ~Kept'
    BY <1>7, <1>1 DEF PInv, DueInv, PinStopped
  <2>2. GpioType' /\ QueueInv'
    <3>1. UNCHANGED gpioVars /\ pin_ctrl' = "stopped"
      BY <1>7 DEF PinStopped, gpioVars
    <3>2. GpioType'
      BY <3>1 DEF PInv, GpioType, gpioVars
    <3>3. QueueInv'
      BY <3>1 DEF PInv, QueueInv, Empty, gpioVars
    <3> QED
      BY <3>2, <3>3
  <2>3. DueInv' /\ EventInv' /\ AirInv'
    BY <2>1 DEF DueInv, EventInv, AirInv
  <2> QED
    BY <1>3, <1>4, <1>5, <2>2, <2>3 DEF PInv
<1> QED
  BY <1>6, <1>7 DEF Tick

---------------------------------------------------------------------------
(* Steps of the transmit thread: a symbol is written.                      *)
LEMMA LevelsAre ==
  ASSUME PInv, NEW l \in LevelsAt(tx_symbol)
  PROVE  /\ l \in Levels
         /\ l # level => SwitchesAt(tx_symbol) \/ tx_symbol >= SUBFRAME_LEN
BY DEF LevelsAt, SwitchesAt, Levels, PInv, RadioType

LEMMA AppendIs ==
  ASSUME PInv, PinIdle, NEW l \in Levels, AppendEvent(l, ptt_delay),
         early' = (early \/ ptt_delay < Latency)
  PROVE  /\ GpioType' /\ QueueInv' /\ DueInv'
         /\ Kept' => /\ Kept /\ ptt_delay >= Latency /\ pin' = pin
                     /\ \E e \in Events : /\ e.left = ptt_delay
                                          /\ e.value = l
                                          /\ event_q' = Append(event_q, e)
<1> USE DEF AppendEvent
<1>0. /\ event_q \in Seq(Events) /\ Len(event_q) <= EVENT_QUEUE_LEN
      /\ Len(event_q) \in Nat /\ EVENT_QUEUE_LEN \in Nat
      /\ below \in 0 .. MaxIdleHours /\ ptt_delay \in Nat /\ Latency \in Nat
      /\ UNCHANGED <<next_event, pin_ctrl, pin, raced>>
      /\ pin_ctrl # "expired"
  BY GpioAssumption, Lengths DEF PInv, GpioType, RadioType, PinIdle
<1>1. CASE Len(event_q) = EVENT_QUEUE_LEN
  <2>1. dropped' = TRUE /\ UNCHANGED <<event_q, below, held, stop>>
    BY <1>1
  <2>2. GpioType'
    BY <1>0, <2>1 DEF PInv, GpioType
  <2>3. QueueInv' /\ ~Kept'
    BY <1>0, <2>1 DEF PInv, QueueInv, Empty, Kept
  <2> QED
    BY <2>2, <2>3 DEF DueInv
<1>2. CASE Len(event_q) # EVENT_QUEUE_LEN /\ below > 0
  <2>1. /\ dropped' = TRUE /\ held' = TRUE /\ below' = below - 1
        /\ stop' \in {stop, TRUE} /\ event_q' = event_q
    BY <1>2
  <2>2. below' \in 0 .. MaxIdleHours
    BY <1>0, <1>2, <2>1, GpioAssumption
  <2>3. GpioType'
    BY <1>0, <2>1, <2>2 DEF PInv, GpioType
  <2>4. QueueInv' /\ ~Kept'
    BY <1>0, <2>1 DEF PInv, QueueInv, Empty, Kept
  <2> QED
    BY <2>3, <2>4 DEF DueInv
<1>3. CASE Len(event_q) # EVENT_QUEUE_LEN /\ ~(below > 0)
  <2>1. /\ held' = TRUE /\ UNCHANGED <<below, stop, dropped>>
        /\ \E w \in WholeSeconds :
             event_q' = Append(event_q, [value |-> l, left |-> ptt_delay,
                                         whole |-> w])
    BY <1>3
  <2>2. PICK e \in Events : /\ e.left = ptt_delay /\ e.value = l
                            /\ event_q' = Append(event_q, e)
    <3>1. PICK w \in BOOLEAN :
            event_q' = Append(event_q, [value |-> l, left |-> ptt_delay,
                                        whole |-> w])
      BY <2>1, GpioAssumption
    <3> DEFINE e == [value |-> l, left |-> ptt_delay, whole |-> w]
    <3>2. e \in Events /\ e.left = ptt_delay /\ e.value = l
      BY <1>0 DEF Events, Levels
    <3> QED
      BY <3>1, <3>2
  <2>3. /\ event_q' \in Seq(Events) /\ Len(event_q') = Len(event_q) + 1
        /\ event_q' # <<>>
    BY <2>2, <1>0
  <2>4. GpioType'
    BY <1>0, <1>3, <2>1, <2>3 DEF PInv, GpioType
  <2>5. QueueInv'
    BY <1>0, <2>1, <2>3 DEF PInv, QueueInv, Empty
  <2>6. Kept' => Kept /\ ptt_delay >= Latency
    <3>1. /\ early' = (early \/ ptt_delay < Latency)
          /\ raced' = raced /\ dropped' = dropped
      BY <1>0, <2>1
    <3>2. CASE ptt_delay < Latency
      BY <3>1, <3>2 DEF Kept
    <3>3. CASE ~(ptt_delay < Latency)
      <4>1. early' <=> early
        <5>1. early \in BOOLEAN
          BY DEF PInv, RadioType
        <5> QED
          BY <3>1, <3>3, <5>1
      <4>2. Kept' => Kept
        BY <4>1, <3>1 DEF Kept
      <4> QED
        BY <4>2, <3>3, <1>0
    <3> QED
      BY <3>2, <3>3
  <2>7. DueInv'
    BY <2>6, <1>0, <2>1 DEF PInv, DueInv
  <2> QED
    BY <2>2, <2>4, <2>5, <2>6, <2>7, <1>0
<1> QED
  BY <1>1, <1>2, <1>3

(* What writing a symbol does to the pin's events.                         *)
LEMMA WriteLevelIs ==
  ASSUME PInv, PinIdle, NEW l \in LevelsAt(tx_symbol), WriteLevel(l)
  PROVE  /\ GpioType' /\ QueueInv' /\ DueInv' /\ early' \in BOOLEAN
         /\ l \in Levels /\ level' = l /\ (Kept' => Kept /\ pin' = pin)
         /\ \/ /\ SwitchesAt(tx_symbol) \/ tx_symbol >= SUBFRAME_LEN
               /\ Kept' =>
                    /\ ptt_delay >= Latency
                    /\ \E e \in Events : /\ e.left = ptt_delay /\ e.value = l
                                         /\ event_q' = Append(event_q, e)
            \/ l = level /\ event_q' = event_q
<1>1. /\ l \in Levels
      /\ l # level => SwitchesAt(tx_symbol) \/ tx_symbol >= SUBFRAME_LEN
  BY LevelsAre
<1>2. CASE SwitchesAt(tx_symbol) \/ l # level
  <2>1. /\ AppendEvent(l, ptt_delay) /\ level' = l
        /\ early' = (early \/ ptt_delay < Latency)
    BY <1>2 DEF WriteLevel
  <2>2. early' \in BOOLEAN
    BY <2>1
  <2> QED
    BY <1>1, <1>2, <2>1, <2>2, AppendIs
<1>3. CASE ~(SwitchesAt(tx_symbol) \/ l # level)
  <2>1. UNCHANGED gpioVars /\ early' = early /\ level' = l /\ l = level
    BY <1>3 DEF WriteLevel
  <2>2. GpioType' /\ QueueInv' /\ DueInv'
    BY <2>1 DEF PInv, GpioType, QueueInv, DueInv, Empty, Due, Kept, gpioVars
  <2>3. /\ early' \in BOOLEAN /\ event_q' = event_q
        /\ Kept' => Kept /\ pin' = pin
    BY <2>1 DEF PInv, RadioType, Kept, gpioVars
  <2> QED
    BY <1>1, <2>1, <2>2, <2>3
<1> QED
  BY <1>2, <1>3

LEMMA ConcatIs ==
  ASSUME NEW S, NEW s \in Seq(S), NEW t \in Seq(S)
  PROVE  s \o t \in Seq(S) /\ Len(s \o t) = Len(s) + Len(t)
OBVIOUS

LEMMA NextSubframe ==
  ASSUME NEW s \in Int, NEW n \in Nat \ {0}
  PROVE  (s + 1) % n \in 0 .. n - 1
<1>1. s + 1 \in Int
  OBVIOUS
<1> QED
  BY <1>1, DivModInt

LEMMA Parity ==
  ASSUME NEW s \in Int
  PROVE  /\ s % 2 = 1 => (s + 1) % 2 = 0
         /\ s % 2 = 0 => (s + 1) % 2 = 1
OBVIOUS

LEMMA WriteFirstPInv ==
  ASSUME IInv, PInv, PinIdle, WriteFirst
  PROVE  PInv'
<1>1. PICK l \in LevelsAt(tx_symbol) :
        WriteLevel(l) /\ ul_data_tx' = [ul_data_tx EXCEPT ![1] = l]
  BY DEF WriteFirst
<1> DEFINE new == Samples(ul_data_tx, level, buflen - tx_shift, buflen)
<1>2. /\ tx_pc = "first" /\ tx_pc' = "second" /\ Len(air) = Latency
      /\ air' = air \o new /\ ptt_delay' = ptt_delay
      /\ UNCHANGED <<mac_advance, timing_advance, tx_shift, synced>>
      /\ IF tx_symbol + 1 >= SUBFRAME_LEN
           THEN /\ tx_symbol' = 0
                /\ tx_subframe' = (tx_subframe + 1) % FRAME_LEN
           ELSE tx_symbol' = tx_symbol + 1 /\ tx_subframe' = tx_subframe
  BY DEF WriteFirst, WriteSymbol
<1>3. /\ GpioType' /\ QueueInv' /\ DueInv' /\ early' \in BOOLEAN
      /\ l \in Levels /\ level' = l /\ (Kept' => Kept /\ pin' = pin)
      /\ \/ /\ SwitchesAt(tx_symbol) \/ tx_symbol >= SUBFRAME_LEN
            /\ Kept' =>
                 /\ ptt_delay >= Latency
                 /\ \E e \in Events : /\ e.left = ptt_delay /\ e.value = l
                                      /\ event_q' = Append(event_q, e)
         \/ l = level /\ event_q' = event_q
  BY <1>1, WriteLevelIs
<1>4. /\ tx_shift \in Int /\ 0 <= tx_shift /\ tx_shift < buflen
      /\ air \in Seq(Sample) /\ event_q \in Seq(Events)
      /\ level \in Levels /\ ul_data_tx \in [1 .. 2 -> Levels]
      /\ tx_subframe \in 0 .. FRAME_LEN - 1 /\ ptt_delay \in Nat
      /\ tx_symbol \in Int /\ tx_symbol % 2 = 1
      /\ SUBFRAME_LEN \in Nat \ {0} /\ FRAME_LEN \in Nat \ {0}
  <2>1. tx_symbol \in Int
    BY DEF IInv, TypeInv
  <2>2. synced # "no"
    BY <1>2 DEF IInv, WaitInv
  <2>3. tx_symbol % 2 = 1
    BY <2>2, <1>2 DEF PInv, SymbolInv
  <2>4. tx_shift \in Int /\ 0 <= tx_shift /\ tx_shift < buflen
    BY Lengths DEF PInv, RadioType
  <2> QED
    BY <2>1, <2>3, <2>4, AlignAssumption DEF PInv, RadioType, GpioType
<1>5. /\ new \in Seq(Sample) /\ Len(new) = tx_shift
      /\ \A i \in 1 .. Len(new) : new[i].buffer = level
  <2>1. /\ buflen - tx_shift \in Int /\ 0 <= buflen - tx_shift
        /\ buflen - tx_shift <= buflen /\ buflen \in Int
        /\ buflen - (buflen - tx_shift) = tx_shift
    BY <1>4, Lengths
  <2> QED
    BY <2>1, <1>4, SamplesAre
<1> HIDE DEF new
<1>6. air' \in Seq(Sample) /\ Len(air') = Latency + tx_shift
  <2>1. air \o new \in Seq(Sample) /\ Len(air \o new) = Len(air) + Len(new)
    BY <1>4, <1>5, ConcatIs
  <2> QED
    BY <2>1, <1>2, <1>5
<1>7. RadioType'
  <2>1. (tx_subframe + 1) % FRAME_LEN \in 0 .. FRAME_LEN - 1
    BY <1>4, NextSubframe
  <2>2. tx_subframe' \in 0 .. FRAME_LEN - 1
    BY <2>1, <1>2, <1>4
  <2>3. ul_data_tx' \in [1 .. 2 -> Levels]
    BY <1>1, <1>3, <1>4
  <2> QED
    BY <1>2, <1>3, <1>6, <2>2, <2>3 DEF PInv, RadioType
<1>8. SymbolInv'
  <2>1. tx_symbol' % 2 = 0 /\ tx_symbol' < SUBFRAME_LEN
    <3>1. (tx_symbol + 1) % 2 = 0
      BY <1>4, Parity
    <3>2. CASE tx_symbol + 1 >= SUBFRAME_LEN
      BY <3>2, <1>2, <1>4
    <3>3. CASE ~(tx_symbol + 1 >= SUBFRAME_LEN)
      BY <3>1, <3>3, <1>2, <1>4
    <3> QED
      BY <3>2, <3>3
  <2> QED
    BY <2>1, <1>2 DEF SymbolInv
<1>9. LengthInv' /\ DelayInv'
  BY <1>2, <1>6 DEF PInv, LengthInv, DelayInv
<1>10. SwitchesAt(tx_symbol) \/ tx_symbol >= SUBFRAME_LEN
         => ~SwitchesAt(tx_symbol')
  <2>1. CASE tx_symbol + 1 >= SUBFRAME_LEN
    BY <2>1, <1>2, ApartAssumption
  <2>2. CASE ~(tx_symbol + 1 >= SUBFRAME_LEN)
    <3>1. SwitchesAt(tx_symbol) => tx_symbol \in 0 .. SUBFRAME_LEN - 1
      BY PttAssumption DEF SwitchesAt
    <3>2. SwitchesAt(tx_symbol) => tx_symbol \in 1 .. SUBFRAME_LEN
      BY <3>1, <1>4
    <3> QED
      BY <2>2, <3>2, <1>2, <1>4, ApartAssumption
  <2> QED
    BY <2>1, <2>2
<1>11. Kept' =>
         /\ \A k \in 1 .. Len(event_q) :
              event_q[k].left < Latency /\ event_q[k].left \in Int
         /\ AirIs(air', event_q, pin) /\ LevelIs(event_q, pin, level)
  <2> SUFFICES ASSUME Kept'
               PROVE  /\ \A k \in 1 .. Len(event_q) :
                           /\ event_q[k].left < Latency
                           /\ event_q[k].left \in Int
                      /\ AirIs(air', event_q, pin)
                      /\ LevelIs(event_q, pin, level)
    OBVIOUS
  <2>1. \A k \in 1 .. Len(event_q) : event_q[k].left < Latency
    BY <1>2, <1>3 DEF PInv, EventInv
  <2>2. \A k \in 1 .. Len(event_q) : event_q[k].left \in Int
    BY <1>4, EventIs
  <2>3. DueBy(event_q, Len(air))
    BY <2>1, <2>2, <1>2, Lengths DEF DueBy
  <2>4. AirIs(air, event_q, pin) /\ LevelIs(event_q, pin, level)
    BY <1>3 DEF PInv, AirInv
  <2>5. AirIs(air \o new, event_q, pin)
    BY <2>3, <2>4, <1>4, <1>5, LevelLasts
  <2> QED
    BY <2>1, <2>2, <2>4, <2>5, <1>2
<1>12. CASE l = level /\ event_q' = event_q
  <2>1. EventInv'
    BY <1>11, <1>12, <1>2 DEF EventInv
  <2>2. AirInv'
    BY <1>11, <1>12, <1>3 DEF AirInv
  <2> QED
    BY <1>3, <1>7, <1>8, <1>9, <2>1, <2>2 DEF PInv
<1>13. CASE /\ SwitchesAt(tx_symbol) \/ tx_symbol >= SUBFRAME_LEN
            /\ Kept' =>
                 /\ ptt_delay >= Latency
                 /\ \E e \in Events : /\ e.left = ptt_delay /\ e.value = l
                                      /\ event_q' = Append(event_q, e)
  <2> SUFFICES ASSUME Kept' PROVE EventInv' /\ AirInv'
    BY <1>3, <1>7, <1>8, <1>9 DEF PInv, EventInv, AirInv
  <2>1. PICK e \in Events : /\ e.left = ptt_delay /\ e.value = l
                            /\ event_q' = Append(event_q, e)
    BY <1>13
  <2>2. e.left = Latency + tx_shift /\ ~SwitchesAt(tx_symbol')
    BY <2>1, <1>13, <1>10, <1>2, <1>4, Lengths DEF PInv, DelayInv
  <2>3. EventInv'
    <3> SUFFICES ASSUME NEW k \in 1 .. Len(event_q')
                 PROVE  \/ event_q'[k].left < Latency
                        \/ event_q'[k].left <= Latency + tx_shift
      BY <1>2, <2>2 DEF EventInv
    <3>1. CASE k \in 1 .. Len(event_q)
      BY <3>1, <2>1, <1>4, <1>11
    <3>2. CASE k \notin 1 .. Len(event_q)
      <4>1. event_q'[k] = e
        BY <3>2, <2>1, <1>4
      <4> QED
        BY <4>1, <2>2, <1>4, Lengths
    <3> QED
      BY <3>1, <3>2
  <2>4. \A k \in 1 .. Len(event_q) : event_q[k].left < e.left
    BY <2>2, <1>11, <1>4, Lengths
  <2>5. e.left >= Len(air')
    BY <2>2, <1>6, <1>4, Lengths
  <2>6. AirIs(air', event_q', pin) /\ LevelIs(event_q', pin, e.value)
    BY <2>1, <2>4, <2>5, <1>4, <1>6, <1>11, NewEvent
  <2>7. AirInv'
    BY <2>1, <2>6, <1>3 DEF AirInv
  <2> QED
    BY <2>3, <2>7
<1> QED
  BY <1>3, <1>12, <1>13

LEMMA WriteSecondPInv ==
  ASSUME IInv, PInv, PinIdle, WriteSecond
  PROVE  PInv'
<1>1. PICK l \in LevelsAt(tx_symbol) :
        WriteLevel(l) /\ ul_data_tx' = [ul_data_tx EXCEPT ![2] = l]
  BY DEF WriteSecond
<1> DEFINE new == Samples(ul_data_tx', level', 0, buflen - tx_shift)
<1>2. /\ tx_pc = "second" /\ tx_pc' = "check"
      /\ air' = air \o new /\ ptt_delay' = ptt_delay
      /\ UNCHANGED <<mac_advance, timing_advance, tx_shift, synced>>
      /\ IF tx_symbol + 1 >= SUBFRAME_LEN
           THEN /\ tx_symbol' = 0
                /\ tx_subframe' = (tx_subframe + 1) % FRAME_LEN
           ELSE tx_symbol' = tx_symbol + 1 /\ tx_subframe' = tx_subframe
  BY DEF WriteSecond, WriteSymbol
<1>3. /\ GpioType' /\ QueueInv' /\ DueInv' /\ early' \in BOOLEAN
      /\ l \in Levels /\ level' = l /\ (Kept' => Kept /\ pin' = pin)
      /\ \/ /\ SwitchesAt(tx_symbol) \/ tx_symbol >= SUBFRAME_LEN
            /\ Kept' =>
                 /\ ptt_delay >= Latency
                 /\ \E e \in Events : /\ e.left = ptt_delay /\ e.value = l
                                      /\ event_q' = Append(event_q, e)
         \/ l = level /\ event_q' = event_q
  BY <1>1, WriteLevelIs
<1>4. /\ tx_shift \in Int /\ 0 <= tx_shift /\ tx_shift < buflen
      /\ air \in Seq(Sample) /\ event_q \in Seq(Events)
      /\ Len(air) = Latency + tx_shift
      /\ ul_data_tx \in [1 .. 2 -> Levels]
      /\ tx_subframe \in 0 .. FRAME_LEN - 1 /\ ptt_delay \in Nat
      /\ tx_symbol \in Int /\ tx_symbol % 2 = 0 /\ tx_symbol < SUBFRAME_LEN
      /\ SUBFRAME_LEN \in Nat \ {0} /\ FRAME_LEN \in Nat \ {0}
      /\ SUBFRAME_LEN % 2 = 0
  <2>1. tx_symbol \in Int
    BY DEF IInv, TypeInv
  <2>2. /\ tx_symbol % 2 = 0 /\ tx_symbol < SUBFRAME_LEN
        /\ Len(air) = Latency + tx_shift
    BY <1>2 DEF PInv, SymbolInv, LengthInv
  <2>3. tx_shift \in Int /\ 0 <= tx_shift /\ tx_shift < buflen
    BY Lengths DEF PInv, RadioType
  <2> QED
    BY <2>1, <2>2, <2>3, AlignAssumption, ApartAssumption
    DEF PInv, RadioType, GpioType
<1>5. ul_data_tx' \in [1 .. 2 -> Levels]
  BY <1>1, <1>3, <1>4
<1>6. /\ new \in Seq(Sample) /\ Len(new) = buflen - tx_shift
      /\ \A i \in 1 .. Len(new) : new[i].buffer = l
  <2>1. /\ buflen - tx_shift \in Int /\ 0 <= buflen - tx_shift
        /\ buflen - tx_shift <= buflen
        /\ (buflen - tx_shift) - 0 = buflen - tx_shift
    BY <1>4, Lengths
  <2> QED
    BY <2>1, <1>3, <1>5, SamplesAre
<1> HIDE DEF new
<1>7. air' \in Seq(Sample) /\ Len(air') = Latency + buflen
  <2>1. air \o new \in Seq(Sample) /\ Len(air \o new) = Len(air) + Len(new)
    BY <1>4, <1>6, ConcatIs
  <2>2. (Latency + tx_shift) + (buflen - tx_shift) = Latency + buflen
    BY <1>4, Lengths
  <2> QED
    BY <2>1, <2>2, <1>2, <1>4, <1>6
<1>8. RadioType'
  <2>1. (tx_subframe + 1) % FRAME_LEN \in 0 .. FRAME_LEN - 1
    BY <1>4, NextSubframe
  <2>2. tx_subframe' \in 0 .. FRAME_LEN - 1
    BY <2>1, <1>2, <1>4
  <2> QED
    BY <1>2, <1>3, <1>5, <1>7, <2>2 DEF PInv, RadioType
<1>9. SymbolInv'
  <2>1. (tx_symbol + 1) % 2 = 1
    BY <1>4, Parity
  <2>2. tx_symbol' % 2 = 1
    <3>1. ~(tx_symbol + 1 >= SUBFRAME_LEN)
      BY <1>4
    <3> QED
      BY <2>1, <3>1, <1>2
  <2> QED
    BY <2>2, <1>2 DEF SymbolInv
<1>10. LengthInv' /\ DelayInv'
  BY <1>2, <1>7, Lengths DEF PInv, LengthInv, DelayInv
<1>11. Kept' => /\ AirIs(air, event_q, pin) /\ LevelIs(event_q, pin, level)
                /\ \A k \in 1 .. Len(event_q) : event_q[k].left \in Int
  BY <1>3, <1>4, EventIs DEF PInv, AirInv
<1>12. CASE l = level /\ event_q' = event_q
  <2> SUFFICES ASSUME Kept' PROVE EventInv' /\ AirInv'
    BY <1>3, <1>8, <1>9, <1>10 DEF PInv, EventInv, AirInv
  <2>1. \A k \in 1 .. Len(event_q) : event_q[k].left <= Latency + tx_shift
    BY <1>2, <1>3, <1>4, <1>11, Lengths DEF PInv, EventInv
  <2>2. EventInv'
    BY <2>1, <1>2, <1>4, <1>7, <1>11, <1>12, Lengths DEF EventInv
  <2>3. DueBy(event_q, Len(air))
    BY <2>1, <1>4 DEF DueBy
  <2>4. AirIs(air \o new, event_q, pin)
    BY <2>3, <1>4, <1>6, <1>11, <1>12, LevelLasts
  <2>5. AirInv'
    BY <2>4, <1>2, <1>3, <1>11, <1>12 DEF AirInv
  <2> QED
    BY <2>2, <2>5
<1>13. CASE /\ SwitchesAt(tx_symbol) \/ tx_symbol >= SUBFRAME_LEN
            /\ Kept' =>
                 /\ ptt_delay >= Latency
                 /\ \E e \in Events : /\ e.left = ptt_delay /\ e.value = l
                                      /\ event_q' = Append(event_q, e)
  <2> SUFFICES ASSUME Kept' PROVE EventInv' /\ AirInv'
    BY <1>3, <1>8, <1>9, <1>10 DEF PInv, EventInv, AirInv
  <2>1. PICK e \in Events : /\ e.left = ptt_delay /\ e.value = l
                            /\ event_q' = Append(event_q, e)
    BY <1>13
  <2>2. e.left = Latency + tx_shift
    BY <2>1, <1>13, <1>2, <1>4, Lengths DEF PInv, DelayInv
  <2>3. SwitchesAt(tx_symbol)
    BY <1>4, <1>13
  <2>4. \A k \in 1 .. Len(event_q) : event_q[k].left < Latency
    BY <2>3, <1>2, <1>3 DEF PInv, EventInv
  <2>5. \A k \in 1 .. Len(event_q) : event_q[k].left < e.left
    BY <2>2, <2>4, <1>11, <1>4, Lengths
  <2>6. /\ event_q' \in Seq(Events)
        /\ \A k \in 1 .. Len(event_q') :
             event_q'[k].left <= Latency + tx_shift /\ event_q'[k].left \in Int
    <3>1. event_q' \in Seq(Events)
      BY <2>1, <1>4
    <3> SUFFICES ASSUME NEW k \in 1 .. Len(event_q')
                 PROVE  /\ event_q'[k].left <= Latency + tx_shift
                        /\ event_q'[k].left \in Int
      BY <3>1
    <3>2. CASE k \in 1 .. Len(event_q)
      BY <3>2, <2>1, <2>2, <2>5, <1>4, <1>11, Lengths
    <3>3. CASE k \notin 1 .. Len(event_q)
      <4>1. event_q'[k] = e
        BY <3>3, <2>1, <1>4
      <4> QED
        BY <4>1, <2>2, <1>4, Lengths
    <3> QED
      BY <3>2, <3>3
  <2>7. EventInv'
    BY <2>6, <1>2, <1>4, <1>7, Lengths DEF EventInv
  <2>8. e.left >= Len(air)
    BY <2>2, <1>4, Lengths
  <2>9. AirIs(air, event_q', pin) /\ LevelIs(event_q', pin, l)
    BY <2>1, <2>5, <2>8, <1>4, <1>11, NewEvent
  <2>10. DueBy(event_q', Len(air))
    BY <2>6, <1>4 DEF DueBy
  <2>11. AirIs(air \o new, event_q', pin)
    BY <2>6, <2>9, <2>10, <1>4, <1>6, LevelLasts
  <2>12. AirInv'
    BY <2>9, <2>11, <1>2, <1>3 DEF AirInv
  <2> QED
    BY <2>7, <2>12
<1> QED
  BY <1>3, <1>12, <1>13

---------------------------------------------------------------------------
LEMMA PInvAlways == Spec => [](IInv /\ PInv)
<1>1. IInv /\ PInv /\ [Next]_vars => PInv'
  <2> SUFFICES ASSUME IInv, PInv, [Next]_vars PROVE PInv'
    OBVIOUS
  <2>1. CASE TxThreadStep
    <3>1. PinIdle /\ TxThread
      BY <2>1 DEF TxThreadStep
    <3>2. CASE Start /\ UNCHANGED <<gpioVars, radioVars>>
      BY <3>2, StartPInv
    <3>3. CASE WriteFirst
      BY <3>1, <3>3, WriteFirstPInv
    <3>4. CASE WriteSecond
      BY <3>1, <3>4, WriteSecondPInv
    <3>5. CASE Check
      BY <3>5, CheckPInv
    <3>6. CASE SetDelay
      BY <3>6, SetDelayPInv
    <3> QED
      BY <3>1, <3>2, <3>3, <3>4, <3>5, <3>6 DEF TxThread
  <2>2. CASE PinIdle /\ OtherThreads
    BY <2>2, OtherThreadsPInv
  <2>3. CASE Pin
    BY <2>3, TimeoutPInv, HandleEventPInv, ReschedulePInv, SignalPInv
    DEF Pin, PinThread
  <2>4. CASE WaitHour
    BY <2>4, IdlePInv DEF WaitHour
  <2>5. CASE Tick
    BY <2>5, TickPInv
  <2>6. CASE Spin \/ UNCHANGED vars
    BY <2>6, StutterPInv DEF Spin
  <2> QED
    BY <2>1, <2>2, <2>3, <2>4, <2>5, <2>6 DEF Next
<1> QED
  BY InitPInv, RadioImplementsAlign, IInvAlways, <1>1, PTL DEF Spec

(* For every length of the buffers and of the queue of events: the clocks  *)
(* and counters of transmit thread, radio and pin stay in range, the pin's *)
(* queue does not overflow, and no more samples are on their way than the  *)
(* buffers hold.                                                           *)
THEOREM RadioTypeCorrect == Spec => []TypeOK
<1>1. IInv /\ PInv => TypeOK
  <2> SUFFICES ASSUME IInv, PInv PROVE TypeOK
    OBVIOUS
  <2>1. Len(air) <= Latency + buflen
    BY Lengths DEF PInv, LengthInv, RadioType
  <2> QED
    BY <2>1 DEF IInv, TypeInv, PInv, RadioType, GpioType, Sample, TypeOK
<1> QED
  BY <1>1, PInvAlways, PTL

(* For all lengths of symbols and buffers and any number of buffers on     *)
(* their way, whatever the offset and the advance do: when a sample is     *)
(* sent the pin has the level that the PTT symbols up to its buffer have   *)
(* set (client.c:182-233, pluto_gpio.c:165-240).                           *)
THEOREM PinAlwaysFollowsAir == Spec => []PinFollowsAir
<1>1. IInv /\ PInv => PinFollowsAir
  <2> SUFFICES ASSUME PInv, InTime PROVE pin = Head(air).buffer
    BY DEF PinFollowsAir
  <2>1. Kept /\ ~PinStopped
    BY DEF InTime, Kept, PInv, DueInv, PinStopped
  <2>2. PinSettled /\ Len(air) > Latency
    BY <2>1 DEF InTime, Sending
  <2>3. air \in Seq(Sample) /\ event_q \in Seq(Events)
    BY DEF PInv, RadioType, GpioType
  <2>4. 1 \in 1 .. Len(air) /\ Head(air) = air[1]
    BY <2>2, <2>3, Lengths
  <2>5. \A k \in 1 .. Len(event_q) : event_q[k].left > 1 - 1
    <3> TAKE k \in 1 .. Len(event_q)
    <3>1. /\ event_q # <<>> /\ Len(event_q) \in Nat
          /\ Len(event_q) \in 1 .. Len(event_q)
          /\ DOMAIN event_q = 1 .. Len(event_q)
      BY <2>3
    <3>2. Sorted(event_q) /\ event_q[Len(event_q)].left > 0
      BY <2>1, <2>2, <3>1 DEF PInv, QueueInv, PinSettled, Empty, Due
    <3>3. event_q[k].left \in Int /\ event_q[Len(event_q)].left \in Int
      BY <2>3, <3>1, EventIs
    <3>4. k < Len(event_q) => event_q[k].left >= event_q[Len(event_q)].left
      BY <3>1, <3>2 DEF Sorted
    <3> QED
      BY <3>1, <3>2, <3>3, <3>4
  <2>6. AirIs(air, event_q, pin)
    BY <2>1 DEF PInv, AirInv
  <2> QED
    BY <2>4, <2>5, <2>6 DEF AirIs
<1> QED
  BY <1>1, PInvAlways, PTL
===========================================================================
