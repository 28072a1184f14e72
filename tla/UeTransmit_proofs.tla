------------------------ MODULE UeTransmit_proofs ------------------------
(***************************************************************************)
(* Proofs about UeTransmit, for slots of any length from 5 symbols, any    *)
(* even number of subframes, whatever slots are given in whatever order,   *)
(* whenever the scheduler runs, and any number of sessions.                *)
(***************************************************************************)
EXTENDS UeTransmit, TLAPS

Last == SUBFRAME_LEN - 1
Current == tx_subframe % 2
On == {"DATA", "PTT_UP"}

(* What a row holds between two slots that lie side by side: l and r say   *)
(* whether the one before and the one behind are given.                    *)
Used(b) == IF b THEN "DATA" ELSE "NOT_USED"
Gap(l, r, joined) ==
  IF l /\ r THEN joined
  ELSE IF l THEN "PTT_DOWN" ELSE IF r THEN "PTT_UP" ELSE "NOT_USED"

(* A row that has been filled for the slots S and the control slots C, of  *)
(* which there is at most one.                                             *)
Row(S, C) ==
  [n \in Symbols |->
     IF n < SLOT_LEN THEN Used(0 \in S)
     ELSE IF n = SLOT_LEN THEN Gap(0 \in S, 1 \in S, "DATA")
     ELSE IF n <= 2 * SLOT_LEN THEN Used(1 \in S)
     ELSE IF n = 2 * SLOT_LEN + 1 THEN Gap(1 \in S, 0 \in C, "PTT_DOWN")
     ELSE IF n = 2 * SLOT_LEN + 2 THEN Used(0 \in C)
     ELSE IF n = 2 * SLOT_LEN + 3 THEN Gap(0 \in C, 1 \in C, "DATA")
     ELSE IF n = 2 * SLOT_LEN + 4 THEN Used(1 \in C)
     ELSE IF n = 2 * SLOT_LEN + 5 THEN Gap(1 \in C, 2 \in S, "PTT_UP")
     ELSE IF n <= 3 * SLOT_LEN + 5 THEN Used(2 \in S)
     ELSE IF n = 3 * SLOT_LEN + 6 THEN Gap(2 \in S, 3 \in S, "DATA")
     ELSE IF n <= 4 * SLOT_LEN + 6 THEN Used(3 \in S)
     ELSE Gap(3 \in S, FALSE, "DATA")]

(* Everything that the base station may give.                              *)
AllGrants ==
  {g \in [slots : SUBSET Slots, ctrl : {{}, {0}, {1}}] :
     Ctrl0After1 \/ ~(1 \in g.slots /\ 0 \in g.ctrl)}

(* A row holds what it was filled for, an old one something that was given *)
(* once.  Its last symbol may since have been set for slot 0 of the next.  *)
Filled(row, g) == \A n \in Symbols \ {Last} : row[n] = Row(g.slots, g.ctrl)[n]
RowInv ==
  \A p \in 0 .. 1 :
    /\ fresh[p] => granted[p] \in AllGrants /\ Filled(alloc[p], granted[p])
    /\ \E g \in AllGrants : Filled(alloc[p], g)
    /\ alloc[p][Last] = "DATA" => alloc[p][Last - 1] = "DATA"

(* Slot 0 of the subframe to come, or of the one that begins.              *)
SlotZeroFollows == fresh[1 - Current] /\ 0 \in granted[1 - Current].slots
SlotZeroBegins == fresh[Current] /\ 0 \in granted[Current].slots

(* The last symbol of a row: the scheduler sets that of the current row    *)
(* with slot 0 of the next one.                                            *)
LastInv ==
  /\ fresh[Current] /\ (due \/ ~SlotZeroFollows) =>
       alloc[Current][Last] = Gap(3 \in granted[Current].slots, FALSE, "DATA")
  /\ ~due /\ fresh[1 - Current] =>
       alloc[1 - Current][Last] =
         Gap(3 \in granted[1 - Current].slots, FALSE, "DATA")
  /\ ~due /\ SlotZeroFollows => alloc[Current][Last] \in On
  /\ tx_symbol = 0 /\ SlotZeroBegins => alloc[1 - Current][Last] \in On
  /\ tx_symbol = 0 /\ fresh[1 - Current] /\ alloc[1 - Current][Last] \in On =>
       SlotZeroBegins

(* The scheduler has run before the last symbol.                           *)
DueInv ==
  /\ tx_symbol = Last => ~due
  /\ ~is_associated => steady = 0

(* What the symbol written last was in its row.                            *)
Written == alloc[PrevParity][Prev]
SentInv == sent = "data" => Written = "DATA"
OffInv ==
  is_associated /\ ptt = "tx" /\ ~disturbed => fresh[PrevParity] /\ Written \in On

IInv == TypeOK /\ RowInv /\ LastInv /\ DueInv /\ SentInv /\ OffInv

(* The transmitter is on behind a symbol that needs it.  Behind slots 0    *)
(* and 1 this takes a row that is fresh, and with it the row before.       *)
OnInv ==
  is_associated /\ steady >= 1 =>
    /\ tx_symbol >= 1 /\ Written = "PTT_UP" => ptt = "tx"
    /\ tx_symbol >= 1 /\ Written = "DATA"
         /\ (Prev > 2 * SLOT_LEN + 1 \/ (fresh[Current] /\ steady = 2)) => ptt = "tx"
    /\ tx_symbol = 0 /\ steady = 2 /\ Written \in On => ptt = "tx"

---------------------------------------------------------------------------
(* The rows that the scheduler fills. *)

(* Where the slots and control slots begin and end.                        *)
LEMMA Layout ==
  /\ SLOT_LEN \in Nat /\ SLOT_LEN >= 5
  /\ SUBFRAME_LEN = 4 * SLOT_LEN + 8 /\ Last = 4 * SLOT_LEN + 7
  /\ Symbols = 0 .. 4 * SLOT_LEN + 7
  /\ FirstSymb(0) = 0 /\ LastSymb(0) = SLOT_LEN - 1
  /\ FirstSymb(1) = SLOT_LEN + 1 /\ LastSymb(1) = 2 * SLOT_LEN
  /\ FirstSymb(2) = 2 * SLOT_LEN + 6 /\ LastSymb(2) = 3 * SLOT_LEN + 5
  /\ FirstSymb(3) = 3 * SLOT_LEN + 7 /\ LastSymb(3) = 4 * SLOT_LEN + 6
  /\ CtrlSymb(0) = 2 * SLOT_LEN + 2 /\ CtrlSymb(1) = 2 * SLOT_LEN + 4
  /\ RunSymbol = 2 * SLOT_LEN + 4
BY TransmitAssumption
   DEF SUBFRAME_LEN, NUM_SLOT, Last, Symbols, FirstSymb, LastSymb, CtrlSymb, RunSymbol

Rows == [0 .. 1 -> [Symbols -> Alloc]]

(* Row p of a holds the slots S and the control slots C.                   *)
Holds(a, p, S, C) == a \in Rows /\ \A n \in Symbols : a[p][n] = Row(S, C)[n]

(* Row p of b is that of a.                                                *)
Same(a, b, p) == \A n \in Symbols : b[p][n] = a[p][n]

(* Row p of b is that of a but for the last symbol, which has been set for *)
(* slot 0 of the next row.                                                 *)
Joined(a, b, p) ==
  /\ \A n \in Symbols \ {Last} : b[p][n] = a[p][n]
  /\ b[p][Last] = UpOrJoin(a[p][Last - 1])

(* Row p of a becomes r, or its symbol x becomes v; the other row stays.    *)
PutRow(a, p, r) == [a EXCEPT ![p] = r]
PutSymbol(a, p, x, v) == [a EXCEPT ![p][x] = v]

LEMMA PutRowIs ==
  ASSUME NEW a \in Rows, NEW p \in 0 .. 1, NEW q \in 0 .. 1, q # p,
         NEW r \in [Symbols -> Alloc]
  PROVE  /\ PutRow(a, p, r) \in Rows
         /\ PutRow(a, p, r)[p] = r
         /\ PutRow(a, p, r)[q] = a[q]
  BY DEF Rows, PutRow

LEMMA PutSymbolIs ==
  ASSUME NEW a \in Rows, NEW p \in 0 .. 1, NEW q \in 0 .. 1, q # p,
         NEW x \in Symbols, NEW v \in Alloc
  PROVE  /\ PutSymbol(a, p, x, v) \in Rows
         /\ PutSymbol(a, p, x, v)[q] = a[q]
         /\ \A n \in Symbols :
              PutSymbol(a, p, x, v)[p][n] = IF n = x THEN v ELSE a[p][n]
<1> DEFINE r == [a[p] EXCEPT ![x] = v]
<1>1. r \in [Symbols -> Alloc]
      /\ \A n \in Symbols : r[n] = IF n = x THEN v ELSE a[p][n]
  BY DEF Rows
<1>2. PutSymbol(a, p, x, v) = PutRow(a, p, r)
  BY DEF PutRow, PutSymbol
<1> HIDE DEF r
<1> QED
  BY <1>1, <1>2, PutRowIs

LEMMA SetDataIs ==
  ASSUME NEW a \in Rows, NEW p \in 0 .. 1, NEW q \in 0 .. 1, q # p,
         NEW s \in Slots
  PROVE  /\ SetData(a, p, s) \in Rows
         /\ SetData(a, p, s)[q] = a[q]
         /\ \A n \in Symbols :
              SetData(a, p, s)[p][n] =
                IF n \in FirstSymb(s) .. LastSymb(s) THEN "DATA" ELSE a[p][n]
<1> DEFINE r == [n \in Symbols |->
                   IF n \in FirstSymb(s) .. LastSymb(s) THEN "DATA" ELSE a[p][n]]
<1>1. r \in [Symbols -> Alloc]
      /\ \A n \in Symbols :
           r[n] = IF n \in FirstSymb(s) .. LastSymb(s) THEN "DATA" ELSE a[p][n]
  BY DEF Rows, Alloc
<1>2. SetData(a, p, s) = PutRow(a, p, r)
  BY DEF SetData, PutRow
<1> HIDE DEF r
<1> QED
  BY <1>1, <1>2, PutRowIs

(* Each slot adds its symbols to the row.                                  *)
LEMMA MapSlot0 ==
  ASSUME NEW a, NEW p \in 0 .. 1, NEW q \in 0 .. 1, q # p, Holds(a, p, {}, {})
  PROVE  /\ Holds(MapUlSlot(a, p, 0), p, {0}, {})
         /\ Joined(a, MapUlSlot(a, p, 0), q)
<1> DEFINE d == SetData(a, p, 0)
           v == UpOrJoin(a[q][Last - 1])
           u == PutSymbol(d, q, Last, v)
           b == MapUlSlot(a, p, 0)
<1>1. 1 - p = q /\ a \in Rows /\ 0 \in Slots
  BY DEF Holds, Slots, NUM_SLOT
<1>2. Last \in Symbols /\ Last - 1 \in Symbols
      /\ SLOT_LEN \in Symbols /\ SLOT_LEN + 1 \in Symbols
  BY Layout
<1>3. v \in Alloc /\ "PTT_DOWN" \in Alloc
  BY DEF Alloc, UpOrJoin
<1>4. d \in Rows /\ d[q] = a[q]
      /\ \A n \in Symbols : d[p][n] = IF n < SLOT_LEN THEN "DATA" ELSE a[p][n]
  <2> HIDE DEF d
  <2>1. d \in Rows /\ d[q] = a[q]
        /\ \A n \in Symbols :
             d[p][n] = IF n \in FirstSymb(0) .. LastSymb(0) THEN "DATA" ELSE a[p][n]
    BY <1>1, SetDataIs DEF d
  <2> QED
    BY <2>1, Layout
<1>5. b = IF u[p][SLOT_LEN + 1] = "NOT_USED"
          THEN PutSymbol(u, p, SLOT_LEN, "PTT_DOWN") ELSE u
  <2>1. SUBFRAME_LEN - 1 = Last /\ SUBFRAME_LEN - 2 = Last - 1
        /\ LastSymb(0) + 1 = SLOT_LEN /\ LastSymb(0) + 2 = SLOT_LEN + 1
    BY Layout
  <2> QED
    BY <1>1, <2>1 DEF MapUlSlot, NUM_SLOT, PutSymbol
<1> HIDE DEF d, v, b
<1>6. u \in Rows /\ u[p] = d[p]
      /\ \A n \in Symbols : u[q][n] = IF n = Last THEN v ELSE a[q][n]
  <2>1. u \in Rows /\ u[p] = d[p]
        /\ \A n \in Symbols : u[q][n] = IF n = Last THEN v ELSE d[q][n]
    <3>1. d \in Rows /\ Last \in Symbols /\ v \in Alloc
      BY <1>2, <1>3, <1>4
    <3> QED
      BY <3>1, PutSymbolIs
  <2> HIDE DEF u
  <2> QED
    BY <1>4, <2>1
<1> HIDE DEF u
<1>7. u[p][SLOT_LEN + 1] = "NOT_USED"
  <2>1. Row({}, {})[SLOT_LEN + 1] = "NOT_USED"
    BY <1>2, Layout DEF Row, Used, Gap
  <2> QED
    BY <1>1, <1>2, <1>4, <1>6, <2>1, Layout DEF Holds
<1>8. b \in Rows /\ b[q] = u[q]
      /\ \A n \in Symbols :
           b[p][n] = IF n = SLOT_LEN THEN "PTT_DOWN" ELSE u[p][n]
  <2>1. b = PutSymbol(u, p, SLOT_LEN, "PTT_DOWN")
    BY <1>5, <1>7
  <2>2. u \in Rows /\ SLOT_LEN \in Symbols /\ "PTT_DOWN" \in Alloc
    BY <1>2, <1>3, <1>6
  <2> QED
    BY <2>1, <2>2, PutSymbolIs
<1>9. \A n \in Symbols : b[p][n] = Row({0}, {})[n]
  BY <1>4, <1>6, <1>8, Layout DEF Holds, Row, Used, Gap
<1>10. Joined(a, b, q)
  BY <1>1, <1>2, <1>6, <1>8 DEF Joined, v
<1> QED
  BY <1>8, <1>9, <1>10 DEF Holds, b

LEMMA MapUlSlotIs ==
  ASSUME NEW a \in Rows, NEW p \in 0 .. 1, NEW q \in 0 .. 1, q # p,
         NEW s \in 1 .. 3
  PROVE  /\ MapUlSlot(a, p, s) \in Rows
         /\ MapUlSlot(a, p, s)[q] = a[q]
         /\ \A n \in Symbols :
              MapUlSlot(a, p, s)[p][n] =
                IF n = LastSymb(s) + 1
                   /\ (s = 3 \/ a[p][LastSymb(s) + 2] = "NOT_USED")
                THEN "PTT_DOWN"
                ELSE IF n \in FirstSymb(s) .. LastSymb(s) THEN "DATA"
                ELSE IF n = FirstSymb(s) - 1 THEN UpOrJoin(a[p][FirstSymb(s) - 2])
                ELSE a[p][n]
<1> DEFINE d == SetData(a, p, s)
           x == FirstSymb(s) - 1
           y == LastSymb(s) + 1
           v == UpOrJoin(a[p][FirstSymb(s) - 2])
           u == PutSymbol(d, p, x, v)
           down == s = NUM_SLOT - 1 \/ u[p][LastSymb(s) + 2] = "NOT_USED"
           w == PutSymbol(u, p, y, "PTT_DOWN")
           b == MapUlSlot(a, p, s)
<1>1. s \in Slots /\ NUM_SLOT - 1 = 3 /\ s # 0
  BY DEF Slots, NUM_SLOT
<1>2. x \in Symbols /\ y \in Symbols /\ (s # 3 => y + 1 \in Symbols)
      /\ FirstSymb(s) \in Int /\ LastSymb(s) \in Int /\ x < FirstSymb(s)
      /\ FirstSymb(s) < LastSymb(s)
  BY s = 1 \/ s = 2 \/ s = 3, Layout
<1>3. v \in Alloc /\ "PTT_DOWN" \in Alloc
  BY DEF Alloc, UpOrJoin
<1>4. b = IF down THEN w ELSE u
  BY <1>1 DEF MapUlSlot, PutSymbol
<1>5. d \in Rows /\ d[q] = a[q]
      /\ \A n \in Symbols :
           d[p][n] = IF n \in FirstSymb(s) .. LastSymb(s) THEN "DATA" ELSE a[p][n]
  BY <1>1, SetDataIs
<1> HIDE DEF d, v, x
<1>6. u \in Rows /\ u[q] = d[q]
      /\ \A n \in Symbols : u[p][n] = IF n = x THEN v ELSE d[p][n]
  <2>1. d \in Rows /\ x \in Symbols /\ v \in Alloc
    BY <1>2, <1>3, <1>5
  <2> QED
    BY <2>1, PutSymbolIs
<1> HIDE DEF u, y
<1>7. w \in Rows /\ w[q] = u[q]
      /\ \A n \in Symbols : w[p][n] = IF n = y THEN "PTT_DOWN" ELSE u[p][n]
  <2>1. u \in Rows /\ y \in Symbols /\ "PTT_DOWN" \in Alloc
    BY <1>2, <1>3, <1>6
  <2> QED
    BY <2>1, PutSymbolIs
<1> HIDE DEF w, b, down
<1>8. down <=> s = 3 \/ a[p][y + 1] = "NOT_USED"
  <2>1. CASE s = 3
    BY <1>1, <2>1 DEF down
  <2>2. CASE s # 3
    <3>1. LastSymb(s) + 2 = y + 1 /\ y + 1 \in Symbols /\ y + 1 # x
          /\ y + 1 \notin FirstSymb(s) .. LastSymb(s)
      BY <1>2, <2>2 DEF y
    <3> QED
      BY <1>1, <1>5, <1>6, <2>2, <3>1 DEF down
  <2> QED
    BY <2>1, <2>2
<1>9. b \in Rows /\ b[q] = a[q]
  BY <1>4, <1>5, <1>6, <1>7
<1>10. ASSUME NEW n \in Symbols
       PROVE  b[p][n] = IF n = y /\ (s = 3 \/ a[p][y + 1] = "NOT_USED")
                        THEN "PTT_DOWN"
                        ELSE IF n \in FirstSymb(s) .. LastSymb(s) THEN "DATA"
                        ELSE IF n = x THEN v
                        ELSE a[p][n]
  <2>1. b[p][n] = IF n = y /\ down THEN "PTT_DOWN" ELSE u[p][n]
    BY <1>4, <1>7
  <2>2. u[p][n] = IF n \in FirstSymb(s) .. LastSymb(s) THEN "DATA"
                  ELSE IF n = x THEN v ELSE a[p][n]
    <3>1. x \notin FirstSymb(s) .. LastSymb(s)
      BY <1>2
    <3> QED
      BY <1>5, <1>6, <3>1
  <2> QED
    BY <1>8, <2>1, <2>2
<1>11. y + 1 = LastSymb(s) + 2
  BY <1>2 DEF y
<1> QED
  BY <1>9, <1>10, <1>11 DEF b, x, y, v

LEMMA MapUlCtrlIs ==
  ASSUME NEW a \in Rows, NEW p \in 0 .. 1, NEW q \in 0 .. 1, q # p,
         NEW i \in CtrlSlots
  PROVE  /\ MapUlCtrl(a, p, i) \in Rows
         /\ MapUlCtrl(a, p, i)[q] = a[q]
         /\ \A n \in Symbols :
              MapUlCtrl(a, p, i)[p][n] =
                IF n = CtrlSymb(i) + 1 /\ a[p][CtrlSymb(i) + 2] = "NOT_USED"
                THEN "PTT_DOWN"
                ELSE IF n = CtrlSymb(i) THEN "DATA"
                ELSE IF n = CtrlSymb(i) - 1 /\ a[p][CtrlSymb(i) - 2] = "NOT_USED"
                     THEN "PTT_UP"
                ELSE a[p][n]
<1> DEFINE m == CtrlSymb(i)
           x == m - 1
           y == m + 1
           t == PutSymbol(a, p, x, "PTT_UP")
           up == a[p][m - 2] = "NOT_USED"
           u == PutSymbol(IF up THEN t ELSE a, p, m, "DATA")
           down == u[p][m + 2] = "NOT_USED"
           w == PutSymbol(u, p, y, "PTT_DOWN")
           b == MapUlCtrl(a, p, i)
<1>1. m \in Int /\ m - 2 \in Symbols /\ x \in Symbols /\ m \in Symbols
      /\ y \in Symbols /\ m + 2 \in Symbols
  BY i = 0 \/ i = 1, Layout DEF CtrlSlots
<1>2. "PTT_UP" \in Alloc /\ "DATA" \in Alloc /\ "PTT_DOWN" \in Alloc
  BY DEF Alloc
<1>3. b = IF down THEN w ELSE u
  BY DEF MapUlCtrl, PutSymbol
<1> HIDE DEF m, x, y
<1>4. t \in Rows /\ t[q] = a[q]
      /\ \A n \in Symbols : t[p][n] = IF n = x THEN "PTT_UP" ELSE a[p][n]
  <2>1. x \in Symbols /\ "PTT_UP" \in Alloc
    BY <1>1, <1>2
  <2> QED
    BY <2>1, PutSymbolIs
<1> HIDE DEF t
<1>5. u \in Rows /\ u[q] = a[q]
      /\ \A n \in Symbols :
           u[p][n] = IF n = m THEN "DATA"
                     ELSE IF n = x /\ up THEN "PTT_UP" ELSE a[p][n]
  <2>1. CASE up
    <3>1. u = PutSymbol(t, p, m, "DATA")
      BY <2>1
    <3>2. u \in Rows /\ u[q] = t[q]
          /\ \A n \in Symbols : u[p][n] = IF n = m THEN "DATA" ELSE t[p][n]
      <4>1. t \in Rows /\ m \in Symbols /\ "DATA" \in Alloc
        BY <1>1, <1>2, <1>4
      <4> QED
        BY <3>1, <4>1, PutSymbolIs
    <3> QED
      BY <1>4, <2>1, <3>2
  <2>2. CASE ~up
    <3>1. u = PutSymbol(a, p, m, "DATA")
      BY <2>2
    <3>2. u \in Rows /\ u[q] = a[q]
          /\ \A n \in Symbols : u[p][n] = IF n = m THEN "DATA" ELSE a[p][n]
      <4>1. m \in Symbols /\ "DATA" \in Alloc
        BY <1>1, <1>2
      <4> QED
        BY <3>1, <4>1, PutSymbolIs
    <3> QED
      BY <2>2, <3>2
  <2> QED
    BY <2>1, <2>2
<1> HIDE DEF u, up
<1>6. w \in Rows /\ w[q] = u[q]
      /\ \A n \in Symbols : w[p][n] = IF n = y THEN "PTT_DOWN" ELSE u[p][n]
  <2>1. u \in Rows /\ y \in Symbols /\ "PTT_DOWN" \in Alloc
    BY <1>1, <1>2, <1>5
  <2> QED
    BY <2>1, PutSymbolIs
<1>7. down <=> a[p][m + 2] = "NOT_USED"
  <2>1. m + 2 # m /\ m + 2 # x
    BY <1>1 DEF x
  <2> QED
    BY <1>1, <1>5, <2>1 DEF down
<1> HIDE DEF w, b, down
<1>8. b \in Rows /\ b[q] = a[q]
  BY <1>3, <1>5, <1>6
<1>9. ASSUME NEW n \in Symbols
      PROVE  b[p][n] = IF n = m + 1 /\ a[p][m + 2] = "NOT_USED" THEN "PTT_DOWN"
                       ELSE IF n = m THEN "DATA"
                       ELSE IF n = m - 1 /\ a[p][m - 2] = "NOT_USED" THEN "PTT_UP"
                       ELSE a[p][n]
  <2>1. b[p][n] = IF n = y /\ down THEN "PTT_DOWN" ELSE u[p][n]
    BY <1>3, <1>6
  <2>2. u[p][n] = IF n = m THEN "DATA"
                  ELSE IF n = x /\ up THEN "PTT_UP" ELSE a[p][n]
    BY <1>5
  <2> QED
    BY <1>7, <2>1, <2>2 DEF up, x, y
<1> QED
  BY <1>8, <1>9 DEF b, m

(* What a row holds in the symbols that the mapping of a slot looks at.     *)
LEMMA RowPoints ==
  ASSUME NEW S, NEW C
  PROVE  /\ Row(S, C)[SLOT_LEN - 1] = Used(0 \in S)
         /\ Row(S, C)[2 * SLOT_LEN] = Used(1 \in S)
         /\ Row(S, C)[2 * SLOT_LEN + 2] = Used(0 \in C)
         /\ Row(S, C)[2 * SLOT_LEN + 4] = Used(1 \in C)
         /\ Row(S, C)[2 * SLOT_LEN + 6] = Used(2 \in S)
         /\ Row(S, C)[3 * SLOT_LEN + 5] = Used(2 \in S)
         /\ Row(S, C)[3 * SLOT_LEN + 7] = Used(3 \in S)
         /\ Row(S, C)[4 * SLOT_LEN + 6] = Used(3 \in S)
BY Layout DEF Row, Used, Gap

(* Each slot behind the first adds its symbols to a row that holds those   *)
(* before it, and then each control slot.                                  *)
LEMMA MapSlot1 ==
  ASSUME NEW a, NEW p \in 0 .. 1, NEW q \in 0 .. 1, q # p,
         NEW S \in SUBSET {0}, Holds(a, p, S, {})
  PROVE  /\ Holds(MapUlSlot(a, p, 1), p, S \cup {1}, {})
         /\ MapUlSlot(a, p, 1)[q] = a[q]
<1> DEFINE b == MapUlSlot(a, p, 1)
<1>1. b \in Rows /\ b[q] = a[q]
      /\ \A n \in Symbols :
           b[p][n] =
             IF n = LastSymb(1) + 1
                /\ (1 = 3 \/ a[p][LastSymb(1) + 2] = "NOT_USED")
             THEN "PTT_DOWN"
             ELSE IF n \in FirstSymb(1) .. LastSymb(1) THEN "DATA"
             ELSE IF n = FirstSymb(1) - 1 THEN UpOrJoin(a[p][FirstSymb(1) - 2])
             ELSE a[p][n]
  BY MapUlSlotIs DEF Holds
<1> HIDE DEF b
<1>2. /\ LastSymb(1) = 2 * SLOT_LEN /\ FirstSymb(1) = SLOT_LEN + 1
      /\ LastSymb(1) + 2 = 2 * SLOT_LEN + 2 /\ 2 * SLOT_LEN + 2 \in Symbols
      /\ FirstSymb(1) - 2 = SLOT_LEN - 1 /\ SLOT_LEN - 1 \in Symbols
  BY Layout
<1>3. /\ a[p][LastSymb(1) + 2] = "NOT_USED"
      /\ a[p][FirstSymb(1) - 2] = Used(0 \in S)
  <2>1. /\ a[p][2 * SLOT_LEN + 2] = Row(S, {})[2 * SLOT_LEN + 2]
        /\ a[p][SLOT_LEN - 1] = Row(S, {})[SLOT_LEN - 1]
    BY <1>2 DEF Holds
  <2> QED
    BY <1>2, <2>1, RowPoints DEF Used
<1>4. \A n \in Symbols :
        b[p][n] = IF n = 2 * SLOT_LEN + 1 THEN "PTT_DOWN"
                  ELSE IF n \in SLOT_LEN + 1 .. 2 * SLOT_LEN THEN "DATA"
                  ELSE IF n = SLOT_LEN THEN UpOrJoin(Used(0 \in S))
                  ELSE Row(S, {})[n]
  BY <1>1, <1>2, <1>3, TransmitAssumption DEF Holds
<1>5. \A n \in Symbols : b[p][n] = Row(S \cup {1}, {})[n]
  BY <1>4, Layout DEF Row, Used, Gap, UpOrJoin
<1> QED
  BY <1>1, <1>5 DEF Holds, b

LEMMA MapSlot2 ==
  ASSUME NEW a, NEW p \in 0 .. 1, NEW q \in 0 .. 1, q # p,
         NEW S \in SUBSET {0, 1}, Holds(a, p, S, {})
  PROVE  /\ Holds(MapUlSlot(a, p, 2), p, S \cup {2}, {})
         /\ MapUlSlot(a, p, 2)[q] = a[q]
<1> DEFINE b == MapUlSlot(a, p, 2)
<1>1. b \in Rows /\ b[q] = a[q]
      /\ \A n \in Symbols :
           b[p][n] =
             IF n = LastSymb(2) + 1
                /\ (2 = 3 \/ a[p][LastSymb(2) + 2] = "NOT_USED")
             THEN "PTT_DOWN"
             ELSE IF n \in FirstSymb(2) .. LastSymb(2) THEN "DATA"
             ELSE IF n = FirstSymb(2) - 1 THEN UpOrJoin(a[p][FirstSymb(2) - 2])
             ELSE a[p][n]
  BY MapUlSlotIs DEF Holds
<1> HIDE DEF b
<1>2. /\ LastSymb(2) = 3 * SLOT_LEN + 5 /\ FirstSymb(2) = 2 * SLOT_LEN + 6
      /\ LastSymb(2) + 2 = 3 * SLOT_LEN + 7 /\ 3 * SLOT_LEN + 7 \in Symbols
      /\ FirstSymb(2) - 2 = 2 * SLOT_LEN + 4 /\ 2 * SLOT_LEN + 4 \in Symbols
  BY Layout
<1>3. /\ a[p][LastSymb(2) + 2] = "NOT_USED"
      /\ a[p][FirstSymb(2) - 2] = "NOT_USED"
  <2>1. /\ a[p][3 * SLOT_LEN + 7] = Row(S, {})[3 * SLOT_LEN + 7]
        /\ a[p][2 * SLOT_LEN + 4] = Row(S, {})[2 * SLOT_LEN + 4]
    BY <1>2 DEF Holds
  <2> QED
    BY <1>2, <2>1, RowPoints DEF Used
<1>4. \A n \in Symbols :
        b[p][n] = IF n = 3 * SLOT_LEN + 6 THEN "PTT_DOWN"
                  ELSE IF n \in 2 * SLOT_LEN + 6 .. 3 * SLOT_LEN + 5 THEN "DATA"
                  ELSE IF n = 2 * SLOT_LEN + 5 THEN "PTT_UP"
                  ELSE Row(S, {})[n]
  BY <1>1, <1>2, <1>3, TransmitAssumption DEF Holds, UpOrJoin
<1>5. \A n \in Symbols : b[p][n] = Row(S \cup {2}, {})[n]
  BY <1>4, Layout DEF Row, Used, Gap
<1> QED
  BY <1>1, <1>5 DEF Holds, b

LEMMA MapSlot3 ==
  ASSUME NEW a, NEW p \in 0 .. 1, NEW q \in 0 .. 1, q # p,
         NEW S \in SUBSET {0, 1, 2}, Holds(a, p, S, {})
  PROVE  /\ Holds(MapUlSlot(a, p, 3), p, S \cup {3}, {})
         /\ MapUlSlot(a, p, 3)[q] = a[q]
<1> DEFINE b == MapUlSlot(a, p, 3)
<1>1. b \in Rows /\ b[q] = a[q]
      /\ \A n \in Symbols :
           b[p][n] =
             IF n = LastSymb(3) + 1
                /\ (3 = 3 \/ a[p][LastSymb(3) + 2] = "NOT_USED")
             THEN "PTT_DOWN"
             ELSE IF n \in FirstSymb(3) .. LastSymb(3) THEN "DATA"
             ELSE IF n = FirstSymb(3) - 1 THEN UpOrJoin(a[p][FirstSymb(3) - 2])
             ELSE a[p][n]
  BY MapUlSlotIs DEF Holds
<1> HIDE DEF b
<1>2. /\ LastSymb(3) = 4 * SLOT_LEN + 6 /\ FirstSymb(3) = 3 * SLOT_LEN + 7
      /\ FirstSymb(3) - 2 = 3 * SLOT_LEN + 5 /\ 3 * SLOT_LEN + 5 \in Symbols
  BY Layout
<1>3. a[p][FirstSymb(3) - 2] = Used(2 \in S)
  <2>1. a[p][3 * SLOT_LEN + 5] = Row(S, {})[3 * SLOT_LEN + 5]
    BY <1>2 DEF Holds
  <2> QED
    BY <1>2, <2>1, RowPoints
<1>4. \A n \in Symbols :
        b[p][n] = IF n = 4 * SLOT_LEN + 7 THEN "PTT_DOWN"
                  ELSE IF n \in 3 * SLOT_LEN + 7 .. 4 * SLOT_LEN + 6 THEN "DATA"
                  ELSE IF n = 3 * SLOT_LEN + 6 THEN UpOrJoin(Used(2 \in S))
                  ELSE Row(S, {})[n]
  BY <1>1, <1>2, <1>3, TransmitAssumption DEF Holds
<1>5. \A n \in Symbols : b[p][n] = Row(S \cup {3}, {})[n]
  BY <1>4, Layout DEF Row, Used, Gap, UpOrJoin
<1> QED
  BY <1>1, <1>5 DEF Holds, b

LEMMA MapCtrl ==
  ASSUME NEW a, NEW p \in 0 .. 1, NEW q \in 0 .. 1, q # p,
         NEW S \in SUBSET Slots, NEW i \in CtrlSlots, Holds(a, p, S, {})
  PROVE  /\ Holds(MapUlCtrl(a, p, i), p, S, {i})
         /\ MapUlCtrl(a, p, i)[q] = a[q]
<1> DEFINE b == MapUlCtrl(a, p, i)
<1>1. b \in Rows /\ b[q] = a[q]
      /\ \A n \in Symbols :
           b[p][n] =
             IF n = CtrlSymb(i) + 1 /\ a[p][CtrlSymb(i) + 2] = "NOT_USED"
             THEN "PTT_DOWN"
             ELSE IF n = CtrlSymb(i) THEN "DATA"
             ELSE IF n = CtrlSymb(i) - 1 /\ a[p][CtrlSymb(i) - 2] = "NOT_USED"
                  THEN "PTT_UP"
             ELSE a[p][n]
  BY MapUlCtrlIs DEF Holds
<1> HIDE DEF b
<1>2. CASE i = 0
  <2>1. /\ CtrlSymb(i) = 2 * SLOT_LEN + 2
        /\ CtrlSymb(i) - 2 = 2 * SLOT_LEN /\ 2 * SLOT_LEN \in Symbols
        /\ CtrlSymb(i) + 2 = 2 * SLOT_LEN + 4 /\ 2 * SLOT_LEN + 4 \in Symbols
    BY <1>2, Layout
  <2>2. /\ a[p][CtrlSymb(i) - 2] = Used(1 \in S)
        /\ a[p][CtrlSymb(i) + 2] = "NOT_USED"
    <3>1. /\ a[p][2 * SLOT_LEN] = Row(S, {})[2 * SLOT_LEN]
          /\ a[p][2 * SLOT_LEN + 4] = Row(S, {})[2 * SLOT_LEN + 4]
      BY <2>1 DEF Holds
    <3> QED
      BY <2>1, <3>1, RowPoints DEF Used
  <2>3. \A n \in Symbols :
          b[p][n] = IF n = 2 * SLOT_LEN + 3 THEN "PTT_DOWN"
                    ELSE IF n = 2 * SLOT_LEN + 2 THEN "DATA"
                    ELSE IF n = 2 * SLOT_LEN + 1 /\ Used(1 \in S) = "NOT_USED"
                         THEN "PTT_UP"
                    ELSE Row(S, {})[n]
    BY <1>1, <2>1, <2>2, TransmitAssumption DEF Holds
  <2>4. \A n \in Symbols : b[p][n] = Row(S, {i})[n]
    BY <1>2, <2>3, Layout DEF Row, Used, Gap
  <2> QED
    BY <1>1, <2>4 DEF Holds, b
<1>3. CASE i = 1
  <2>1. /\ CtrlSymb(i) = 2 * SLOT_LEN + 4
        /\ CtrlSymb(i) - 2 = 2 * SLOT_LEN + 2 /\ 2 * SLOT_LEN + 2 \in Symbols
        /\ CtrlSymb(i) + 2 = 2 * SLOT_LEN + 6 /\ 2 * SLOT_LEN + 6 \in Symbols
    BY <1>3, Layout
  <2>2. /\ a[p][CtrlSymb(i) - 2] = "NOT_USED"
        /\ a[p][CtrlSymb(i) + 2] = Used(2 \in S)
    <3>1. /\ a[p][2 * SLOT_LEN + 2] = Row(S, {})[2 * SLOT_LEN + 2]
          /\ a[p][2 * SLOT_LEN + 6] = Row(S, {})[2 * SLOT_LEN + 6]
      BY <2>1 DEF Holds
    <3> QED
      BY <2>1, <3>1, RowPoints DEF Used
  <2>3. \A n \in Symbols :
          b[p][n] = IF n = 2 * SLOT_LEN + 5 /\ Used(2 \in S) = "NOT_USED"
                    THEN "PTT_DOWN"
                    ELSE IF n = 2 * SLOT_LEN + 4 THEN "DATA"
                    ELSE IF n = 2 * SLOT_LEN + 3 THEN "PTT_UP"
                    ELSE Row(S, {})[n]
    BY <1>1, <2>1, <2>2, TransmitAssumption DEF Holds
  <2>4. \A n \in Symbols : b[p][n] = Row(S, {i})[n]
    BY <1>3, <2>3, Layout DEF Row, Used, Gap
  <2> QED
    BY <1>1, <2>4 DEF Holds, b
<1> QED
  BY <1>2, <1>3 DEF CtrlSlots

(* The scheduler fills the row of the next subframe for what was given,    *)
(* and sets the last symbol of the other row if slot 0 was.                *)
LEMMA MapRowIs ==
  ASSUME NEW p \in 0 .. 1, NEW q \in 0 .. 1, q # p, alloc \in Rows,
         NEW g \in [slots : SUBSET Slots, ctrl : {{}, {0}, {1}}]
  PROVE  /\ Holds(MapRow(p, g), p, g.slots, g.ctrl)
         /\ IF 0 \in g.slots THEN Joined(alloc, MapRow(p, g), q)
            ELSE MapRow(p, g)[q] = alloc[q]
<1> DEFINE S == g.slots
           C == g.ctrl
           r == ResetSymbolAllocation(alloc, p)
           a0 == MapUlSlotIf(0 \in S, r, p, 0)
           a1 == MapUlSlotIf(1 \in S, a0, p, 1)
           a2 == MapUlSlotIf(2 \in S, a1, p, 2)
           a3 == MapUlSlotIf(3 \in S, a2, p, 3)
           c0 == MapUlCtrlIf(0 \in C, a3, p, 0)
           c1 == MapUlCtrlIf(1 \in C, c0, p, 1)
<1>1. MapRow(p, g) = c1
  BY DEF MapRow, MapUlSlots, MapUlCtrls
<1>2. Holds(r, p, {}, {}) /\ r[q] = alloc[q]
  <2>1. EmptyRow \in [Symbols -> Alloc]
    BY DEF EmptyRow, Alloc
  <2>2. r = PutRow(alloc, p, EmptyRow)
    BY DEF ResetSymbolAllocation, PutRow
  <2>3. r \in Rows /\ r[p] = EmptyRow /\ r[q] = alloc[q]
    BY <2>1, <2>2, PutRowIs
  <2>4. \A n \in Symbols : EmptyRow[n] = Row({}, {})[n]
    BY Layout DEF EmptyRow, Row, Used, Gap
  <2> QED
    BY <2>3, <2>4 DEF Holds
<1> HIDE DEF r
<1>3. /\ Holds(a0, p, S \cap {0}, {})
      /\ IF 0 \in S THEN Joined(alloc, a0, q) ELSE a0[q] = alloc[q]
  <2>1. CASE 0 \in S
    <3>1. a0 = MapUlSlot(r, p, 0) /\ S \cap {0} = {0}
      BY <2>1 DEF MapUlSlotIf
    <3>2. Holds(a0, p, {0}, {}) /\ Joined(r, a0, q)
      BY <1>2, <3>1, MapSlot0
    <3> QED
      BY <1>2, <2>1, <3>1, <3>2 DEF Joined
  <2>2. CASE 0 \notin S
    <3>1. a0 = r /\ S \cap {0} = {}
      BY <2>2 DEF MapUlSlotIf
    <3> QED
      BY <1>2, <2>2, <3>1
  <2> QED
    BY <2>1, <2>2
<1> HIDE DEF a0
<1>4. Holds(a1, p, S \cap {0, 1}, {}) /\ a1[q] = a0[q]
  <2>1. CASE 1 \in S
    <3>1. a1 = MapUlSlot(a0, p, 1)
          /\ S \cap {0, 1} = (S \cap {0}) \cup {1}
      BY <2>1 DEF MapUlSlotIf
    <3>2. S \cap {0} \in SUBSET {0}
      OBVIOUS
    <3> QED
      BY <1>3, <3>1, <3>2, MapSlot1
  <2>2. CASE 1 \notin S
    <3>1. a1 = a0 /\ S \cap {0, 1} = S \cap {0}
      BY <2>2 DEF MapUlSlotIf
    <3> QED
      BY <1>3, <3>1
  <2> QED
    BY <2>1, <2>2
<1> HIDE DEF a1
<1>5. Holds(a2, p, S \cap {0, 1, 2}, {}) /\ a2[q] = a1[q]
  <2>1. CASE 2 \in S
    <3>1. a2 = MapUlSlot(a1, p, 2)
          /\ S \cap {0, 1, 2} = (S \cap {0, 1}) \cup {2}
      BY <2>1 DEF MapUlSlotIf
    <3>2. S \cap {0, 1} \in SUBSET {0, 1}
      OBVIOUS
    <3> QED
      BY <1>4, <3>1, <3>2, MapSlot2
  <2>2. CASE 2 \notin S
    <3>1. a2 = a1 /\ S \cap {0, 1, 2} = S \cap {0, 1}
      BY <2>2 DEF MapUlSlotIf
    <3> QED
      BY <1>4, <3>1
  <2> QED
    BY <2>1, <2>2
<1> HIDE DEF a2
<1>6. Holds(a3, p, S \cap {0, 1, 2, 3}, {}) /\ a3[q] = a2[q]
  <2>1. CASE 3 \in S
    <3>1. a3 = MapUlSlot(a2, p, 3)
          /\ S \cap {0, 1, 2, 3} = (S \cap {0, 1, 2}) \cup {3}
      BY <2>1 DEF MapUlSlotIf
    <3>2. S \cap {0, 1, 2} \in SUBSET {0, 1, 2}
      OBVIOUS
    <3> QED
      BY <1>5, <3>1, <3>2, MapSlot3
  <2>2. CASE 3 \notin S
    <3>1. a3 = a2 /\ S \cap {0, 1, 2, 3} = S \cap {0, 1, 2}
      BY <2>2 DEF MapUlSlotIf
    <3> QED
      BY <1>5, <3>1
  <2> QED
    BY <2>1, <2>2
<1> HIDE DEF a3
<1>7. Holds(a3, p, S, {}) /\ S \in SUBSET Slots
  <2>1. S \in SUBSET Slots /\ S \cap {0, 1, 2, 3} = S
    BY DEF Slots, NUM_SLOT
  <2> QED
    BY <1>6, <2>1
<1>8. Holds(c1, p, S, C) /\ c1[q] = a3[q]
  <2>1. CASE C = {}
    BY <1>7, <2>1 DEF MapUlCtrlIf
  <2>2. CASE C = {0}
    <3>1. c1 = MapUlCtrl(a3, p, 0) /\ 0 \in CtrlSlots
      BY <2>2 DEF MapUlCtrlIf, CtrlSlots
    <3> QED
      BY <1>7, <2>2, <3>1, MapCtrl
  <2>3. CASE C = {1}
    <3>1. c1 = MapUlCtrl(a3, p, 1) /\ 1 \in CtrlSlots
      BY <2>3 DEF MapUlCtrlIf, CtrlSlots
    <3> QED
      BY <1>7, <2>3, <3>1, MapCtrl
  <2> QED
    BY <2>1, <2>2, <2>3
<1> QED
  BY <1>1, <1>3, <1>4, <1>5, <1>6, <1>8 DEF Joined

---------------------------------------------------------------------------
(* What follows what in a row. *)

LEMMA RowSymbols ==
  ASSUME NEW S, NEW C, NEW n \in Symbols
  PROVE  /\ Row(S, C)[n] \in Alloc
         /\ Row(S, C)[Last] = Gap(3 \in S, FALSE, "DATA")
         /\ Row(S, C)[Last - 1] = Used(3 \in S)
         /\ Row(S, C)[0] = Used(0 \in S)
BY Layout DEF Row, Used, Gap, Alloc

(* Behind data, or the symbol that switches on, the transmitter is not     *)
(* left alone.                                                             *)
LEMMA RowForward ==
  ASSUME NEW S, NEW C \in {{}, {0}, {1}}, NEW n \in Symbols, n < Last,
         Row(S, C)[n] \in On
  PROVE  Row(S, C)[n + 1] # "NOT_USED"
<1> DEFINE m == n + 1
<1>1. m \in Symbols
  BY Layout
<1>2. Row(S, C)[m] # "NOT_USED"
  BY <1>1, Layout DEF Row, Used, Gap, On
<1> QED
  BY <1>2

(* Data has data before it, or the symbol that switches on, unless it is   *)
(* that of control slot 0 right behind slot 1.                             *)
LEMMA RowBackward ==
  ASSUME NEW S, NEW C \in {{}, {0}, {1}}, NEW n \in Symbols, n > 0,
         ~(1 \in S /\ 0 \in C), Row(S, C)[n] = "DATA"
  PROVE  Row(S, C)[n - 1] \in On
<1> DEFINE m == n - 1
<1>1. m \in Symbols
  BY Layout
<1>2. Row(S, C)[m] \in On
  BY <1>1, Layout DEF Row, Used, Gap, On
<1> QED
  BY <1>2

(* The transmitter is on only around what was given.                       *)
LEMMA RowInWindow ==
  ASSUME NEW g \in [slots : SUBSET Slots, ctrl : {{}, {0}, {1}}],
         NEW n \in Symbols, Row(g.slots, g.ctrl)[n] \in On
  PROVE  n \in Window(g)
<1> DEFINE Sl(s) == FirstSymb(s) - 1 .. LastSymb(s) + 1
           Ct(i) == CtrlSymb(i) - 1 .. CtrlSymb(i) + 1
<1>1. \/ 0 \in g.slots /\ n \in -1 .. SLOT_LEN
      \/ 1 \in g.slots /\ n \in SLOT_LEN .. 2 * SLOT_LEN + 1
      \/ 2 \in g.slots /\ n \in 2 * SLOT_LEN + 5 .. 3 * SLOT_LEN + 6
      \/ 3 \in g.slots /\ n \in 3 * SLOT_LEN + 6 .. 4 * SLOT_LEN + 7
      \/ 0 \in g.ctrl /\ n \in 2 * SLOT_LEN + 1 .. 2 * SLOT_LEN + 3
      \/ 1 \in g.ctrl /\ n \in 2 * SLOT_LEN + 3 .. 2 * SLOT_LEN + 5
  BY Layout DEF Row, Used, Gap, On
<1>2. \/ \E s \in g.slots : n \in Sl(s)
      \/ \E i \in g.ctrl : n \in Ct(i)
  BY <1>1, Layout
<1> QED
  BY <1>2 DEF Window

---------------------------------------------------------------------------
(* Positions. *)

LEMMA Positions ==
  ASSUME NEW t \in 0 .. FRAME_LEN - 1, NEW m \in Symbols
  PROVE  /\ t % 2 \in 0 .. 1
         /\ (t + 1) % 2 = 1 - (t % 2)
         /\ (t + 1) % FRAME_LEN \in 0 .. FRAME_LEN - 1
         /\ ((t + 1) % FRAME_LEN) % 2 = 1 - (t % 2)
         /\ (m - 1) % SUBFRAME_LEN = IF m = 0 THEN Last ELSE m - 1
         /\ NextSymbol(m) = IF m = Last THEN 0 ELSE m + 1
<1>1. t % 2 \in 0 .. 1 /\ (t + 1) % 2 = 1 - (t % 2)
  OBVIOUS
<1>2. (t + 1) % FRAME_LEN = IF t + 1 = FRAME_LEN THEN 0 ELSE t + 1
  BY TransmitAssumption
<1>3. ((t + 1) % FRAME_LEN) % 2 = 1 - (t % 2)
  BY <1>1, <1>2, TransmitAssumption
<1>4. (t + 1) % FRAME_LEN \in 0 .. FRAME_LEN - 1
  BY <1>2, TransmitAssumption
<1> DEFINE n == SUBFRAME_LEN
<1>5. n \in Nat \ {0} /\ Last = n - 1 /\ m \in 0 .. n - 1
  BY Layout
<1> HIDE DEF n
<1>6. (m - 1) % n = IF m = 0 THEN n - 1 ELSE m - 1
  <2>1. CASE m = 0
    BY <1>5, <2>1
  <2>2. CASE m # 0
    BY <1>5, <2>2
  <2> QED
    BY <2>1, <2>2
<1>7. (m + 1) % n = IF m = n - 1 THEN 0 ELSE m + 1
  BY <1>5
<1> QED
  BY <1>1, <1>3, <1>4, <1>5, <1>6, <1>7 DEF n, NextSymbol

(* What the base station gives is typed.                                   *)
LEMMA GrantsTyped ==
  /\ Grants \subseteq AllGrants
  /\ AllGrants \subseteq [slots : SUBSET Slots, ctrl : {{}, {0}, {1}}]
  /\ AllGrants \subseteq [slots : SUBSET Slots, ctrl : SUBSET CtrlSlots]
  /\ Nothing \in AllGrants
<1>1. SUBSET (0 .. 3) = SUBSET Slots /\ {{}, {0}, {1}} \subseteq SUBSET CtrlSlots
  BY DEF Slots, NUM_SLOT, CtrlSlots
<1>2. Grants \subseteq AllGrants
  BY <1>1, TransmitAssumption DEF Grants, AllGrants
<1>3. AllGrants \subseteq [slots : SUBSET Slots, ctrl : SUBSET CtrlSlots]
  BY <1>1 DEF AllGrants
<1> QED
  BY <1>2, <1>3, TransmitAssumption DEF AllGrants, Nothing

---------------------------------------------------------------------------
(* The types. *)

LEMMA InitTypeOK == Init => TypeOK
<1> SUFFICES ASSUME Init PROVE TypeOK
  OBVIOUS
<1>1. EmptyRow \in [Symbols -> Alloc]
  BY DEF EmptyRow, Alloc
<1>2. 0 \in Symbols /\ 0 \in 0 .. FRAME_LEN - 1
  BY Layout, TransmitAssumption
<1>3. Nothing \in [slots : SUBSET Slots, ctrl : SUBSET CtrlSlots]
  BY GrantsTyped
<1>4. alloc \in [0 .. 1 -> [Symbols -> Alloc]]
      /\ granted \in [0 .. 1 -> [slots : SUBSET Slots, ctrl : SUBSET CtrlSlots]]
      /\ fresh \in [0 .. 1 -> BOOLEAN]
  BY <1>1, <1>3 DEF Init
<1>5. /\ is_associated \in BOOLEAN /\ due \in BOOLEAN /\ disturbed \in BOOLEAN
      /\ ptt \in {"rx", "tx"} /\ sent \in {"zero", "data", "rach"}
  BY DEF Init
<1>6. /\ tx_symbol \in Symbols /\ tx_subframe \in 0 .. FRAME_LEN - 1
      /\ steady \in 0 .. 2 /\ associations \in 0 .. MaxAssociations
      /\ skips \in 0 .. MaxSkips
  BY <1>2, TransmitAssumption DEF Init
<1> QED
  BY <1>4, <1>5, <1>6 DEF TypeOK

(* The association changes what belongs to it.                             *)
LEMMA SetAssociatedTyped ==
  ASSUME TypeOK, NEW b \in BOOLEAN, SetAssociated(b)
  PROVE  is_associated' \in BOOLEAN /\ disturbed' \in BOOLEAN /\ steady' \in 0 .. 2
<1>1. is_associated' \in BOOLEAN
  BY DEF SetAssociated
<1>2. disturbed' \in BOOLEAN
  BY DEF SetAssociated, TypeOK
<1>3. steady' = steady \/ steady' = 0
  BY DEF SetAssociated
<1>4. steady' \in 0 .. 2
  BY <1>3 DEF TypeOK
<1> QED
  BY <1>1, <1>2, <1>4

LEMMA StepTypeOK ==
  ASSUME TypeOK, Next
  PROVE  TypeOK'
<1> DEFINE c == tx_subframe % 2
           G == [slots : SUBSET Slots, ctrl : SUBSET CtrlSlots]
<1>1. c \in 0 .. 1 /\ Next_sfn = 1 - c /\ 1 - c \in 0 .. 1 /\ c # 1 - c
  BY Positions DEF TypeOK, Next_sfn
<1>2. Nothing \in G
  BY GrantsTyped
<1>3. ASSUME NEW g \in G, NEW filled \in BOOLEAN, Grant(g, filled)
      PROVE  granted' \in [0 .. 1 -> G] /\ fresh' \in [0 .. 1 -> BOOLEAN]
  BY <1>1, <1>3 DEF TypeOK, Grant
<1>4. ASSUME NEW g \in Grants, NEW lost \in BOOLEAN, RunScheduler(g, lost)
      PROVE  TypeOK'
  <2>1. CASE ~is_associated
    BY <1>2, <1>3, <1>4, <2>1 DEF RunScheduler, TypeOK
  <2>2. CASE is_associated
    <3>1. g \in G /\ g \in [slots : SUBSET Slots, ctrl : {{}, {0}, {1}}]
      BY GrantsTyped
    <3>2. alloc \in Rows
      BY DEF TypeOK, Rows
    <3>3. MapRow(1 - c, g) \in Rows
      BY <1>1, <3>1, <3>2, MapRowIs DEF Holds
    <3>4. alloc' \in [0 .. 1 -> [Symbols -> Alloc]]
      BY <1>1, <1>4, <2>2, <3>3 DEF RunScheduler, Rows
    <3>5. Grant(g, TRUE)
      BY <1>4, <2>2 DEF RunScheduler
    <3>6. granted' \in [0 .. 1 -> G] /\ fresh' \in [0 .. 1 -> BOOLEAN]
      BY <1>3, <3>1, <3>5
    <3>7. /\ is_associated' \in BOOLEAN /\ disturbed' \in BOOLEAN
          /\ steady' \in 0 .. 2
      <4>1. SetAssociated(~lost)
        BY <1>4, <2>2, Zenon DEF RunScheduler
      <4>2. (~lost) \in BOOLEAN
        OBVIOUS
      <4> QED
        BY <4>1, <4>2, SetAssociatedTyped, Zenon
    <3> QED
      BY <1>4, <3>4, <3>6, <3>7 DEF RunScheduler, TypeOK
  <2> QED
    BY <2>1, <2>2
<1>5. CASE SkipRun
  <2>1. granted' \in [0 .. 1 -> G] /\ fresh' \in [0 .. 1 -> BOOLEAN]
    BY <1>2, <1>3, <1>5 DEF SkipRun
  <2>2. skips' \in 0 .. MaxSkips
    BY <1>5, TransmitAssumption DEF SkipRun, TypeOK
  <2> QED
    BY <1>5, <2>1, <2>2 DEF SkipRun, TypeOK
<1>6. CASE Associate
  <2>1. is_associated' \in BOOLEAN /\ disturbed' \in BOOLEAN /\ steady' \in 0 .. 2
    BY <1>6, SetAssociatedTyped DEF Associate
  <2>2. associations' \in 0 .. MaxAssociations
    BY <1>6, TransmitAssumption DEF Associate, TypeOK
  <2> QED
    BY <1>6, <2>1, <2>2 DEF Associate, TypeOK
<1>7. CASE EndSession
  <2>1. is_associated' \in BOOLEAN /\ disturbed' \in BOOLEAN /\ steady' \in 0 .. 2
    BY <1>7, SetAssociatedTyped DEF EndSession
  <2> QED
    BY <1>7, <2>1 DEF EndSession, TypeOK
<1>8. CASE WriteSymbol
  <2>1. sent' \in {"zero", "data", "rach"} /\ ptt' \in {"rx", "tx"}
        /\ disturbed' \in BOOLEAN
    <3>1. ASSUME NEW what \in {"zero", "data", "rach"}, NEW switch \in {"rx", "tx"},
                 Out(what, switch)
          PROVE  sent' \in {"zero", "data", "rach"} /\ ptt' \in {"rx", "tx"}
                 /\ disturbed' \in BOOLEAN
      BY <3>1 DEF Out
    <3>2. ptt \in {"rx", "tx"}
      BY DEF TypeOK
    <3>3. CASE WriteRach
      BY <3>1, <3>2, <3>3 DEF WriteRach
    <3>4. CASE WriteRow
      <4> HIDE DEF c
      <4>1. \/ Out("data", ptt) \/ Out("zero", "tx")
            \/ Out("zero", "rx") \/ Out("zero", ptt)
        BY <3>4 DEF WriteRow
      <4> QED
        BY <3>1, <3>2, <4>1
    <3> QED
      BY <1>8, <3>3, <3>4 DEF WriteSymbol
  <2>2. tx_symbol' \in Symbols
    <3>1. tx_symbol \in Symbols /\ tx_symbol' = NextSymbol(tx_symbol)
      BY <1>8 DEF WriteSymbol, TypeOK
    <3>2. tx_symbol' = IF tx_symbol = Last THEN 0 ELSE tx_symbol + 1
      BY <3>1, Positions DEF TypeOK
    <3> QED
      BY <3>1, <3>2, Layout
  <2>3. tx_subframe' \in 0 .. FRAME_LEN - 1 /\ due' \in BOOLEAN
        /\ steady' \in 0 .. 2
    <3>1. (tx_subframe + 1) % FRAME_LEN \in 0 .. FRAME_LEN - 1
      BY <2>2, Positions DEF TypeOK
    <3>2. tx_subframe' \in 0 .. FRAME_LEN - 1
      BY <1>8, <3>1 DEF WriteSymbol, TypeOK
    <3>3. due' \in BOOLEAN
      BY <1>8 DEF WriteSymbol, TypeOK
    <3>4. steady' = steady \/ (steady < 2 /\ steady' = steady + 1)
      BY <1>8 DEF WriteSymbol
    <3>5. steady' \in 0 .. 2
      BY <3>4 DEF TypeOK
    <3> QED
      BY <3>2, <3>3, <3>5
  <2> QED
    BY <1>8, <2>1, <2>2, <2>3 DEF WriteSymbol, TypeOK
<1> QED
  BY <1>4, <1>5, <1>6, <1>7, <1>8 DEF Next

(* Every value keeps its type: whatever is given in whatever order, the    *)
(* rows hold what ul_symbol_alloc may, and the counts stay below their     *)
(* bounds.                                                                 *)
THEOREM TypeCorrect == Spec => []TypeOK
<1>1. TypeOK /\ UNCHANGED vars => TypeOK'
  BY DEF TypeOK, vars, history
<1>2. TypeOK /\ [Next]_vars => TypeOK'
  BY <1>1, StepTypeOK
<1> QED
  BY <1>2, InitTypeOK, PTL DEF Spec

---------------------------------------------------------------------------
(* The inductive invariant. *)

LEMMA InitIInv == Init => IInv
<1> SUFFICES ASSUME Init PROVE IInv
  OBVIOUS
<1>1. TypeOK
  BY InitTypeOK
<1>2. RowInv
  <2>1. ASSUME NEW p \in 0 .. 1
        PROVE  fresh[p] = FALSE /\ alloc[p] = EmptyRow
    BY DEF Init
  <2>2. \A n \in Symbols : EmptyRow[n] = Row({}, {})[n] /\ EmptyRow[n] # "DATA"
    BY Layout DEF EmptyRow, Row, Used, Gap
  <2>3. Filled(EmptyRow, Nothing)
    BY <2>2 DEF Filled, Nothing
  <2>4. Last \in Symbols
    BY Layout
  <2> QED
    BY <2>1, <2>2, <2>3, <2>4, GrantsTyped DEF RowInv
<1>3. Current \in 0 .. 1 /\ 1 - Current \in 0 .. 1
  BY <1>1, Positions DEF TypeOK, Current
<1>4. fresh[Current] = FALSE /\ fresh[1 - Current] = FALSE
  BY <1>3 DEF Init
<1>5. LastInv
  BY <1>4 DEF Init, LastInv, SlotZeroFollows, SlotZeroBegins
<1>6. DueInv
  BY Layout DEF Init, DueInv
<1>7. SentInv /\ OffInv
  BY DEF Init, SentInv, OffInv
<1> QED
  BY <1>1, <1>2, <1>5, <1>6, <1>7 DEF IInv

(* Where the transmitter is, and was.                                      *)
LEMMA Where ==
  ASSUME TypeOK
  PROVE  /\ Current \in 0 .. 1 /\ 1 - Current \in 0 .. 1 /\ Current # 1 - Current
         /\ Next_sfn = 1 - Current
         /\ PrevParity = IF tx_symbol = 0 THEN 1 - Current ELSE Current
         /\ Prev = IF tx_symbol = 0 THEN Last ELSE tx_symbol - 1
         /\ Prev \in Symbols /\ tx_symbol \in Symbols
<1>1. /\ Current \in 0 .. 1 /\ Next_sfn = 1 - Current
      /\ PrevParity = IF tx_symbol = 0 THEN 1 - Current ELSE Current
      /\ Prev = IF tx_symbol = 0 THEN Last ELSE tx_symbol - 1
  BY Positions DEF TypeOK, Current, Next_sfn, PrevParity, Prev
<1>2. 1 - Current \in 0 .. 1 /\ Current # 1 - Current
  BY <1>1
<1>3. tx_symbol \in Symbols
  BY DEF TypeOK
<1>4. Prev \in Symbols
  BY <1>1, <1>3, Layout
<1> QED
  BY <1>1, <1>2, <1>3, <1>4

(* A step of the scheduler, or without it, stays where it is, before the   *)
(* last symbol and in the middle of a subframe.                            *)
Stays == UNCHANGED <<tx_symbol, tx_subframe, sent, ptt>>

LEMMA StaysPut ==
  ASSUME TypeOK, Stays
  PROVE  /\ Current' = Current /\ PrevParity' = PrevParity /\ Prev' = Prev
BY DEF Stays, Current, PrevParity, Prev

LEMMA RunsBefore ==
  ASSUME TypeOK, tx_symbol - RunSymbol \in Delays \/ tx_symbol = SUBFRAME_LEN - 2
  PROVE  /\ tx_symbol > 2 * SLOT_LEN + 3 /\ tx_symbol < Last
         /\ Prev \in Symbols \ {Last} /\ PrevParity = Current
<1>1. tx_symbol \in Int /\ RunSymbol = 2 * SLOT_LEN + 4
      /\ SUBFRAME_LEN = 4 * SLOT_LEN + 8 /\ Last = 4 * SLOT_LEN + 7
      /\ SLOT_LEN \in Nat
  BY Layout DEF TypeOK
<1>2. tx_symbol - RunSymbol \in 0 .. 2 * SLOT_LEN + 2
      \/ tx_symbol = SUBFRAME_LEN - 2
  BY TransmitAssumption
<1>3. tx_symbol > 2 * SLOT_LEN + 3 /\ tx_symbol < Last
  BY <1>1, <1>2, TransmitAssumption
<1> QED
  BY <1>1, <1>3, Where

(* The scheduler runs for a client that is associated.                     *)
LEMMA RunIInv ==
  ASSUME IInv, TypeOK', NEW g \in Grants, NEW lost \in BOOLEAN,
         RunScheduler(g, lost), is_associated
  PROVE  /\ IInv'
         /\ Written' = Written /\ Prev' = Prev /\ fresh'[Current] = fresh[Current]
<1> DEFINE c == Current
           o == 1 - Current
<1>1. /\ c \in 0 .. 1 /\ o \in 0 .. 1 /\ c # o /\ Next_sfn = o
      /\ alloc \in Rows
  BY Where DEF IInv, TypeOK, Rows
<1>2. Stays /\ due /\ due' = FALSE /\ tx_symbol - RunSymbol \in Delays
  BY DEF RunScheduler, Stays
<1>3. Current' = c /\ PrevParity' = c /\ Prev' = Prev /\ PrevParity = c
      /\ Prev \in Symbols \ {Last} /\ tx_symbol' # 0
      /\ tx_symbol' # Last
  <2>1. /\ tx_symbol > 2 * SLOT_LEN + 3 /\ tx_symbol < Last
        /\ Prev \in Symbols \ {Last} /\ PrevParity = c
    BY <1>2, RunsBefore DEF IInv
  <2>2. Current' = c /\ PrevParity' = PrevParity /\ Prev' = Prev
        /\ tx_symbol' = tx_symbol
    BY <1>2, StaysPut DEF IInv, Stays
  <2>3. Last' = Last /\ tx_symbol \in Int
    BY Layout DEF Last, SUBFRAME_LEN, NUM_SLOT, IInv, TypeOK
  <2>4. tx_symbol # 0 /\ tx_symbol # Last
    BY <2>1, <2>3, Layout
  <2> QED
    BY <2>1, <2>2, <2>4
<1>4. alloc' = MapRow(o, g) /\ Grant(g, TRUE)
  BY <1>1 DEF RunScheduler
<1>5. g \in AllGrants /\ g \in [slots : SUBSET Slots, ctrl : {{}, {0}, {1}}]
  BY GrantsTyped
<1>6. /\ Holds(alloc', o, g.slots, g.ctrl)
      /\ IF 0 \in g.slots THEN Joined(alloc, alloc', c) ELSE alloc'[c] = alloc[c]
  BY <1>1, <1>4, <1>5, MapRowIs
<1>7. /\ fresh'[o] = TRUE /\ granted'[o] = g
      /\ fresh'[c] = fresh[c] /\ granted'[c] = granted[c]
  BY <1>1, <1>4 DEF Grant, IInv, TypeOK
<1> HIDE DEF c, o
<1>8. /\ \A n \in Symbols : alloc'[o][n] = Row(g.slots, g.ctrl)[n]
      /\ \A n \in Symbols \ {Last} : alloc'[c][n] = alloc[c][n]
      /\ alloc'[c][Last] = IF 0 \in g.slots THEN UpOrJoin(alloc[c][Last - 1])
                           ELSE alloc[c][Last]
  BY <1>6 DEF Holds, Joined
<1>9. Last \in Symbols /\ Last - 1 \in Symbols \ {Last}
  BY Layout
<1>10. RowInv'
  <2>1. /\ fresh'[o] => granted'[o] \in AllGrants /\ Filled(alloc'[o], granted'[o])
        /\ \E h \in AllGrants : Filled(alloc'[o], h)
        /\ alloc'[o][Last] # "DATA"
    <3>1. Filled(alloc'[o], g)
      BY <1>8 DEF Filled
    <3>2. Row(g.slots, g.ctrl)[Last] # "DATA"
      BY <1>9, RowSymbols DEF Gap
    <3> QED
      BY <1>5, <1>7, <1>8, <1>9, <3>1, <3>2
  <2>2. \A h : Filled(alloc[c], h) => Filled(alloc'[c], h)
    BY <1>8 DEF Filled
  <2>3. /\ fresh'[c] => granted'[c] \in AllGrants /\ Filled(alloc'[c], granted'[c])
        /\ \E h \in AllGrants : Filled(alloc'[c], h)
    BY <1>1, <1>7, <2>2 DEF IInv, RowInv
  <2>4. alloc'[c][Last] = "DATA" => alloc'[c][Last - 1] = "DATA"
    <3>1. alloc'[c][Last - 1] = alloc[c][Last - 1]
      BY <1>8, <1>9
    <3>2. PICK h \in AllGrants : Filled(alloc[c], h)
      BY <1>1 DEF IInv, RowInv
    <3>3. alloc[c][Last - 1] = Used(3 \in h.slots)
      BY <1>9, <3>2, RowSymbols DEF Filled
    <3>4. alloc[c][Last] = "DATA" => alloc[c][Last - 1] = "DATA"
      BY <1>1 DEF IInv, RowInv
    <3> QED
      BY <1>8, <3>1, <3>3, <3>4 DEF Used, UpOrJoin
  <2>5. \A p \in 0 .. 1 : p = c \/ p = o
    BY <1>1 DEF c, o
  <2> QED
    BY <2>1, <2>3, <2>4, <2>5 DEF RowInv
<1>11. LastInv'
  <2>1. SlotZeroFollows' <=> 0 \in g.slots
    BY <1>3, <1>7 DEF SlotZeroFollows, c, o
  <2>2. fresh[c] => alloc[c][Last] = Gap(3 \in granted[c].slots, FALSE, "DATA")
    BY <1>2 DEF IInv, LastInv, c
  <2>3. fresh'[c] /\ ~SlotZeroFollows' =>
          alloc'[c][Last] = Gap(3 \in granted'[c].slots, FALSE, "DATA")
    BY <1>7, <1>8, <2>1, <2>2
  <2>4. alloc'[o][Last] = Gap(3 \in granted'[o].slots, FALSE, "DATA")
    BY <1>7, <1>8, <1>9, RowSymbols
  <2>5. SlotZeroFollows' => alloc'[c][Last] \in On
    BY <1>8, <2>1 DEF UpOrJoin, On
  <2> QED
    <3> USE DEF c, o
    <3>1. 1 - Current' = o
      BY <1>3
    <3> QED
      BY <1>2, <1>3, <2>3, <2>4, <2>5, <3>1 DEF LastInv
<1>12. DueInv'
  <2>1. ~is_associated' => steady' = 0
    BY DEF RunScheduler, SetAssociated
  <2> QED
    BY <1>3, <2>1 DEF DueInv
<1>13. Written' = Written
  BY <1>3, <1>8 DEF Written
<1>14. SentInv'
  BY <1>2, <1>13 DEF IInv, SentInv, Stays
<1>15. OffInv'
  <2>1. disturbed => disturbed'
    BY DEF RunScheduler, SetAssociated
  <2> QED
    BY <1>2, <1>3, <1>7, <1>13, <2>1 DEF IInv, OffInv, Stays
<1> QED
  BY <1>3, <1>7, <1>10, <1>11, <1>12, <1>13, <1>14, <1>15 DEF IInv, c

(* Nothing is given for the next subframe: its row becomes an old one.     *)
LEMMA NoRunIInv ==
  ASSUME IInv, TypeOK', Stays, Grant(Nothing, FALSE), due, due' = FALSE,
         tx_symbol - RunSymbol \in Delays \/ tx_symbol = SUBFRAME_LEN - 2,
         UNCHANGED <<alloc, is_associated, disturbed, steady>>
  PROVE  /\ IInv'
         /\ Written' = Written /\ Prev' = Prev /\ fresh'[Current] = fresh[Current]
<1> DEFINE c == Current
           o == 1 - Current
<1>1. c \in 0 .. 1 /\ o \in 0 .. 1 /\ c # o /\ Next_sfn = o
  BY Where DEF IInv
<1>2. /\ Current' = c /\ 1 - Current' = o
      /\ PrevParity' = c /\ Prev' = Prev /\ PrevParity = c
      /\ tx_symbol' # 0 /\ tx_symbol' # Last
  <2>1. /\ tx_symbol > 2 * SLOT_LEN + 3 /\ tx_symbol < Last /\ PrevParity = c
    BY RunsBefore DEF IInv
  <2>2. Current' = c /\ PrevParity' = PrevParity /\ Prev' = Prev
        /\ tx_symbol' = tx_symbol
    BY StaysPut DEF IInv, Stays
  <2>3. tx_symbol # 0 /\ tx_symbol # Last
    <3>1. tx_symbol \in Int /\ Last \in Int /\ SLOT_LEN \in Nat
      BY Layout DEF IInv, TypeOK
    <3> QED
      BY <2>1, <3>1
  <2> QED
    BY <2>1, <2>2, <2>3
<1>3. /\ fresh'[o] = FALSE
      /\ fresh'[c] = fresh[c] /\ granted'[c] = granted[c]
  BY <1>1 DEF Grant, IInv, TypeOK
<1>4. \A p \in 0 .. 1 : p = c \/ p = o
  BY <1>1
<1>5. RowInv'
  BY <1>1, <1>3, <1>4 DEF IInv, RowInv
<1>6. LastInv'
  <2>1. fresh[c] => alloc[c][Last] = Gap(3 \in granted[c].slots, FALSE, "DATA")
    BY DEF IInv, LastInv
  <2>2. ~SlotZeroFollows'
    BY <1>2, <1>3 DEF SlotZeroFollows
  <2> QED
    BY <1>2, <1>3, <2>1, <2>2 DEF LastInv
<1>7. DueInv'
  BY <1>2 DEF IInv, DueInv
<1>8. Written' = Written
  BY <1>2 DEF Written
<1>9. SentInv' /\ OffInv'
  BY <1>2, <1>3, <1>8 DEF IInv, SentInv, OffInv, Stays
<1> QED
  BY <1>2, <1>3, <1>5, <1>6, <1>7, <1>8, <1>9 DEF IInv

(* A session begins or ends.                                               *)
LEMMA SessionIInv ==
  ASSUME IInv, TypeOK', Stays, NEW b \in BOOLEAN, SetAssociated(b),
         UNCHANGED <<alloc, due, granted, fresh>>
  PROVE  IInv'
<1>1. Current' = Current /\ PrevParity' = PrevParity /\ Prev' = Prev
      /\ tx_symbol' = tx_symbol /\ sent' = sent /\ ptt' = ptt
  BY StaysPut DEF IInv, Stays
<1>2. RowInv'
  BY DEF IInv, RowInv
<1>3. LastInv'
  BY <1>1 DEF IInv, LastInv, SlotZeroFollows, SlotZeroBegins
<1>4. ~is_associated' => steady' = 0
  BY DEF SetAssociated, IInv, DueInv
<1>5. DueInv'
  BY <1>1, <1>4 DEF IInv, DueInv
<1>6. Written' = Written
  BY <1>1 DEF Written
<1>7. SentInv'
  BY <1>1, <1>6 DEF IInv, SentInv
<1>8. is_associated' /\ ptt = "tx" /\ ~disturbed' => is_associated /\ ~disturbed
  BY DEF SetAssociated, IInv, TypeOK
<1>9. OffInv'
  BY <1>1, <1>6, <1>8 DEF IInv, OffInv
<1> QED
  BY <1>2, <1>3, <1>5, <1>7, <1>9 DEF IInv

---------------------------------------------------------------------------
(* What is written, and where that leads. *)

(* A symbol does what its entry in the row says.                           *)
LEMMA RowWritten ==
  ASSUME TypeOK, WriteRow
  PROVE  LET e == alloc[Current][tx_symbol]
         IN  /\ is_associated /\ e \in Alloc
             /\ e = "DATA" => Out("data", ptt)
             /\ e = "PTT_UP" => Out("zero", "tx")
             /\ e = "PTT_DOWN" => Out("zero", "rx")
             /\ e = "NOT_USED" => Out("zero", ptt)
<1> DEFINE e == alloc[Current][tx_symbol]
<1>1. e \in Alloc
  BY Where DEF TypeOK
<1>2. is_associated
      /\ CASE e = "DATA" -> Out("data", ptt)
           [] e = "PTT_UP" -> Out("zero", "tx")
           [] e = "PTT_DOWN" -> Out("zero", "rx")
           [] OTHER -> Out("zero", ptt)
  BY DEF WriteRow, Current
<1> HIDE DEF e
<1>3. /\ e = "DATA" => Out("data", ptt)
      /\ e = "PTT_UP" => Out("zero", "tx")
      /\ e = "PTT_DOWN" => Out("zero", "rx")
      /\ e = "NOT_USED" => Out("zero", ptt)
  BY <1>2
<1> QED
  BY <1>1, <1>2, <1>3 DEF e

LEMMA WritesOn ==
  ASSUME TypeOK, WriteSymbol
  PROVE  /\ tx_symbol' = IF tx_symbol = Last THEN 0 ELSE tx_symbol + 1
         /\ Current' = IF tx_symbol = Last THEN 1 - Current ELSE Current
         /\ PrevParity' = Current
         /\ Prev' = tx_symbol
<1>1. tx_symbol \in Symbols /\ tx_subframe \in 0 .. FRAME_LEN - 1
      /\ Last \in Nat /\ Last > 0 /\ Symbols = 0 .. Last
      /\ Last = SUBFRAME_LEN - 1
  BY Layout DEF TypeOK, Last
<1>2. tx_symbol' = IF tx_symbol = Last THEN 0 ELSE tx_symbol + 1
  BY <1>1, Positions DEF WriteSymbol
<1>3. tx_symbol' \in Symbols
  BY <1>1, <1>2
<1>4. tx_subframe' = IF tx_symbol = Last THEN (tx_subframe + 1) % FRAME_LEN
                     ELSE tx_subframe
  BY <1>1 DEF WriteSymbol
<1>5. Current' = IF tx_symbol = Last THEN 1 - Current ELSE Current
  BY <1>1, <1>4, Positions DEF Current
<1>6. tx_subframe' \in 0 .. FRAME_LEN - 1
  BY <1>1, <1>4, Positions
<1>7. /\ Prev' = IF tx_symbol' = 0 THEN Last ELSE tx_symbol' - 1
      /\ PrevParity' = IF tx_symbol' = 0 THEN 1 - Current' ELSE Current'
  BY <1>3, <1>6, Positions DEF Prev, PrevParity, Current
<1>8. Current \in 0 .. 1
  BY Where
<1> QED
  BY <1>1, <1>2, <1>5, <1>7, <1>8

(* The first symbol of a fresh row, and the last, and what follows what.   *)
LEMMA FreshRow ==
  ASSUME IInv, fresh[Current]
  PROVE  /\ granted[Current] \in [slots : SUBSET Slots, ctrl : {{}, {0}, {1}}]
         /\ granted[Current] \in AllGrants
         /\ \A n \in Symbols \ {Last} :
              alloc[Current][n] = Row(granted[Current].slots, granted[Current].ctrl)[n]
BY Where, GrantsTyped DEF IInv, RowInv, Filled

(* In a row that is fresh the transmitter is not left alone behind a       *)
(* symbol that needs it.                                                   *)
LEMMA NotLeftOn ==
  ASSUME IInv, fresh[PrevParity], Written \in On, fresh[Current]
  PROVE  alloc[Current][tx_symbol] # "NOT_USED"
<1> DEFINE c == Current
           m == tx_symbol
           g == granted[c]
           r == Row(g.slots, g.ctrl)
<1>1. /\ g.ctrl \in {{}, {0}, {1}}
      /\ \A n \in Symbols \ {Last} : alloc[c][n] = r[n]
  BY FreshRow
<1>2. /\ c \in 0 .. 1 /\ m \in Symbols /\ Last \in Symbols /\ 0 \in Symbols
      /\ PrevParity = IF m = 0 THEN 1 - c ELSE c
      /\ Prev = IF m = 0 THEN Last ELSE m - 1
      /\ Symbols = 0 .. Last /\ Last \in Nat /\ Last > 1
  BY Where, Layout DEF IInv
<1>3. CASE m = 0
  <2>1. 0 \in g.slots
    BY <1>2, <1>3 DEF IInv, LastInv, SlotZeroBegins, Written
  <2>2. alloc[c][0] = r[0] /\ r[0] = Used(0 \in g.slots)
    <3>1. 0 \in Symbols \ {Last}
      BY <1>2
    <3> QED
      BY <1>1, <3>1, RowSymbols
  <2> QED
    BY <1>3, <2>1, <2>2 DEF Used
<1>4. CASE m # 0
  <2>1. Prev = m - 1 /\ Prev \in Symbols \ {Last} /\ PrevParity = c
    BY <1>2, <1>4
  <2>2. r[Prev] \in On
    BY <1>1, <2>1 DEF Written
  <2> HIDE DEF r
  <2>3. CASE m # Last
    <3>1. r[Prev + 1] # "NOT_USED"
      <4>1. Prev \in Symbols /\ Prev < Last
        BY <1>2, <2>1
      <4> QED
        BY <1>1, <2>2, <4>1, RowForward DEF r
    <3>2. Prev + 1 = m
      BY <1>2, <2>1
    <3> QED
      BY <1>1, <1>2, <2>3, <3>1, <3>2
  <2>4. CASE m = Last
    <3>1. r[Last - 1] = Used(3 \in g.slots)
      BY <1>2, RowSymbols DEF r
    <3>2. 3 \in g.slots
      BY <2>1, <2>2, <2>4, <3>1 DEF Used, On
    <3>3. ~due
      BY <2>4 DEF IInv, DueInv
    <3>4. \/ alloc[c][Last] \in On
          \/ alloc[c][Last] = Gap(3 \in g.slots, FALSE, "DATA")
      BY <3>3 DEF IInv, LastInv
    <3> QED
      BY <2>4, <3>2, <3>4 DEF Gap, On
  <2> QED
    BY <2>3, <2>4
<1> QED
  BY <1>3, <1>4

(* The transmit thread writes a symbol.                                    *)
LEMMA WriteIInv ==
  ASSUME IInv, TypeOK', WriteSymbol
  PROVE  IInv'
<1> DEFINE c == Current
           o == 1 - Current
           m == tx_symbol
           e == alloc[c][m]
<1>1. /\ m' = IF m = Last THEN 0 ELSE m + 1
      /\ Current' = IF m = Last THEN o ELSE c
      /\ PrevParity' = c /\ Prev' = m
  BY WritesOn DEF IInv
<1>2. /\ c \in 0 .. 1 /\ o \in 0 .. 1 /\ 1 - o = c
      /\ m \in Symbols /\ Symbols = 0 .. Last /\ Last \in Nat /\ Last > 1
      /\ Last = SUBFRAME_LEN - 1 /\ SUBFRAME_LEN \in Nat
  BY Where, Layout DEF IInv
<1>3. alloc' = alloc /\ granted' = granted /\ fresh' = fresh
      /\ is_associated' = is_associated
  BY DEF WriteSymbol
<1>4. Written' = e
  BY <1>1, <1>3 DEF Written
<1>5. RowInv'
  BY <1>3 DEF IInv, RowInv
<1>6. LastInv'
  <2>1. CASE m = Last
    <3>1. Current' = o /\ 1 - Current' = c /\ m' = 0
      BY <1>1, <1>2, <2>1
    <3>2. ~due /\ due' = TRUE
      BY <1>2, <2>1 DEF IInv, DueInv, WriteSymbol
    <3>3. fresh[o] => alloc[o][Last] = Gap(3 \in granted[o].slots, FALSE, "DATA")
      BY <3>2 DEF IInv, LastInv
    <3>4. SlotZeroFollows => alloc[c][Last] \in On
      BY <3>2 DEF IInv, LastInv
    <3>5. fresh[c] /\ alloc[c][Last] \in On => SlotZeroFollows
      <4>1. fresh[c] /\ ~SlotZeroFollows =>
              alloc[c][Last] = Gap(3 \in granted[c].slots, FALSE, "DATA")
        BY DEF IInv, LastInv
      <4> QED
        BY <4>1 DEF Gap, On
    <3>6. SlotZeroBegins' <=> SlotZeroFollows
      BY <1>3, <3>1 DEF SlotZeroBegins, SlotZeroFollows
    <3> QED
      BY <1>3, <3>1, <3>2, <3>3, <3>4, <3>5, <3>6 DEF LastInv
  <2>2. CASE m # Last
    <3>1. Current' = c /\ m' # 0
      BY <1>1, <1>2, <2>2
    <3>2. due' = due
      BY <1>2, <2>2 DEF WriteSymbol
    <3> QED
      BY <1>3, <3>1, <3>2 DEF IInv, LastInv, SlotZeroFollows
  <2> QED
    BY <2>1, <2>2
<1>7. DueInv'
  <2>1. m' = Last => ~due'
    <3>1. m' = Last => m = SUBFRAME_LEN - 2 /\ m # Last
      BY <1>1, <1>2
    <3> QED
      BY <1>2, <3>1 DEF WriteSymbol
  <2>2. ~is_associated => steady' = steady
    BY DEF WriteSymbol
  <2> QED
    BY <1>3, <2>1, <2>2 DEF IInv, DueInv
<1>8. CASE WriteRach
  <2>1. sent' # "data" /\ ~is_associated
    BY <1>8 DEF WriteRach, Out
  <2> QED
    BY <1>3, <1>5, <1>6, <1>7, <2>1 DEF IInv, SentInv, OffInv
<1>9. CASE WriteRow
  <2>1. /\ is_associated /\ e \in Alloc
        /\ e = "DATA" => Out("data", ptt)
        /\ e = "PTT_UP" => Out("zero", "tx")
        /\ e = "PTT_DOWN" => Out("zero", "rx")
        /\ e = "NOT_USED" => Out("zero", ptt)
    BY <1>9, RowWritten DEF IInv
  <2> HIDE DEF e
  <2>2. SentInv'
    BY <1>4, <2>1 DEF SentInv, Out, Alloc
  <2>3. OffInv'
    <3> SUFFICES ASSUME ptt' = "tx", ~disturbed'
                 PROVE  fresh[c] /\ e \in On
      BY <1>1, <1>3, <1>4 DEF OffInv
    <3>1. \E what, switch : Out(what, switch)
      BY <2>1 DEF Alloc
    <3>2. fresh[c] /\ ~disturbed
      BY <2>1, <3>1 DEF Out, Current
    <3>3. e = "NOT_USED" => ptt = "tx"
      BY <2>1 DEF Out
    <3>4. e # "PTT_DOWN"
      BY <2>1 DEF Out
    <3>5. ptt = "tx" => e # "NOT_USED"
      BY <2>1, <3>2, NotLeftOn DEF IInv, OffInv, e
    <3> QED
      BY <2>1, <3>2, <3>3, <3>4, <3>5 DEF Alloc, On
  <2> QED
    BY <1>5, <1>6, <1>7, <2>2, <2>3 DEF IInv
<1> QED
  BY <1>8, <1>9 DEF WriteSymbol

(* A run of the scheduler, or a subframe without one.                      *)
LEMMA SchedulerSteps ==
  ASSUME IInv, TypeOK',
         \/ \E g \in Grants, lost \in BOOLEAN : RunScheduler(g, lost)
         \/ SkipRun
  PROVE  /\ IInv' /\ Stays
         /\ Written' = Written /\ Prev' = Prev /\ fresh'[Current] = fresh[Current]
         /\ is_associated' => steady' = steady /\ is_associated
<1>1. ASSUME NEW g \in Grants, NEW lost \in BOOLEAN, RunScheduler(g, lost),
             is_associated
      PROVE  /\ IInv' /\ Stays
             /\ Written' = Written /\ Prev' = Prev
             /\ fresh'[Current] = fresh[Current]
             /\ is_associated' => steady' = steady /\ is_associated
  <2>1. is_associated' => steady' = steady /\ is_associated
    BY <1>1 DEF RunScheduler, SetAssociated
  <2>2. Stays
    BY <1>1 DEF RunScheduler, Stays
  <2> QED
    BY <1>1, <2>1, <2>2, RunIInv
<1>2. ASSUME NEW g \in Grants, NEW lost \in BOOLEAN, RunScheduler(g, lost),
             ~is_associated
      PROVE  /\ IInv' /\ Stays
             /\ Written' = Written /\ Prev' = Prev
             /\ fresh'[Current] = fresh[Current]
             /\ is_associated' => steady' = steady /\ is_associated
  <2>1. /\ Stays /\ Grant(Nothing, FALSE) /\ due /\ due' = FALSE
        /\ tx_symbol - RunSymbol \in Delays
        /\ UNCHANGED <<alloc, is_associated, disturbed, steady>>
    BY <1>2 DEF RunScheduler, Stays
  <2> QED
    BY <1>2, <2>1, NoRunIInv
<1>3. ASSUME SkipRun
      PROVE  /\ IInv' /\ Stays
             /\ Written' = Written /\ Prev' = Prev
             /\ fresh'[Current] = fresh[Current]
             /\ is_associated' => steady' = steady /\ is_associated
  <2>1. /\ Stays /\ Grant(Nothing, FALSE) /\ due /\ due' = FALSE
        /\ tx_symbol = SUBFRAME_LEN - 2
        /\ UNCHANGED <<alloc, is_associated, disturbed, steady>>
    BY <1>3 DEF SkipRun, Stays
  <2> QED
    BY <2>1, NoRunIInv
<1> QED
  BY <1>1, <1>2, <1>3

LEMMA SessionSteps ==
  ASSUME IInv, TypeOK', Associate \/ EndSession
  PROVE  IInv' /\ (is_associated' => steady' = 0)
<1>1. CASE Associate
  <2>1. /\ Stays /\ SetAssociated(TRUE)
        /\ UNCHANGED <<alloc, due, granted, fresh>>
    BY <1>1 DEF Associate, Stays
  <2>2. steady' = 0
    BY <1>1 DEF Associate, SetAssociated
  <2> QED
    BY <2>1, <2>2, SessionIInv
<1>2. CASE EndSession
  <2>1. /\ Stays /\ SetAssociated(FALSE)
        /\ UNCHANGED <<alloc, due, granted, fresh>>
    BY <1>2 DEF EndSession, Stays
  <2>2. ~is_associated'
    BY <1>2 DEF EndSession, SetAssociated
  <2> QED
    BY <2>1, <2>2, SessionIInv
<1> QED
  BY <1>1, <1>2

LEMMA StepIInv ==
  ASSUME IInv, [Next]_vars
  PROVE  IInv'
<1>1. CASE Next
  <2>1. TypeOK'
    BY <1>1, StepTypeOK DEF IInv
  <2> QED
    BY <1>1, <2>1, SchedulerSteps, SessionSteps, WriteIInv DEF Next
<1>2. CASE UNCHANGED vars
  <2>1. /\ Current' = Current /\ PrevParity' = PrevParity /\ Prev' = Prev
        /\ Written' = Written
    BY <1>2 DEF vars, Current, PrevParity, Prev, Written
  <2> USE <1>2, <2>1 DEF vars, history, IInv
  <2>2. TypeOK'
    BY DEF TypeOK
  <2>3. RowInv' /\ DueInv' /\ SentInv' /\ OffInv'
    BY DEF RowInv, DueInv, SentInv, OffInv
  <2>4. LastInv'
    BY DEF LastInv, SlotZeroFollows, SlotZeroBegins
  <2> QED
    BY <2>2, <2>3, <2>4
<1> QED
  BY <1>1, <1>2

(* The symbol written last belongs to a slot that was given.               *)
LEMMA OnMeansWindow ==
  ASSUME IInv, fresh[PrevParity], Written \in On
  PROVE  InWindow
<1>1. /\ PrevParity = IF tx_symbol = 0 THEN 1 - Current ELSE Current
      /\ Prev = IF tx_symbol = 0 THEN Last ELSE tx_symbol - 1
      /\ Prev \in Symbols /\ Current \in 0 .. 1
      /\ tx_symbol \in 0 .. Last /\ Last \in Nat
  BY Where, Layout DEF IInv
<1>2. CASE tx_symbol = 0
  <2>1. SlotZeroBegins
    BY <1>1, <1>2 DEF IInv, LastInv, Written
  <2>2. 1 - PrevParity = Current /\ Prev = SUBFRAME_LEN - 1
    BY <1>1, <1>2 DEF Last
  <2> QED
    BY <2>1, <2>2 DEF InWindow, SlotZeroBegins
<1>3. CASE tx_symbol # 0
  <2>1. PrevParity = Current /\ Prev \in Symbols \ {Last}
    BY <1>1, <1>3
  <2>2. LET g == granted[PrevParity]
        IN  /\ g \in [slots : SUBSET Slots, ctrl : {{}, {0}, {1}}]
            /\ Row(g.slots, g.ctrl)[Prev] \in On
    BY <2>1, FreshRow DEF Written
  <2> QED
    BY <2>1, <2>2, RowInWindow DEF InWindow
<1> QED
  BY <1>2, <1>3

(* As long as the scheduler runs, data is sent only in slots that were     *)
(* given for this very subframe: phy_ue_write_symbol never sends what is   *)
(* left in a row from two subframes before.                                *)
THEOREM DataAlwaysGranted == Spec => []DataOnlyGranted
<1>1. IInv => DataOnlyGranted
  BY OnMeansWindow DEF IInv, SentInv, DataOnlyGranted, On
<1> QED
  BY <1>1, InitIInv, StepIInv, PTL DEF Spec

(* The transmitter is on only around slots that were given: phy_map_ulslot *)
(* and phy_map_ulctrl switch it off behind each of them, or the next one   *)
(* does.                                                                   *)
THEOREM PttAlwaysInWindow == Spec => []PttInWindow
<1>1. IInv => PttInWindow
  BY OnMeansWindow DEF IInv, OffInv, PttInWindow
<1> QED
  BY <1>1, InitIInv, StepIInv, PTL DEF Spec

---------------------------------------------------------------------------
(* Everything that is sent goes out. *)

(* Data in the middle of a row has data before it, or the symbol that      *)
(* switches on, and where it is the first behind slot 1 the latter.        *)
LEMMA BeforeData ==
  ASSUME IInv, ~Ctrl0After1, tx_symbol # 0, tx_symbol # Last,
         alloc[Current][tx_symbol] = "DATA"
  PROVE  /\ Written \in On
         /\ Prev = 2 * SLOT_LEN + 1 => Written # "DATA"
<1> DEFINE c == Current
           m == tx_symbol
<1>1. /\ c \in 0 .. 1 /\ m \in Symbols \ {Last} /\ m > 0 /\ PrevParity = c
      /\ Prev = m - 1 /\ Prev \in Symbols \ {Last}
  <2>1. /\ c \in 0 .. 1 /\ m \in Symbols /\ PrevParity = c /\ Prev = m - 1
        /\ Prev \in Symbols
    BY Where DEF IInv
  <2>2. Symbols = 0 .. Last /\ Last \in Nat
    BY Layout
  <2> QED
    BY <2>1, <2>2
<1>2. PICK g \in AllGrants : Filled(alloc[c], g)
  BY <1>1 DEF IInv, RowInv
<1>3. g.ctrl \in {{}, {0}, {1}} /\ ~(1 \in g.slots /\ 0 \in g.ctrl)
  BY DEF AllGrants
<1> DEFINE r == Row(g.slots, g.ctrl)
<1>4. r[m] = "DATA" /\ Written = r[Prev]
  BY <1>1, <1>2 DEF Filled, Written
<1>5. r[m - 1] \in On
  BY <1>1, <1>3, <1>4, RowBackward
<1>6. Prev = 2 * SLOT_LEN + 1 => r[Prev] # "DATA"
  BY <1>1, Layout DEF Row, Gap
<1> HIDE DEF r
<1> QED
  BY <1>1, <1>4, <1>5, <1>6

(* A symbol that carries data finds the transmitter on.                    *)
LEMMA WriteOnInv ==
  ASSUME IInv, OnInv, TypeOK', WriteSymbol, ~Ctrl0After1
  PROVE  OnInv'
<1> DEFINE c == Current
           m == tx_symbol
           e == alloc[c][m]
<1> SUFFICES ASSUME is_associated', steady' >= 1
             PROVE  /\ m' >= 1 /\ Written' = "PTT_UP" => ptt' = "tx"
                    /\ m' >= 1 /\ Written' = "DATA"
                         /\ (Prev' > 2 * SLOT_LEN + 1
                               \/ (fresh'[Current'] /\ steady' = 2)) => ptt' = "tx"
                    /\ m' = 0 /\ steady' = 2 /\ Written' \in On => ptt' = "tx"
  BY DEF OnInv
<1>1. /\ m' = IF m = Last THEN 0 ELSE m + 1
      /\ Current' = IF m = Last THEN 1 - c ELSE c
      /\ PrevParity' = c /\ Prev' = m
  BY WritesOn DEF IInv
<1>2. /\ c \in 0 .. 1 /\ m \in 0 .. Last
      /\ PrevParity = IF m = 0 THEN 1 - c ELSE c
      /\ Prev = IF m = 0 THEN Last ELSE m - 1
      /\ Last = 4 * SLOT_LEN + 7 /\ SLOT_LEN \in Nat
      /\ Last = SUBFRAME_LEN - 1
  BY Where, Layout DEF IInv
<1>3. alloc' = alloc /\ fresh' = fresh /\ is_associated
  BY DEF WriteSymbol
<1>4. Written' = e
  BY <1>1, <1>3 DEF Written
<1>5. /\ e = "DATA" => Out("data", ptt)
      /\ e = "PTT_UP" => Out("zero", "tx")
  BY <1>3, RowWritten DEF IInv, WriteSymbol, WriteRach
<1>6. e = "PTT_UP" => ptt' = "tx"
  BY <1>5 DEF Out
<1>7. e = "DATA" => ptt' = ptt
  BY <1>5 DEF Out
<1>8. m # Last => steady' = steady
  BY <1>2 DEF WriteSymbol
<1>9. steady' = 2 => steady >= 1
  BY DEF WriteSymbol, IInv, TypeOK
<1>10. ASSUME m # Last, e = "DATA",
              m > 2 * SLOT_LEN + 1 \/ (fresh[c] /\ steady = 2)
       PROVE  ptt = "tx"
  <2>1. steady >= 1
    BY <1>8, <1>10
  <2>2. CASE m = 0
    <3>1. fresh[c] /\ steady = 2
      BY <1>2, <1>10, <2>2
    <3>2. 0 \in granted[c].slots
      <4>1. 0 \in Symbols \ {Last}
        BY <1>2, Layout
      <4>2. e = Row(granted[c].slots, granted[c].ctrl)[0]
        BY <2>2, <3>1, <4>1, FreshRow
      <4>3. Row(granted[c].slots, granted[c].ctrl)[0] = Used(0 \in granted[c].slots)
        BY <4>1, RowSymbols
      <4> QED
        BY <1>10, <2>2, <4>2, <4>3 DEF Used
    <3>3. Written \in On
      BY <1>2, <2>2, <3>1, <3>2 DEF IInv, LastInv, SlotZeroBegins, Written
    <3> QED
      BY <1>3, <2>1, <2>2, <3>1, <3>3 DEF OnInv
  <2>3. CASE m # 0
    <3>1. Written \in On /\ (Prev = 2 * SLOT_LEN + 1 => Written # "DATA")
      BY <1>10, <2>3, BeforeData
    <3>2. m >= 1 /\ Prev = m - 1
      BY <1>2, <2>3
    <3>3. CASE Written = "PTT_UP"
      BY <1>3, <2>1, <3>2, <3>3 DEF OnInv
    <3>4. CASE Written = "DATA"
      <4>1. Prev > 2 * SLOT_LEN + 1 \/ (fresh[Current] /\ steady = 2)
        BY <1>2, <1>10, <3>1, <3>2, <3>4
      <4> QED
        BY <1>3, <2>1, <3>2, <3>4, <4>1 DEF OnInv
    <3> QED
      BY <3>1, <3>3, <3>4 DEF On
  <2> QED
    BY <2>2, <2>3
<1>11. ASSUME m = Last, e = "DATA", steady >= 1
       PROVE  ptt = "tx"
  <2>1. Written = "DATA"
    <3>1. alloc[c][Last - 1] = "DATA"
      BY <1>2, <1>11 DEF IInv, RowInv
    <3>2. PrevParity = c /\ Prev = Last - 1
      BY <1>2, <1>11
    <3> QED
      BY <3>1, <3>2 DEF Written
  <2>2. m >= 1 /\ Prev > 2 * SLOT_LEN + 1
    BY <1>2, <1>11
  <2> QED
    BY <1>3, <1>11, <2>1, <2>2 DEF OnInv
<1>12. m' >= 1 => m # Last /\ Current' = c
  BY <1>1
<1>13. m' = 0 => m = Last
  BY <1>1, <1>2
<1> HIDE DEF e
<1>14. m' >= 1 /\ e = "DATA"
         /\ (m > 2 * SLOT_LEN + 1 \/ (fresh[c] /\ steady' = 2)) => ptt' = "tx"
  BY <1>7, <1>8, <1>10, <1>12
<1>15. m' = 0 /\ steady' = 2 /\ e \in On => ptt' = "tx"
  BY <1>6, <1>7, <1>9, <1>11, <1>13 DEF On
<1> QED
  BY <1>1, <1>3, <1>4, <1>6, <1>12, <1>14, <1>15

LEMMA StepOnInv ==
  ASSUME IInv, OnInv, [Next]_vars, ~Ctrl0After1
  PROVE  OnInv'
<1>1. CASE Next
  <2>1. TypeOK'
    BY <1>1, StepTypeOK DEF IInv
  <2>2. CASE \/ \E g \in Grants, lost \in BOOLEAN : RunScheduler(g, lost)
             \/ SkipRun
    <3>1. /\ Stays /\ Written' = Written /\ Prev' = Prev
          /\ fresh'[Current] = fresh[Current]
          /\ is_associated' => steady' = steady /\ is_associated
      BY <2>1, <2>2, SchedulerSteps
    <3>2. Current' = Current /\ tx_symbol' = tx_symbol /\ ptt' = ptt
      BY <3>1, StaysPut DEF IInv, Stays
    <3> QED
      BY <3>1, <3>2 DEF OnInv
  <2>3. CASE Associate \/ EndSession
    <3>1. is_associated' => steady' = 0
      BY <2>1, <2>3, SessionSteps
    <3> QED
      BY <3>1 DEF OnInv
  <2>4. CASE WriteSymbol
    BY <2>1, <2>4, WriteOnInv
  <2> QED
    BY <1>1, <2>2, <2>3, <2>4 DEF Next
<1>2. CASE UNCHANGED vars
  <2>1. /\ Current' = Current /\ Prev' = Prev /\ Written' = Written
    BY <1>2 DEF vars, Current, PrevParity, Prev, Written
  <2> QED
    BY <1>2, <2>1 DEF vars, history, OnInv
<1> QED
  BY <1>1, <1>2

(* Everything that is sent goes out: the transmitter is on for every       *)
(* symbol with data, if slot 1 and control slot 0 are never given in one   *)
(* subframe (where they are, phy_map_ulctrl leaves it off).                *)
THEOREM DataAlwaysWithPtt ==
  ASSUME ~Ctrl0After1
  PROVE  Spec => []DataWithPtt
<1>1. Init => IInv /\ OnInv
  BY InitIInv DEF Init, OnInv
<1>2. IInv /\ OnInv /\ [Next]_vars => IInv' /\ OnInv'
  BY StepIInv, StepOnInv
<1>3. IInv /\ OnInv => DataWithPtt
  <2> SUFFICES ASSUME IInv, OnInv, sent = "data", fresh[PrevParity], steady = 2
               PROVE  ptt = "tx"
    BY DEF DataWithPtt
  <2>1. is_associated /\ steady >= 1
    BY DEF IInv, DueInv
  <2>2. Written = "DATA"
    BY DEF IInv, SentInv
  <2>3. CASE tx_symbol = 0
    BY <2>1, <2>2, <2>3 DEF OnInv, On
  <2>4. CASE tx_symbol # 0
    <3>1. PrevParity = Current /\ tx_symbol \in Symbols
      BY <2>4, Where DEF IInv
    <3>2. tx_symbol >= 1
      BY <2>4, <3>1, Layout
    <3> QED
      BY <2>1, <2>2, <3>1, <3>2 DEF OnInv
  <2> QED
    BY <2>3, <2>4
<1> QED
  BY <1>1, <1>2, <1>3, PTL DEF Spec
==========================================================================
