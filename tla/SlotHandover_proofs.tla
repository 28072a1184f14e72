----------------------- MODULE SlotHandover_proofs -----------------------
(***************************************************************************)
(* Proofs about SlotHandover, for slots of any length, any number of users *)
(* and whatever rows the scheduler writes, at the base station and at a    *)
(* client.  Nothing in the program makes the slot thread answer a signal   *)
(* in time, so that all but the types rests on a budget of time.           *)
(***************************************************************************)
EXTENDS SlotHandover, TLAPS

(* Decoding takes less time than a slot, and the scheduler is done before  *)
(* slot 1 ends.  (With slots of 14 symbols and the scheduler woken at      *)
(* symbol 4: 13 symbols to decode and 23 for the scheduler.)               *)
Budget ==
  /\ DecodeTime < SLOT_LEN
  /\ SchedSymbol + 1 < SLOT_LEN
  /\ SchedSymbol + SchedTime < 2 * SLOT_LEN

(* Where the run of the scheduler begins.                                  *)
Start == IF side = "BS" THEN SchedSymbol
         ELSE IF phase = 0 THEN DLCTRL_LEN ELSE DLCTRL_LEN + 1

(* When the scheduler must be done with a run, or the slot has ended,      *)
(* whichever is later.                                                     *)
Due(nr) == IF SlotEnd(nr) > Start + SchedTime THEN SlotEnd(nr) ELSE Start + SchedTime

(* Symbols since a slot ended.                                             *)
Age(nr) == IF rx_symbol >= SlotEnd(nr) THEN rx_symbol - SlotEnd(nr)
           ELSE rx_symbol + SUBFRAME_LEN - SlotEnd(nr)

(* The row of this subframe is what its slots really are, for the client   *)
(* once its control channel is complete.                                   *)
RowInv ==
  side = "BS" \/ rx_symbol >= DLCTRL_LEN => onAir = assignments[rx_subframe % 2]

(* The scheduler is as far as the symbols since its start.                 *)
SchedInv == sched.pc # "wait" => rx_symbol = Start + sched.time

(* A thread that has been woken is still in the subframe of its slot, and  *)
(* runs before the next slot ends.                                         *)
WokenInv ==
  slot_th.pc = "woken" =>
    /\ slot_th.time = 0 /\ rx_slot_nr = slot_th.nr
    /\ \/ rx_symbol \in SlotEnd(slot_th.nr) .. Due(slot_th.nr)
       \/ rx_symbol = Due(slot_th.nr) + 1 /\ rx_symbol % 2 = phase
       \/ Hurried /\ rx_symbol = 0
    /\ Hurried \/ slot_th.expected = onAir[slot_th.nr]

(* Slots 0 to 2 are decoded before the subframe ends, and so before the    *)
(* next run of the scheduler.                                              *)
DecodeInv ==
  side = "BS" /\ slot_th.pc = "decode" /\ slot_th.nr # 3 =>
    /\ sched.pc = "wait"
    /\ rx_symbol >= SlotEnd(slot_th.nr)
    /\ rx_symbol <= slot_th.time + 1 +
                      (IF slot_th.nr = 0 THEN 2 * SLOT_LEN ELSE SlotEnd(slot_th.nr))

(* A thread that the scheduler has not delayed is done in time.            *)
UndelayedInv ==
  slot_th.pc \in {"woken", "decode"} /\ ~slot_th.delayed =>
    /\ slot_th.pc = "woken" =>
         Age(slot_th.nr) = 0 \/ (Age(slot_th.nr) = 1 /\ rx_symbol % 2 = phase)
    /\ slot_th.pc = "decode" =>
         /\ Age(slot_th.nr) <= slot_th.time + 1
         /\ sched.pc # "wait" => sched.time = 0

PhaseInv == side = "BS" => phase = 1

IInv ==
  /\ TypeOK /\ PhaseInv /\ RowInv /\ SchedInv /\ WokenInv /\ DecodeInv
  /\ UndelayedInv /\ DecodesAssigned /\ RemovedOnlyInLastSlot

---------------------------------------------------------------------------
(* Where slots end. *)

LEMMA Lengths ==
  /\ SLOT_LEN \in Nat /\ SLOT_LEN >= 1
  /\ DLCTRL_LEN \in Nat /\ DLCTRL_LEN >= 2 /\ DLCTRL_LEN % 2 = 0
  /\ SUBFRAME_LEN = 4 * SLOT_LEN + DLCTRL_LEN + 6
  /\ SUBFRAME_LEN \in Nat /\ SUBFRAME_LEN % 2 = 0
<1>1. /\ SLOT_LEN \in Nat /\ SLOT_LEN >= 1
      /\ DLCTRL_LEN \in Nat /\ DLCTRL_LEN # 0 /\ DLCTRL_LEN % 2 = 0
      /\ SUBFRAME_LEN = 4 * SLOT_LEN + DLCTRL_LEN + 6
  BY HandoverAssumption
<1>2. DLCTRL_LEN >= 2 /\ SUBFRAME_LEN \in Nat
  BY <1>1
<1>3. SUBFRAME_LEN % 2 = 0
  BY <1>1
<1> QED
  BY <1>1, <1>2, <1>3

LEMMA Ends ==
  /\ side = "BS" => /\ SlotEnd(0) = SLOT_LEN /\ SlotEnd(1) = 2 * SLOT_LEN + 1
                    /\ SlotEnd(2) = 3 * SLOT_LEN + 6 /\ SlotEnd(3) = 4 * SLOT_LEN + 7
  /\ side # "BS" => /\ SlotEnd(0) = SLOT_LEN + DLCTRL_LEN + 2
                    /\ SlotEnd(1) = 2 * SLOT_LEN + DLCTRL_LEN + 3
                    /\ SlotEnd(2) = 3 * SLOT_LEN + DLCTRL_LEN + 4
                    /\ SlotEnd(3) = 4 * SLOT_LEN + DLCTRL_LEN + 5
BY Lengths DEF SlotEnd

(* Every slot ends within its subframe.                                    *)
LEMMA EndInside ==
  ASSUME NEW s \in Slots
  PROVE  SlotEnd(s) \in 1 .. SUBFRAME_LEN - 1
BY Lengths, Ends, s = 0 \/ s = 1 \/ s = 2 \/ s = 3 DEF Slots

(* From one end of a slot to the next there is more than a slot.           *)
LEMMA Gaps ==
  ASSUME NEW s \in Slots, NEW nr \in Slots, NEW r \in 0 .. SUBFRAME_LEN - 1,
         r + 1 = SlotEnd(s)
  PROVE  IF r >= SlotEnd(nr) THEN r - SlotEnd(nr) >= SLOT_LEN
         ELSE r + SUBFRAME_LEN - SlotEnd(nr) >= SLOT_LEN
<1>1. \/ nr = 0 \/ nr = 1 \/ nr = 2 \/ nr = 3
  BY DEF Slots
<1>2. \/ s = 0 \/ s = 1 \/ s = 2 \/ s = 3
  BY DEF Slots
<1>3. CASE side = "BS"
  BY <1>1, <1>2, <1>3, Lengths, Ends
<1>4. CASE side # "BS"
  BY <1>1, <1>2, <1>4, Lengths, Ends
<1> QED
  BY <1>3, <1>4

(* What the next symbol modulo a number of them is.                        *)
LEMMA StepOn ==
  ASSUME NEW n \in Nat \ {0}, NEW r \in 0 .. n - 1
  PROVE  /\ (r + 1) % n = IF r + 1 = n THEN 0 ELSE r + 1
         /\ (r + 1) % n \in 0 .. n - 1
OBVIOUS

---------------------------------------------------------------------------
(* What a received symbol does. *)

(* Either no slot ends that is passed on, or one does and the slot thread  *)
(* is signalled.                                                           *)
SlotEnds(s) ==
  /\ rx_symbol + 1 = SlotEnd(s) /\ PassedOn(s)
  /\ rx_slot_nr' = s /\ slot_th' = Signalled(s)

LEMMA Received ==
  ASSUME TypeOK, RxSymbol
  PROVE  /\ InTime
         /\ UNCHANGED <<side, phase, UE>>
         /\ rx_symbol' = IF rx_symbol + 1 = SUBFRAME_LEN THEN 0 ELSE rx_symbol + 1
         /\ rx_symbol' \in 0 .. SUBFRAME_LEN - 1
         /\ rx_subframe' = IF rx_symbol + 1 = SUBFRAME_LEN THEN NextSubframe
                           ELSE rx_subframe
         /\ \/ slot_th' = Elapsed /\ rx_slot_nr' = rx_slot_nr
            \/ \E s \in Slots : SlotEnds(s)
         /\ sched' = IF sched.pc = "wait" /\ StartsScheduler(rx_symbol + 1)
                     THEN [pc |-> "assign", time |-> 0]
                     ELSE IF sched.pc = "wait" THEN sched
                     ELSE [sched EXCEPT !.time = @ + 1]
<1>1. rx_symbol' = (rx_symbol + 1) % SUBFRAME_LEN
  BY DEF RxSymbol
<1>2. /\ rx_symbol' = IF rx_symbol + 1 = SUBFRAME_LEN THEN 0 ELSE rx_symbol + 1
      /\ rx_symbol' \in 0 .. SUBFRAME_LEN - 1
  <2>1. SUBFRAME_LEN \in Nat \ {0} /\ rx_symbol \in 0 .. SUBFRAME_LEN - 1
    BY Lengths DEF TypeOK
  <2> QED
    BY <1>1, <2>1, StepOn
<1>3. \/ slot_th' = Elapsed /\ rx_slot_nr' = rx_slot_nr
      \/ \E s \in Slots : SlotEnds(s)
  BY DEF RxSymbol, SlotEnds
<1> QED
  BY <1>2, <1>3 DEF RxSymbol

(* The run of the scheduler begins at one place.                           *)
LEMMA StartsAt ==
  ASSUME TypeOK, StartsScheduler(rx_symbol + 1)
  PROVE  rx_symbol + 1 = Start
<1>1. CASE side = "BS"
  BY <1>1 DEF StartsScheduler, Start
<1>2. CASE side # "BS"
  <2>1. rx_symbol + 1 \in {DLCTRL_LEN, DLCTRL_LEN + 1} /\ (rx_symbol + 1) % 2 = phase
    BY <1>2 DEF StartsScheduler
  <2> QED
    BY <1>2, <2>1, Lengths DEF Start, TypeOK
<1> QED
  BY <1>1, <1>2

---------------------------------------------------------------------------
(* The types. *)

LEMMA WaitingTyped ==
  Waiting \in [pc : {"wait", "woken", "decode", "crashed"},
               slot : Slots, user : Users \cup {Nobody}, time : 0 .. DecodeTime,
               nr : Slots, expected : Users \cup {Nobody}, delayed : BOOLEAN]
BY HandoverAssumption DEF Waiting, Slots

LEMMA InitTypeOK == Init => TypeOK
<1> SUFFICES ASSUME Init PROVE TypeOK
  OBVIOUS
<1>1. EmptyRow \in [Slots -> Users \cup {Nobody}]
  BY DEF EmptyRow
<1>2. rx_symbol \in 0 .. SUBFRAME_LEN - 1 /\ rx_subframe \in 0 .. FRAME_LEN - 1
  BY Lengths, HandoverAssumption DEF Init
<1>3. sched \in [pc : {"wait", "assign", "remove"}, time : 0 .. SchedTime]
  BY HandoverAssumption DEF Init
<1> QED
  BY <1>1, <1>2, <1>3, WaitingTyped DEF Init, TypeOK, Slots

LEMMA StepTypeOK ==
  ASSUME TypeOK, Next
  PROVE  TypeOK'
<1> DEFINE Ids == Users \cup {Nobody}
           R == [Slots -> Ids]
           T == [pc : {"wait", "woken", "decode", "crashed"},
                 slot : Slots, user : Ids, time : 0 .. DecodeTime,
                 nr : Slots, expected : Ids, delayed : BOOLEAN]
<1>1. /\ rx_subframe % 2 \in 0 .. 1 /\ NextSubframe \in 0 .. FRAME_LEN - 1
      /\ NextSubframe % 2 \in 0 .. 1
  <2>1. NextSubframe \in 0 .. FRAME_LEN - 1
    BY StepOn, HandoverAssumption DEF TypeOK, NextSubframe
  <2> QED
    BY <2>1, HandoverAssumption DEF TypeOK
<1>2. CASE RxSymbol
  <2>1. /\ InTime /\ UNCHANGED <<side, phase, UE>>
        /\ rx_symbol' \in 0 .. SUBFRAME_LEN - 1
        /\ \/ rx_subframe' = NextSubframe \/ rx_subframe' = rx_subframe
    BY <1>2, Received
  <2>2. rx_subframe' \in 0 .. FRAME_LEN - 1
    BY <1>1, <2>1 DEF TypeOK
  <2>3. Elapsed \in T
    <3>1. slot_th \in T
      BY DEF TypeOK
    <3>2. [slot_th EXCEPT !.delayed = TRUE] \in T
      BY <3>1
    <3>3. sched.pc = "wait" /\ slot_th.pc = "decode" =>
            slot_th.time + 1 \in 0 .. DecodeTime
      BY <2>1, <3>1, HandoverAssumption DEF InTime
    <3>4. sched.pc = "wait" /\ slot_th.pc = "decode" =>
            [slot_th EXCEPT !.time = @ + 1] \in T
      BY <3>1, <3>3
    <3> QED
      BY <3>1, <3>2, <3>4 DEF Elapsed, TypeOK
  <2>4. ASSUME NEW s \in Slots
        PROVE  Signalled(s) \in T
    <3>1. onAir[s] \in Ids /\ slot_th \in T
      BY DEF TypeOK
    <3>2. [Waiting EXCEPT !.pc = "woken", !.nr = s, !.expected = onAir[s]] \in T
      BY <3>1, WaitingTyped
    <3> QED
      BY <3>1, <3>2 DEF Signalled
  <2>5. rx_slot_nr' \in Slots /\ slot_th' \in T
    BY <1>2, <2>3, <2>4, Received DEF SlotEnds, TypeOK
  <2>6. sched' \in [pc : {"wait", "assign", "remove"}, time : 0 .. SchedTime]
    <3>1. sched.pc # "wait" => sched.time + 1 \in 0 .. SchedTime
      BY <2>1, HandoverAssumption DEF InTime, TypeOK
    <3> QED
      BY <1>2, <3>1, Received, HandoverAssumption DEF TypeOK
  <2>7. onAir' \in R /\ assignments' \in [0 .. 1 -> R]
    <3>1. CASE ProcDlctrl
      <4>1. PICK row \in Rows :
              /\ onAir' = row
              /\ assignments' = [assignments EXCEPT ![rx_subframe % 2] = row]
        BY <3>1 DEF ProcDlctrl
      <4>2. row \in R
        BY HandoverAssumption
      <4> QED
        BY <1>1, <4>1, <4>2 DEF TypeOK
    <3>2. CASE /\ onAir' \in {assignments[NextSubframe % 2], onAir}
               /\ assignments' = assignments
      BY <1>1, <3>2 DEF TypeOK
    <3> QED
      BY <1>2, <3>1, <3>2 DEF RxSymbol
  <2> QED
    BY <2>1, <2>2, <2>5, <2>6, <2>7 DEF TypeOK
<1>3. CASE AddUser
  BY <1>3 DEF AddUser, TypeOK
<1>4. CASE SchedAssign
  <2>1. assignments' \in [0 .. 1 -> R]
    <3>1. CASE side = "UE" /\ UNCHANGED assignments
      BY <3>1 DEF TypeOK
    <3>2. ASSUME NEW row \in Rows,
                 assignments' = [assignments EXCEPT ![NextSubframe % 2] = row]
          PROVE  assignments' \in [0 .. 1 -> R]
      <4>1. row \in R
        BY HandoverAssumption
      <4> QED
        BY <1>1, <3>2, <4>1 DEF TypeOK
    <3> QED
      BY <1>4, <3>1, <3>2 DEF SchedAssign
  <2>2. sched' \in [pc : {"wait", "assign", "remove"}, time : 0 .. SchedTime]
    BY <1>4 DEF SchedAssign, TypeOK
  <2> QED
    BY <1>4, <2>1, <2>2 DEF SchedAssign, TypeOK
<1>5. CASE SchedRemove
  BY <1>5, HandoverAssumption DEF SchedRemove, TypeOK
<1>6. CASE LookUp
  <2>1. assignments[rx_subframe % 2][rx_slot_nr] \in Ids /\ rx_slot_nr \in Slots
    BY <1>1 DEF TypeOK
  <2>2. slot_th' \in T
    BY <1>6, <2>1, WaitingTyped DEF LookUp, TypeOK
  <2> QED
    BY <1>6, <2>2 DEF LookUp, TypeOK
<1>7. CASE Deliver
  <2>1. slot_th' \in T
    BY <1>7, WaitingTyped DEF Deliver, TypeOK
  <2> QED
    BY <1>7, <2>1 DEF Deliver, TypeOK
<1> QED
  BY <1>2, <1>3, <1>4, <1>5, <1>6, <1>7 DEF Next

(* Every value keeps its type, however long the threads take: a symbol, a  *)
(* subframe and a slot number stay in range, and rows name only users.     *)
THEOREM TypeCorrect == Spec => []TypeOK
<1>1. TypeOK /\ UNCHANGED vars => TypeOK'
  BY DEF TypeOK, vars
<1>2. TypeOK /\ [Next]_vars => TypeOK'
  BY <1>1, StepTypeOK
<1> QED
  BY <1>2, InitTypeOK, PTL DEF Spec
---------------------------------------------------------------------------
(* The budget, in symbols. *)

LEMMA Lasts ==
  ASSUME Budget
  PROVE  /\ DecodeTime \in Nat /\ DecodeTime < SLOT_LEN
         /\ SchedTime \in Nat /\ SchedTime >= 1
         /\ SchedSymbol \in Nat /\ SchedSymbol >= 1
         /\ SchedSymbol + 1 < SLOT_LEN /\ SchedSymbol + SchedTime < 2 * SLOT_LEN
         /\ SLOT_LEN >= 3
<1>1. /\ SLOT_LEN \in Nat /\ DecodeTime \in Nat
      /\ SchedTime \in Nat /\ SchedTime >= 1
      /\ SchedSymbol \in Nat /\ SchedSymbol >= 1
  BY HandoverAssumption
<1> QED
  BY <1>1 DEF Budget

LEMMA StartIs ==
  ASSUME TypeOK
  PROVE  /\ side = "BS" => Start = SchedSymbol
         /\ side # "BS" => Start \in {DLCTRL_LEN, DLCTRL_LEN + 1}
BY DEF Start

(* The scheduler is done within the subframe, and no slot ends with the    *)
(* first symbol of its run.                                                *)
LEMMA StartInside ==
  ASSUME Budget, TypeOK
  PROVE  /\ Start \in Nat /\ Start >= 1 /\ Start + SchedTime < SUBFRAME_LEN
         /\ \A s \in Slots : Start + 1 # SlotEnd(s)
<1>1. Start \in Nat /\ Start >= 1 /\ Start + SchedTime < SUBFRAME_LEN
  BY Lengths, Lasts, StartIs
<1>2. ASSUME NEW s \in Slots
      PROVE  Start + 1 # SlotEnd(s)
  <2>1. s = 0 \/ s = 1 \/ s = 2 \/ s = 3
    BY DEF Slots
  <2>2. CASE side = "BS"
    BY <2>1, <2>2, Lengths, Lasts, StartIs, Ends
  <2>3. CASE side # "BS"
    BY <2>1, <2>3, Lengths, Lasts, StartIs, Ends
  <2> QED
    BY <2>2, <2>3
<1> QED
  BY <1>1, <1>2

(* A slot that is not the last is due before the next one ends.            *)
LEMMA DueIs ==
  ASSUME Budget, TypeOK, NEW nr \in Slots
  PROVE  /\ SlotEnd(nr) \in Nat /\ SlotEnd(nr) >= 1 /\ Due(nr) \in Nat
         /\ Due(nr) >= SlotEnd(nr) /\ Due(nr) >= Start + SchedTime
         /\ nr = 3 => Due(nr) = SlotEnd(nr) /\ SlotEnd(nr) > Start + SchedTime
         /\ nr # 3 => /\ Due(nr) + 1 < SUBFRAME_LEN
                      /\ \A s \in Slots : SlotEnd(s) > SlotEnd(nr)
                                            => SlotEnd(s) > Due(nr) + 1
         /\ side = "BS" /\ nr = 0 => Due(nr) < 2 * SLOT_LEN
         /\ nr \in {1, 2} => Due(nr) = SlotEnd(nr)
<1>1. nr = 0 \/ nr = 1 \/ nr = 2 \/ nr = 3
  BY DEF Slots
<1>2. SlotEnd(nr) \in Nat /\ SlotEnd(nr) >= 1
  BY EndInside, Lengths
<1>3. Start \in Nat /\ SchedTime \in Nat
  BY StartInside, Lasts
<1>4. /\ Due(nr) \in Nat
      /\ Due(nr) >= SlotEnd(nr) /\ Due(nr) >= Start + SchedTime
      /\ Due(nr) = SlotEnd(nr) \/ Due(nr) = Start + SchedTime
      /\ SlotEnd(nr) > Start + SchedTime => Due(nr) = SlotEnd(nr)
  BY <1>2, <1>3 DEF Due
<1>5. nr # 0 => SlotEnd(nr) > Start + SchedTime
  <2>1. CASE side = "BS"
    BY <1>1, <2>1, Lengths, Lasts, StartIs, Ends
  <2>2. CASE side # "BS"
    BY <1>1, <2>2, Lengths, Lasts, StartIs, Ends
  <2> QED
    BY <2>1, <2>2
<1>6. nr # 3 => Due(nr) + 1 < SUBFRAME_LEN
  <2>1. CASE side = "BS"
    BY <1>1, <1>4, <2>1, Lengths, Lasts, StartIs, Ends
  <2>2. CASE side # "BS"
    BY <1>1, <1>4, <2>2, Lengths, Lasts, StartIs, Ends
  <2> QED
    BY <2>1, <2>2
<1>7. ASSUME nr # 3, NEW s \in Slots, SlotEnd(s) > SlotEnd(nr)
      PROVE  SlotEnd(s) > Due(nr) + 1
  <2>1. s = 0 \/ s = 1 \/ s = 2 \/ s = 3
    BY DEF Slots
  <2>2. CASE side = "BS"
    BY <1>1, <1>4, <1>7, <2>1, <2>2, Lengths, Lasts, StartIs, Ends
  <2>3. CASE side # "BS"
    BY <1>1, <1>4, <1>7, <2>1, <2>3, Lengths, Lasts, StartIs, Ends
  <2> QED
    BY <2>2, <2>3
<1>8. side = "BS" /\ nr = 0 => Due(nr) < 2 * SLOT_LEN
  BY <1>4, Lengths, Lasts, StartIs, Ends
<1> QED
  BY <1>2, <1>4, <1>5, <1>6, <1>7, <1>8

---------------------------------------------------------------------------
(* Steps of the receive thread. *)

LEMMA Same ==
  ASSUME side' = side, phase' = phase
  PROVE  /\ Start' = Start
         /\ \A s \in Slots : SlotEnd(s)' = SlotEnd(s) /\ Due(s)' = Due(s)
BY DEF SlotEnd, Due, Start

(* A thread that is not waiting goes on with what it has.                  *)
LEMMA ThreadKeeps ==
  ASSUME TypeOK, RxSymbol, slot_th.pc # "wait"
  PROVE  /\ slot_th'.pc = slot_th.pc /\ slot_th'.user = slot_th.user
         /\ slot_th'.nr = slot_th.nr /\ slot_th'.expected = slot_th.expected
         /\ slot_th'.slot = slot_th.slot
<1>1. slot_th' = Elapsed \/ slot_th' = slot_th
  BY Received DEF SlotEnds, Signalled
<1> QED
  BY <1>1 DEF Elapsed, TypeOK

(* A thread that waits is woken by the end of a slot, and by nothing else. *)
LEMMA ThreadWoken ==
  ASSUME TypeOK, RxSymbol, slot_th.pc = "wait", slot_th'.pc # "wait"
  PROVE  \E s \in Slots :
           /\ rx_symbol + 1 = SlotEnd(s) /\ rx_slot_nr' = s
           /\ slot_th'.pc = "woken" /\ slot_th'.nr = s /\ slot_th'.time = 0
           /\ slot_th'.expected = onAir[s]
<1>1. slot_th' # Elapsed
  BY DEF Elapsed
<1>2. PICK s \in Slots : SlotEnds(s)
  BY <1>1, Received
<1>3. slot_th' = [Waiting EXCEPT !.pc = "woken", !.nr = s, !.expected = onAir[s]]
  BY <1>2 DEF SlotEnds, Signalled
<1> QED
  BY <1>2, <1>3 DEF SlotEnds, Waiting

(* A run that lasts another symbol is done in time.                        *)
LEMMA RunLasts ==
  ASSUME Budget, TypeOK, SchedInv, InTime, sched.pc # "wait"
  PROVE  /\ rx_symbol = Start + sched.time /\ sched.time \in Nat
         /\ rx_symbol + 1 <= Start + SchedTime
<1>1. sched.time \in 0 .. SchedTime /\ sched.time < SchedTime
  BY DEF TypeOK, InTime
<1>2. rx_symbol = Start + sched.time
  BY DEF SchedInv
<1> QED
  BY <1>1, <1>2, Lasts, StartInside

(* Where the next symbol finds a thread that is still to run: before any   *)
(* other slot ends, or, hurried, at the end of the subframe.               *)
LEMMA WokenLasts ==
  ASSUME Budget, TypeOK, PhaseInv, SchedInv, WokenInv, InTime,
         slot_th.pc = "woken"
  PROVE  \/ /\ slot_th.nr # 3
            /\ rx_symbol >= SlotEnd(slot_th.nr)
            /\ \/ rx_symbol + 1 <= Due(slot_th.nr)
               \/ /\ rx_symbol + 1 = Due(slot_th.nr) + 1
                  /\ (rx_symbol + 1) % 2 = phase
         \/ Hurried /\ rx_symbol + 1 = SUBFRAME_LEN
<1> DEFINE nr == slot_th.nr
           due == Due(slot_th.nr)
           end == SlotEnd(slot_th.nr)
<1>1. nr \in Slots /\ rx_symbol \in 0 .. SUBFRAME_LEN - 1 /\ phase \in {0, 1}
  BY DEF TypeOK
<1>2. /\ end \in Nat /\ end >= 1 /\ due \in Nat
      /\ due >= end /\ due >= Start + SchedTime
      /\ nr = 3 => due = end /\ end > Start + SchedTime
  BY <1>1, DueIs
<1>3. \/ rx_symbol \in end .. due
      \/ rx_symbol = due + 1 /\ rx_symbol % 2 = phase
      \/ Hurried /\ rx_symbol = 0
  BY DEF WokenInv
<1>4. sched.pc # "wait" => rx_symbol >= Start /\ rx_symbol + 1 <= Start + SchedTime
  BY RunLasts, StartInside, Lasts
<1>5. sched.pc = "wait" => rx_symbol % 2 # phase
  BY DEF InTime
<1>6. ~(Hurried /\ rx_symbol = 0)
  BY <1>4, <1>5, StartInside DEF Hurried
<1>7. CASE nr # 3
  <2>1. rx_symbol >= end
    BY <1>1, <1>2, <1>3, <1>6, Lengths
  <2>2. CASE sched.pc # "wait"
    <3>1. rx_symbol + 1 <= due
      BY <1>1, <1>2, <1>4, <2>2, Lengths, Lasts, StartInside
    <3> QED
      BY <1>7, <2>1, <3>1
  <2>3. CASE sched.pc = "wait"
    <3>1. rx_symbol % 2 # phase
      BY <1>5, <2>3
    <3>2. rx_symbol <= due
      BY <1>1, <1>2, <1>3, <1>6, <3>1, Lengths
    <3>3. (rx_symbol + 1) % 2 = phase
      BY <1>1, <3>1, Lengths
    <3>4. rx_symbol + 1 <= due \/ rx_symbol + 1 = due + 1
      BY <1>1, <1>2, <3>2, Lengths
    <3> QED
      BY <1>7, <2>1, <3>3, <3>4
  <2> QED
    BY <2>2, <2>3
<1>8. CASE nr = 3
  <2>1. end = due /\ end > Start + SchedTime
    BY <1>2, <1>8
  <2>2. sched.pc = "wait"
    BY <1>1, <1>2, <1>3, <1>4, <1>6, <2>1, Lengths, Lasts, StartInside
  <2>3. rx_symbol % 2 # phase
    BY <1>5, <2>2
  <2>4. rx_symbol = end
    BY <1>1, <1>2, <1>3, <1>6, <2>1, <2>3, Lengths
  <2>5. end % 2 = 1 /\ (side # "BS" => end + 1 = SUBFRAME_LEN)
    <3>1. side = "BS" => end = 4 * SLOT_LEN + 7
      BY <1>8, Ends
    <3>2. side # "BS" => end = 4 * SLOT_LEN + DLCTRL_LEN + 5
      BY <1>8, Ends
    <3> QED
      BY <3>1, <3>2, Lengths
  <2>6. phase = 0
    BY <1>1, <2>3, <2>4, <2>5
  <2>7. side = "UE"
    BY <2>6 DEF PhaseInv, TypeOK
  <2> QED
    BY <1>8, <2>4, <2>5, <2>6, <2>7 DEF Hurried
<1> QED
  BY <1>7, <1>8

(* While a thread is still to run, no slot ends.                           *)
LEMMA WokenBeforeEnd ==
  ASSUME Budget, TypeOK, PhaseInv, SchedInv, WokenInv, InTime,
         slot_th.pc = "woken", NEW s \in Slots
  PROVE  rx_symbol + 1 # SlotEnd(s)
<1> DEFINE due == Due(slot_th.nr)
           end == SlotEnd(slot_th.nr)
<1>1. slot_th.nr \in Slots /\ rx_symbol \in Int
  BY Lengths DEF TypeOK
<1>2. /\ end \in Nat /\ due \in Nat
      /\ slot_th.nr # 3 => (SlotEnd(s) > end => SlotEnd(s) > due + 1)
  BY <1>1, DueIs
<1>3. SlotEnd(s) \in 1 .. SUBFRAME_LEN - 1
  BY EndInside
<1>4. \/ slot_th.nr # 3 /\ rx_symbol >= end /\ rx_symbol + 1 <= due + 1
      \/ rx_symbol + 1 = SUBFRAME_LEN
  <2>1. rx_symbol + 1 <= due => rx_symbol + 1 <= due + 1
    BY <1>1, <1>2
  <2>2. rx_symbol + 1 = due + 1 => rx_symbol + 1 <= due + 1
    BY <1>1, <1>2
  <2> QED
    BY <2>1, <2>2, WokenLasts
<1>5. CASE rx_symbol + 1 = SUBFRAME_LEN
  BY <1>1, <1>3, <1>5, Lengths
<1>6. CASE slot_th.nr # 3 /\ rx_symbol >= end /\ rx_symbol + 1 <= due + 1
  BY <1>1, <1>2, <1>3, <1>6, Lengths
<1> QED
  BY <1>4, <1>5, <1>6

(* A slot that ends while its predecessor is being decoded, or is still to *)
(* be, ends upon a thread that the scheduler has delayed.                  *)
LEMMA EndFindsDelayed ==
  ASSUME Budget, IInv, InTime, slot_th.pc \in {"woken", "decode"},
         NEW s \in Slots, rx_symbol + 1 = SlotEnd(s)
  PROVE  slot_th.delayed
<1> USE DEF IInv
<1>1. slot_th.pc = "decode"
  BY WokenBeforeEnd
<1> SUFFICES ASSUME ~slot_th.delayed PROVE FALSE
  BY DEF TypeOK
<1> DEFINE age == Age(slot_th.nr)
<1>2. slot_th.nr \in Slots /\ rx_symbol \in 0 .. SUBFRAME_LEN - 1 /\ slot_th.time \in Nat
  BY Lasts DEF TypeOK
<1>3. age >= SLOT_LEN /\ age \in Int
  BY <1>2, Gaps, EndInside, Lengths DEF Age
<1>4. age <= slot_th.time + 1 /\ (sched.pc # "wait" => sched.time = 0)
  BY <1>1 DEF UndelayedInv
<1>5. CASE sched.pc = "wait"
  <2>1. slot_th.time < DecodeTime
    BY <1>1, <1>5 DEF InTime
  <2> HIDE DEF age
  <2> QED
    BY <1>2, <1>3, <1>4, <2>1, Lasts, Lengths
<1>6. CASE sched.pc # "wait"
  <2>1. rx_symbol = Start
    BY <1>4, <1>6, StartInside DEF SchedInv
  <2> QED
    BY <2>1, StartInside
<1> QED
  BY <1>5, <1>6

---------------------------------------------------------------------------
(* A symbol keeps each part of the invariant. *)

LEMMA SymbolRow ==
  ASSUME Budget, IInv, RxSymbol
  PROVE  RowInv'
<1>1. TypeOK /\ RowInv /\ side' = side /\ side \in {"BS", "UE"}
  BY Received DEF IInv, TypeOK
<1>2. CASE side = "BS"
  <2>1. /\ assignments' = assignments
        /\ onAir' = IF rx_symbol + 1 = SUBFRAME_LEN THEN assignments[NextSubframe % 2]
                    ELSE onAir
        /\ rx_subframe' = IF rx_symbol + 1 = SUBFRAME_LEN THEN NextSubframe
                          ELSE rx_subframe
    BY <1>2 DEF RxSymbol
  <2> QED
    BY <1>1, <1>2, <2>1 DEF RowInv
<1>3. CASE side = "UE" /\ rx_symbol + 1 = DLCTRL_LEN
  <2>1. rx_subframe' = rx_subframe
    BY <1>1, <1>3, Received, Lengths
  <2>2. onAir' = assignments'[rx_subframe % 2]
    <3>1. ProcDlctrl
      BY <1>3 DEF RxSymbol
    <3>2. assignments' = [assignments EXCEPT ![rx_subframe % 2] = onAir']
      BY <3>1 DEF ProcDlctrl
    <3>3. rx_subframe % 2 \in 0 .. 1
      BY <1>1, HandoverAssumption DEF TypeOK
    <3> QED
      BY <1>1, <3>2, <3>3 DEF TypeOK
  <2> QED
    BY <2>1, <2>2 DEF RowInv
<1>4. CASE side = "UE" /\ rx_symbol + 1 # DLCTRL_LEN
  <2>1. UNCHANGED <<assignments, onAir>>
    BY <1>4 DEF RxSymbol
  <2>2. rx_symbol' >= DLCTRL_LEN =>
          rx_symbol >= DLCTRL_LEN /\ rx_subframe' = rx_subframe
    <3>1. rx_symbol \in Nat
      BY <1>1, Lengths DEF TypeOK
    <3> QED
      BY <1>1, <1>4, <3>1, Received, Lengths
  <2> QED
    BY <1>1, <1>4, <2>1, <2>2 DEF RowInv
<1> QED
  BY <1>1, <1>2, <1>3, <1>4

LEMMA SymbolSched ==
  ASSUME Budget, IInv, RxSymbol
  PROVE  SchedInv'
<1> SUFFICES ASSUME sched'.pc # "wait"
             PROVE  rx_symbol' = Start' + sched'.time
  BY DEF SchedInv
<1>1. TypeOK /\ SchedInv /\ InTime /\ Start' = Start
  BY Received, Same DEF IInv
<1>2. rx_symbol \in Nat /\ Start \in Nat
  BY <1>1, Lengths, StartInside DEF TypeOK
<1>3. CASE sched.pc = "wait"
  <2>1. StartsScheduler(rx_symbol + 1) /\ sched'.time = 0
    BY <1>1, <1>3, Received
  <2>2. rx_symbol + 1 = Start
    BY <1>1, <2>1, StartsAt
  <2> QED
    BY <1>1, <1>2, <2>1, <2>2, Received, StartInside, Lengths, Lasts
<1>4. CASE sched.pc # "wait"
  <2>1. sched'.time = sched.time + 1
    BY <1>1, <1>4, Received DEF TypeOK
  <2>2. /\ rx_symbol = Start + sched.time /\ sched.time \in Nat
        /\ rx_symbol + 1 <= Start + SchedTime
    BY <1>1, <1>4, RunLasts
  <2>3. rx_symbol' = rx_symbol + 1
    BY <1>1, <1>2, <2>2, Received, StartInside, Lengths, Lasts
  <2> QED
    BY <1>1, <1>2, <2>1, <2>2, <2>3
<1> QED
  BY <1>3, <1>4

(* The row of the air is replaced only where no thread is to be woken.     *)
LEMMA SymbolOnAir ==
  ASSUME Budget, IInv, RxSymbol,
         \/ \E s \in Slots : rx_symbol + 1 = SlotEnd(s)
         \/ slot_th.pc = "woken" /\ ~Hurried
  PROVE  onAir' = onAir
<1>1. /\ TypeOK /\ PhaseInv /\ SchedInv /\ WokenInv /\ InTime
      /\ rx_symbol \in Nat
  BY Received, Lengths DEF IInv, TypeOK
<1>2. /\ rx_symbol + 1 # SUBFRAME_LEN
      /\ side = "UE" => rx_symbol + 1 > DLCTRL_LEN
  <2>1. \A s \in Slots : side = "UE" => SlotEnd(s) > DLCTRL_LEN
    <3>1. ASSUME NEW s \in Slots, side = "UE" PROVE SlotEnd(s) > DLCTRL_LEN
      BY <3>1, s = 0 \/ s = 1 \/ s = 2 \/ s = 3, Lengths, Ends DEF Slots
    <3> QED
      BY <3>1
  <2>2. CASE \E s \in Slots : rx_symbol + 1 = SlotEnd(s)
    BY <2>1, <2>2, EndInside, Lengths
  <2>3. CASE slot_th.pc = "woken" /\ ~Hurried
    <3> DEFINE due == Due(slot_th.nr)
               end == SlotEnd(slot_th.nr)
    <3>1. /\ slot_th.nr # 3 /\ rx_symbol >= end
          /\ rx_symbol + 1 <= due \/ rx_symbol + 1 = due + 1
      BY <1>1, <2>3, WokenLasts
    <3>2. slot_th.nr \in Slots
      BY <1>1 DEF TypeOK
    <3>3. due \in Nat /\ due + 1 < SUBFRAME_LEN /\ end \in Nat
      BY <1>1, <3>1, <3>2, DueIs
    <3>4. side = "UE" => end > DLCTRL_LEN
      BY <2>1, <3>2
    <3> QED
      BY <1>1, <3>1, <3>3, <3>4, Lengths
  <2> QED
    BY <2>2, <2>3
<1>3. ~(side = "UE" /\ rx_symbol + 1 = DLCTRL_LEN)
  BY <1>1, <1>2, Lengths
<1> QED
  BY <1>2, <1>3 DEF RxSymbol

LEMMA SymbolWoken ==
  ASSUME Budget, IInv, RxSymbol
  PROVE  WokenInv'
<1> SUFFICES ASSUME slot_th'.pc = "woken"
             PROVE  WokenInv'
  BY DEF WokenInv
<1> DEFINE Goal(nr) ==
      /\ slot_th'.time = 0 /\ rx_slot_nr' = nr /\ slot_th'.nr = nr
      /\ \/ rx_symbol' \in SlotEnd(nr) .. Due(nr)
         \/ rx_symbol' = Due(nr) + 1 /\ rx_symbol' % 2 = phase'
         \/ Hurried' /\ rx_symbol' = 0
      /\ Hurried' \/ slot_th'.expected = onAir'[nr]
<1>1. /\ TypeOK /\ PhaseInv /\ SchedInv /\ WokenInv /\ InTime
      /\ rx_symbol \in Nat /\ rx_symbol < SUBFRAME_LEN /\ UNCHANGED <<side, phase>>
  BY Received, Lengths DEF IInv, TypeOK
<1>2. SUFFICES \E nr \in Slots : Goal(nr)
  <2>1. ASSUME NEW nr \in Slots, Goal(nr)
        PROVE  WokenInv'
    <3>1. SlotEnd(nr)' = SlotEnd(nr) /\ Due(nr)' = Due(nr)
      BY <1>1, Same
    <3> QED
      BY <2>1, <3>1 DEF WokenInv
  <2> QED
    BY <2>1
<1>3. CASE slot_th.pc = "wait"
  <2>1. PICK s \in Slots :
          /\ rx_symbol + 1 = SlotEnd(s) /\ rx_slot_nr' = s
          /\ slot_th'.nr = s /\ slot_th'.time = 0
          /\ slot_th'.expected = onAir[s]
    BY <1>1, <1>3, ThreadWoken
  <2>2. /\ SlotEnd(s) \in Nat /\ Due(s) \in Nat /\ Due(s) >= SlotEnd(s)
        /\ SlotEnd(s) < SUBFRAME_LEN
    BY <1>1, DueIs, EndInside, Lengths
  <2>3. rx_symbol' = SlotEnd(s)
    BY <1>1, <2>1, <2>2, Received, Lengths
  <2>4. rx_symbol' \in SlotEnd(s) .. Due(s)
    BY <2>2, <2>3
  <2>5. onAir' = onAir
    BY <2>1, SymbolOnAir
  <2> QED
    BY <2>1, <2>4, <2>5
<1>4. CASE slot_th.pc # "wait"
  <2> DEFINE nr == slot_th.nr
             due == Due(slot_th.nr)
             end == SlotEnd(slot_th.nr)
  <2>1. /\ slot_th.pc = "woken" /\ slot_th'.nr = nr
        /\ slot_th'.expected = slot_th.expected /\ nr \in Slots
    BY <1>1, <1>4, ThreadKeeps DEF TypeOK
  <2>2. Hurried' <=> Hurried
    BY <1>1, <2>1 DEF Hurried
  <2>3. slot_th' = Elapsed /\ rx_slot_nr' = rx_slot_nr
    BY <1>1, <2>1, Received, WokenBeforeEnd DEF SlotEnds
  <2>4. slot_th'.time = 0 /\ rx_slot_nr' = nr
    <3>1. slot_th.time = 0 /\ rx_slot_nr = nr
      BY <1>1, <2>1 DEF WokenInv
    <3> QED
      BY <1>1, <2>1, <2>3, <3>1 DEF Elapsed, TypeOK
  <2>5. Hurried' \/ slot_th'.expected = onAir'[nr]
    <3>1. ~Hurried => onAir' = onAir
      BY <2>1, SymbolOnAir
    <3>2. Hurried \/ slot_th.expected = onAir[nr]
      BY <1>1, <2>1 DEF WokenInv
    <3> QED
      BY <2>1, <2>2, <3>1, <3>2
  <2>6. \/ rx_symbol' \in end .. due
        \/ rx_symbol' = due + 1 /\ rx_symbol' % 2 = phase'
        \/ Hurried' /\ rx_symbol' = 0
    <3>1. CASE Hurried /\ rx_symbol + 1 = SUBFRAME_LEN
      BY <2>2, <3>1, <1>1, Received
    <3>2. CASE /\ slot_th.nr # 3 /\ rx_symbol >= end
               /\ \/ rx_symbol + 1 <= due
                  \/ rx_symbol + 1 = due + 1 /\ (rx_symbol + 1) % 2 = phase
      <4>1. end \in Nat /\ due \in Nat /\ due + 1 < SUBFRAME_LEN
        BY <1>1, <2>1, <3>2, DueIs
      <4>2. rx_symbol' = rx_symbol + 1
        BY <1>1, <3>2, <4>1, Received, Lengths
      <4>3. CASE rx_symbol + 1 <= due
        BY <1>1, <3>2, <4>1, <4>2, <4>3
      <4>4. CASE rx_symbol + 1 = due + 1 /\ (rx_symbol + 1) % 2 = phase
        BY <1>1, <4>2, <4>4
      <4> QED
        BY <3>2, <4>3, <4>4
    <3> QED
      BY <1>1, <2>1, <3>1, <3>2, WokenLasts
  <2> QED
    BY <2>1, <2>4, <2>5, <2>6
<1> QED
  BY <1>3, <1>4

LEMMA SymbolDecode ==
  ASSUME Budget, IInv, RxSymbol
  PROVE  DecodeInv'
<1> DEFINE nr == slot_th.nr
           end == SlotEnd(slot_th.nr)
           from == IF nr = 0 THEN 2 * SLOT_LEN ELSE end
<1>1. /\ TypeOK /\ DecodeInv /\ InTime
      /\ rx_symbol \in Nat /\ nr \in Slots /\ slot_th.time \in Nat
      /\ UNCHANGED <<side, phase>>
  BY Received, Lengths, Lasts DEF IInv, TypeOK
<1> SUFFICES ASSUME side = "BS", slot_th'.pc = "decode", slot_th'.nr # 3
             PROVE  DecodeInv'
  BY <1>1 DEF DecodeInv
<1>2. slot_th.pc = "decode" /\ slot_th'.nr = nr /\ nr # 3
  <2>1. slot_th.pc # "wait"
    BY <1>1, ThreadWoken
  <2> QED
    BY <1>1, <2>1, ThreadKeeps
<1>3. /\ sched.pc = "wait" /\ slot_th.time < DecodeTime
      /\ rx_symbol >= end /\ rx_symbol <= slot_th.time + 1 + from
  BY <1>1, <1>2 DEF DecodeInv, InTime
<1>4. /\ end \in Nat /\ end >= SLOT_LEN /\ from \in Nat
      /\ from <= 3 * SLOT_LEN + 6 /\ from >= end
      /\ nr = 0 => from = 2 * SLOT_LEN
      /\ nr = 1 => end = 2 * SLOT_LEN + 1 /\ from = end
      /\ nr = 2 => end = 3 * SLOT_LEN + 6 /\ from = end
      /\ nr = 0 \/ nr = 1 \/ nr = 2
  BY <1>1, <1>2, Ends, Lengths, Lasts DEF Slots
<1> HIDE DEF from, end, nr
<1>5. rx_symbol' = rx_symbol + 1
  BY <1>1, <1>3, <1>4, Received, Lengths, Lasts
<1>6. sched' = sched
  <2>1. rx_symbol + 1 # SchedSymbol
    BY <1>1, <1>3, <1>4, Lengths, Lasts
  <2> QED
    BY <1>1, <1>3, <2>1, Received DEF StartsScheduler
<1>7. rx_symbol + 1 <= slot_th'.time + 1 + from
  <2>1. CASE slot_th' = Elapsed
    <3>1. slot_th'.time = slot_th.time + 1
      BY <1>1, <1>2, <1>3, <2>1 DEF Elapsed, TypeOK
    <3> QED
      BY <1>1, <1>3, <1>4, <3>1
  <2>2. ASSUME NEW s \in Slots, SlotEnds(s)
        PROVE  rx_symbol + 1 <= slot_th'.time + 1 + from
    <3>1. slot_th' = slot_th /\ rx_symbol + 1 = SlotEnd(s)
      BY <1>2, <2>2 DEF SlotEnds, Signalled
    <3>2. s = 0 \/ s = 1 \/ s = 2 \/ s = 3
      BY DEF Slots
    <3>3. /\ SlotEnd(0) = SLOT_LEN /\ SlotEnd(1) = 2 * SLOT_LEN + 1
          /\ SlotEnd(2) = 3 * SLOT_LEN + 6 /\ SlotEnd(3) = 4 * SLOT_LEN + 7
      BY Ends
    <3>4. rx_symbol + 1 <= slot_th.time + 1 + from
      BY <1>1, <1>3, <1>4, <3>1, <3>2, <3>3, Lengths, Lasts
    <3> QED
      BY <3>1, <3>4
  <2> QED
    BY <1>1, <2>1, <2>2, Received
<1>8. SlotEnd(slot_th.nr)' = end
  BY <1>1, <1>2, Same DEF nr, end
<1>9. rx_symbol' >= end /\ rx_symbol' <= slot_th'.time + 1 + from
  BY <1>1, <1>3, <1>4, <1>5, <1>7
<1> QED
  BY <1>2, <1>3, <1>6, <1>8, <1>9 DEF DecodeInv, from, nr

LEMMA SymbolUndelayed ==
  ASSUME Budget, IInv, RxSymbol
  PROVE  UndelayedInv'
<1> DEFINE nr == slot_th.nr
           end == SlotEnd(slot_th.nr)
           age == Age(slot_th.nr)
           next == IF rx_symbol' >= end THEN rx_symbol' - end
                   ELSE rx_symbol' + SUBFRAME_LEN - end
<1>1. /\ TypeOK /\ UndelayedInv /\ InTime /\ PhaseInv
      /\ rx_symbol \in Nat /\ rx_symbol < SUBFRAME_LEN
      /\ nr \in Slots /\ slot_th.time \in Nat /\ phase \in {0, 1}
      /\ UNCHANGED <<side, phase>>
  BY Received, Lengths, Lasts DEF IInv, TypeOK
<1> SUFFICES ASSUME slot_th'.pc \in {"woken", "decode"}, ~slot_th'.delayed
             PROVE  UndelayedInv'
  BY DEF UndelayedInv
<1>2. CASE slot_th.pc = "wait"
  <2>1. PICK s \in Slots :
          rx_symbol + 1 = SlotEnd(s) /\ slot_th'.pc = "woken" /\ slot_th'.nr = s
    BY <1>1, <1>2, ThreadWoken
  <2>2. SlotEnd(s)' = SlotEnd(s) /\ SlotEnd(s) \in Nat /\ SlotEnd(s) < SUBFRAME_LEN
    BY <1>1, EndInside, Same, Lengths
  <2>3. rx_symbol' = SlotEnd(s)
    BY <1>1, <2>1, <2>2, Received, Lengths
  <2>4. Age(s)' = 0
    BY <2>2, <2>3 DEF Age
  <2> QED
    BY <2>1, <2>4 DEF UndelayedInv
<1>3. CASE slot_th.pc # "wait"
  <2>1. slot_th'.pc = slot_th.pc /\ slot_th'.nr = nr
    BY <1>1, <1>3, ThreadKeeps
  <2>2. slot_th' = Elapsed
    <3>1. ASSUME NEW s \in Slots, SlotEnds(s)
          PROVE  FALSE
      <4>1. slot_th' = slot_th /\ rx_symbol + 1 = SlotEnd(s)
        BY <1>3, <3>1 DEF SlotEnds, Signalled
      <4> QED
        BY <1>1, <2>1, <4>1, EndFindsDelayed
    <3> QED
      BY <1>1, <3>1, Received
  <2>3. sched.pc = "wait" /\ ~slot_th.delayed
    <3>1. slot_th \in [pc : {"wait", "woken", "decode", "crashed"},
                       slot : Slots, user : Users \cup {Nobody}, time : 0 .. DecodeTime,
                       nr : Slots, expected : Users \cup {Nobody}, delayed : BOOLEAN]
      BY <1>1 DEF TypeOK
    <3>2. sched.pc = "wait"
      BY <1>3, <2>2, <3>1 DEF Elapsed
    <3> QED
      BY <2>2, <3>1, <3>2 DEF Elapsed
  <2>4. SlotEnd(nr)' = end /\ end \in Nat /\ end >= 1 /\ end < SUBFRAME_LEN
    BY <1>1, <2>1, EndInside, Same, Lengths
  <2>5. Age(slot_th.nr)' = next
    BY <2>1, <2>4 DEF Age
  <2>6. /\ rx_symbol' = IF rx_symbol + 1 = SUBFRAME_LEN THEN 0 ELSE rx_symbol + 1
        /\ age = IF rx_symbol >= end THEN rx_symbol - end
                 ELSE rx_symbol + SUBFRAME_LEN - end
    BY <1>1, Received DEF Age
  <2> HIDE DEF end
  <2>7. next <= age + 1 /\ age >= 0 /\ (age = 0 => next = 1) /\ next \in Int
    BY <1>1, <2>4, <2>6, Lengths
  <2>8. CASE slot_th.pc = "woken"
    <3>1. age = 0 \/ (age = 1 /\ rx_symbol % 2 = phase)
      BY <1>1, <2>3, <2>8 DEF UndelayedInv
    <3>2. rx_symbol % 2 # phase
      BY <1>1, <2>3, <2>8 DEF InTime
    <3>3. rx_symbol' % 2 = phase
      BY <1>1, <2>6, <3>2, Lengths
    <3>4. next = 1
      BY <2>7, <3>1, <3>2
    <3> QED
      BY <1>1, <2>1, <2>5, <2>8, <3>3, <3>4 DEF UndelayedInv
  <2>9. CASE slot_th.pc = "decode"
    <3>1. age <= slot_th.time + 1
      BY <1>1, <2>3, <2>9 DEF UndelayedInv
    <3>2. slot_th'.time = slot_th.time + 1
      BY <1>1, <2>2, <2>3, <2>9 DEF Elapsed, TypeOK
    <3>3. age \in Int
      BY <1>1, <2>4, <2>6, Lengths
    <3> HIDE DEF age, next
    <3>4. next <= slot_th'.time + 1
      BY <1>1, <2>7, <3>1, <3>2, <3>3
    <3>5. sched'.pc # "wait" => sched'.time = 0
      BY <1>1, <2>3, Received
    <3> QED
      BY <2>1, <2>5, <2>9, <3>4, <3>5 DEF UndelayedInv
  <2> QED
    BY <2>1, <2>8, <2>9
<1> QED
  BY <1>2, <1>3

LEMMA SymbolIInv ==
  ASSUME Budget, IInv, RxSymbol, slot_th.pc # "crashed"
  PROVE  IInv'
<1>1. TypeOK /\ DecodesAssigned /\ RemovedOnlyInLastSlot /\ UNCHANGED <<side, phase, UE>>
  BY Received DEF IInv
<1>2. TypeOK'
  BY <1>1, StepTypeOK DEF Next
<1>3. PhaseInv'
  BY <1>1 DEF IInv, PhaseInv
<1>4. slot_th'.pc \in {"decode", "crashed"} =>
        /\ slot_th.pc = slot_th'.pc /\ slot_th'.user = slot_th.user
        /\ slot_th'.nr = slot_th.nr /\ slot_th'.expected = slot_th.expected
        /\ slot_th'.slot = slot_th.slot
  BY <1>1, ThreadKeeps, ThreadWoken
<1>5. DecodesAssigned' /\ RemovedOnlyInLastSlot'
  BY <1>1, <1>4 DEF DecodesAssigned, RemovedOnlyInLastSlot, Hurried
<1> QED
  BY <1>2, <1>3, <1>5, SymbolRow, SymbolSched, SymbolWoken, SymbolDecode,
     SymbolUndelayed DEF IInv

---------------------------------------------------------------------------
(* The other steps, and what follows. *)

LEMMA InitIInv == Init => IInv
<1> SUFFICES ASSUME Init PROVE IInv
  OBVIOUS
<1>1. TypeOK
  BY InitTypeOK
<1>2. RowInv
  <2>1. rx_subframe % 2 \in 0 .. 1
    BY <1>1, HandoverAssumption DEF TypeOK
  <2> QED
    BY <2>1 DEF Init, RowInv
<1>3. /\ PhaseInv /\ SchedInv /\ WokenInv /\ DecodeInv /\ UndelayedInv
      /\ DecodesAssigned /\ RemovedOnlyInLastSlot
  BY DEF Init, Waiting, PhaseInv, SchedInv, WokenInv, DecodeInv, UndelayedInv,
         DecodesAssigned, RemovedOnlyInLastSlot
<1> QED
  BY <1>1, <1>2, <1>3 DEF IInv

(* The scheduler writes the row of the other subframe.                     *)
LEMMA AssignIInv ==
  ASSUME Budget, IInv, TypeOK', SchedAssign
  PROVE  IInv'
<1>1. /\ UNCHANGED <<side, phase, rx_symbol, rx_subframe, UE, rx_slot_nr, slot_th, onAir>>
      /\ sched.pc = "assign" /\ sched'.pc = "remove" /\ sched'.time = sched.time
  BY DEF SchedAssign, IInv, TypeOK
<1>2. RowInv'
  <2>1. CASE side # "BS"
    BY <1>1, <2>1 DEF SchedAssign, IInv, RowInv
  <2>2. CASE side = "BS"
    <3>1. PICK row : assignments' = [assignments EXCEPT ![NextSubframe % 2] = row]
      BY <2>2 DEF SchedAssign
    <3>2. rx_subframe % 2 \in 0 .. 1 /\ NextSubframe % 2 # rx_subframe % 2
      <4>1. rx_subframe \in 0 .. FRAME_LEN - 1 /\ FRAME_LEN \in Nat
            /\ FRAME_LEN >= 2 /\ FRAME_LEN % 2 = 0
        BY HandoverAssumption DEF IInv, TypeOK
      <4>2. NextSubframe = IF rx_subframe + 1 = FRAME_LEN THEN 0 ELSE rx_subframe + 1
        <5>1. FRAME_LEN \in Nat \ {0} /\ rx_subframe \in 0 .. FRAME_LEN - 1
          BY <4>1
        <5> QED
          BY <5>1, StepOn DEF NextSubframe
      <4> QED
        BY <4>1, <4>2
    <3>3. assignments'[rx_subframe % 2] = assignments[rx_subframe % 2]
      BY <3>1, <3>2 DEF IInv, TypeOK
    <3> QED
      BY <1>1, <3>3 DEF IInv, RowInv
  <2> QED
    BY <2>1, <2>2
<1>3. Start' = Start /\ \A s \in Slots : SlotEnd(s)' = SlotEnd(s) /\ Due(s)' = Due(s)
  BY <1>1, Same
<1>4. SchedInv'
  BY <1>1, <1>3 DEF IInv, SchedInv
<1>5. DecodeInv'
  BY <1>1 DEF IInv, DecodeInv
<1>6. WokenInv'
  BY <1>1 DEF IInv, WokenInv, Hurried, SlotEnd, Due, Start
<1>7. UndelayedInv'
  BY <1>1 DEF IInv, UndelayedInv, Age, SlotEnd
<1>8. PhaseInv' /\ DecodesAssigned' /\ RemovedOnlyInLastSlot'
  BY <1>1 DEF IInv, PhaseInv, DecodesAssigned, RemovedOnlyInLastSlot, Hurried
<1> QED
  BY <1>2, <1>4, <1>5, <1>6, <1>7, <1>8 DEF IInv

(* Users are removed while no slot but the last is being decoded.          *)
LEMMA RemoveIInv ==
  ASSUME Budget, IInv, TypeOK', SchedRemove, slot_th.pc # "crashed"
  PROVE  IInv'
<1>1. /\ UNCHANGED <<side, phase, rx_symbol, rx_subframe, assignments, rx_slot_nr,
                     slot_th, onAir>>
      /\ sched.pc = "remove" /\ sched'.pc = "wait"
  BY DEF SchedRemove
<1>2. side = "BS" /\ slot_th.pc = "decode" => slot_th.nr = 3
  BY <1>1 DEF IInv, DecodeInv
<1>3. SchedInv' /\ DecodeInv' /\ RemovedOnlyInLastSlot'
  BY <1>1, <1>2 DEF SchedInv, DecodeInv, RemovedOnlyInLastSlot
<1>4. WokenInv'
  BY <1>1 DEF IInv, WokenInv, Hurried, SlotEnd, Due, Start
<1>5. UndelayedInv'
  BY <1>1 DEF IInv, UndelayedInv, Age, SlotEnd
<1>6. RowInv' /\ PhaseInv' /\ DecodesAssigned'
  BY <1>1 DEF IInv, RowInv, PhaseInv, DecodesAssigned, Hurried
<1> QED
  BY <1>3, <1>4, <1>5, <1>6 DEF IInv

(* What a woken thread looks up is what it has been woken for.             *)
LEMMA LookUpIInv ==
  ASSUME Budget, IInv, TypeOK', LookUp
  PROVE  IInv'
<1> DEFINE user == assignments[rx_subframe % 2][rx_slot_nr]
           nr == slot_th.nr
           end == SlotEnd(slot_th.nr)
           due == Due(slot_th.nr)
<1>1. /\ UNCHANGED <<side, phase, rx_symbol, rx_subframe, assignments, UE,
                     rx_slot_nr, sched, onAir>>
      /\ slot_th.pc = "woken" /\ sched.pc = "wait"
      /\ nr \in Slots /\ rx_symbol \in Nat /\ rx_symbol < SUBFRAME_LEN
      /\ TypeOK
  BY Lengths DEF LookUp, IInv, TypeOK
<1>2. /\ slot_th.time = 0 /\ rx_slot_nr = nr
      /\ \/ rx_symbol \in end .. due
         \/ rx_symbol = due + 1 /\ rx_symbol % 2 = phase
         \/ Hurried /\ rx_symbol = 0
      /\ Hurried \/ slot_th.expected = onAir[nr]
  BY <1>1 DEF IInv, WokenInv
<1>3. /\ end \in Nat /\ due \in Nat /\ due >= end
      /\ side = "BS" /\ nr = 0 => due < 2 * SLOT_LEN
      /\ nr \in {1, 2} => due = end
  BY <1>1, DueIs
<1>4. SchedInv' /\ RowInv' /\ PhaseInv'
  BY <1>1 DEF IInv, SchedInv, RowInv, PhaseInv
<1>5. CASE slot_th' = Waiting
  BY <1>4, <1>5 DEF IInv, Waiting, WokenInv, DecodeInv, UndelayedInv,
                    DecodesAssigned, RemovedOnlyInLastSlot
<1>6. CASE /\ ~(user = Nobody \/ (side = "BS" /\ user \notin UE))
           /\ slot_th' = [slot_th EXCEPT !.pc = "decode", !.slot = rx_slot_nr,
                                         !.user = user]
  <2>1. /\ slot_th'.pc = "decode" /\ slot_th'.user = user /\ slot_th'.nr = nr
        /\ slot_th'.slot = nr
        /\ slot_th'.time = 0 /\ slot_th'.expected = slot_th.expected
        /\ slot_th'.delayed = slot_th.delayed
    BY <1>1, <1>2, <1>6 DEF TypeOK
  <2>2. SlotEnd(slot_th.nr)' = end
    BY <1>1, <2>1, Same
  <2>3. ~Hurried => rx_symbol >= end /\ rx_symbol <= due + 1
    BY <1>1, <1>2, <1>3
  <2>4. DecodesAssigned'
    <3>1. CASE Hurried
      BY <1>1, <2>1, <3>1 DEF DecodesAssigned, Hurried
    <3>2. CASE ~Hurried
      <4>1. slot_th.expected = onAir[nr] /\ rx_symbol >= end
        BY <1>2, <2>3, <3>2
      <4>2. onAir = assignments[rx_subframe % 2]
        <5>1. side # "BS" => end >= DLCTRL_LEN
          BY <1>1, nr = 0 \/ nr = 1 \/ nr = 2 \/ nr = 3, Ends, Lengths DEF Slots
        <5>2. side # "BS" => rx_symbol >= DLCTRL_LEN
          BY <1>1, <1>3, <4>1, <5>1, Lengths
        <5> QED
          BY <5>2 DEF IInv, RowInv
      <4> QED
        BY <1>2, <2>1, <4>1, <4>2 DEF DecodesAssigned
    <3> QED
      BY <3>1, <3>2
  <2>5. DecodeInv'
    <3> SUFFICES ASSUME side = "BS", nr # 3 PROVE DecodeInv'
      BY <1>1, <2>1 DEF DecodeInv
    <3>1. rx_symbol >= end /\ rx_symbol <= due + 1
      BY <2>3 DEF Hurried
    <3>2. rx_symbol <= 1 + (IF nr = 0 THEN 2 * SLOT_LEN ELSE end)
      BY <1>1, <1>3, <3>1, Lengths DEF Slots
    <3> QED
      BY <1>1, <2>1, <2>2, <3>1, <3>2 DEF DecodeInv
  <2>6. UndelayedInv'
    <3> SUFFICES ASSUME ~slot_th.delayed PROVE UndelayedInv'
      BY <2>1 DEF UndelayedInv
    <3>1. Age(nr) <= 1
      BY <1>1 DEF IInv, UndelayedInv
    <3>2. Age(slot_th.nr)' = Age(nr)
      BY <1>1, <2>1, <2>2 DEF Age
    <3> QED
      BY <1>1, <2>1, <3>1, <3>2 DEF UndelayedInv
  <2>7. WokenInv' /\ RemovedOnlyInLastSlot'
    BY <1>1, <1>6, <2>1 DEF WokenInv, RemovedOnlyInLastSlot
  <2> QED
    BY <1>4, <2>4, <2>5, <2>6, <2>7 DEF IInv
<1> QED
  BY <1>5, <1>6 DEF LookUp

LEMMA DeliverIInv ==
  ASSUME Budget, IInv, TypeOK', Deliver
  PROVE  IInv'
<1>1. /\ UNCHANGED <<side, phase, rx_symbol, rx_subframe, assignments, UE,
                     rx_slot_nr, sched, onAir>>
      /\ slot_th.pc = "decode"
      /\ \/ slot_th' = Waiting
         \/ /\ slot_th'.pc = "crashed" /\ slot_th'.nr = slot_th.nr
            /\ side = "BS" /\ slot_th.user \notin UE
  BY DEF Deliver, IInv, TypeOK
<1>2. SchedInv' /\ RowInv' /\ PhaseInv'
  <2>1. SchedInv /\ RowInv /\ PhaseInv
    BY DEF IInv
  <2> QED
    BY <1>1, <2>1 DEF SchedInv, Start, RowInv, PhaseInv
<1>3. slot_th'.pc \notin {"woken", "decode"}
  BY <1>1 DEF Waiting
<1>4. WokenInv' /\ DecodeInv' /\ UndelayedInv' /\ DecodesAssigned'
  BY <1>3 DEF WokenInv, DecodeInv, UndelayedInv, DecodesAssigned
<1>5. RemovedOnlyInLastSlot'
  BY <1>1 DEF Waiting, IInv, RemovedOnlyInLastSlot
<1> QED
  BY <1>2, <1>4, <1>5 DEF IInv

LEMMA StepIInv ==
  ASSUME Budget, IInv, Next
  PROVE  IInv'
<1>1. TypeOK' /\ slot_th.pc # "crashed"
  BY StepTypeOK DEF IInv, Next
<1>2. CASE RxSymbol
  BY <1>1, <1>2, SymbolIInv
<1>3. CASE AddUser
  <2>1. /\ UNCHANGED <<side, phase, rx_symbol, rx_subframe, assignments, rx_slot_nr,
                       slot_th, sched, onAir>>
        /\ UE \subseteq UE'
    BY <1>3 DEF AddUser
  <2>2. WokenInv'
    BY <2>1 DEF IInv, WokenInv, Hurried, SlotEnd, Due, Start
  <2>3. UndelayedInv'
    BY <2>1 DEF IInv, UndelayedInv, Age, SlotEnd
  <2>4. DecodeInv' /\ SchedInv'
    BY <2>1 DEF IInv, DecodeInv, SchedInv, SlotEnd, Start
  <2>5. RowInv' /\ PhaseInv' /\ DecodesAssigned' /\ RemovedOnlyInLastSlot'
    BY <2>1 DEF IInv, RowInv, PhaseInv, DecodesAssigned, RemovedOnlyInLastSlot, Hurried
  <2> QED
    BY <1>1, <2>2, <2>3, <2>4, <2>5 DEF IInv
<1>4. CASE SchedAssign
  BY <1>1, <1>4, AssignIInv
<1>5. CASE SchedRemove
  BY <1>1, <1>5, RemoveIInv
<1>6. CASE LookUp
  BY <1>1, <1>6, LookUpIInv
<1>7. CASE Deliver
  BY <1>1, <1>7, DeliverIInv
<1> QED
  BY <1>2, <1>3, <1>4, <1>5, <1>6, <1>7 DEF Next

LEMMA Invariant ==
  ASSUME Budget
  PROVE  Spec => []IInv
<1>1. IInv /\ UNCHANGED vars => IInv'
  <2> SUFFICES ASSUME IInv, UNCHANGED vars PROVE IInv'
    OBVIOUS
  <2>1. TypeOK' /\ SchedInv' /\ DecodeInv' /\ PhaseInv' /\ RowInv'
    BY DEF vars, IInv, TypeOK, SchedInv, DecodeInv, PhaseInv, RowInv, SlotEnd, Start
  <2>2. WokenInv'
    BY DEF vars, IInv, WokenInv, Hurried, SlotEnd, Due, Start
  <2>3. UndelayedInv'
    BY DEF vars, IInv, UndelayedInv, Age, SlotEnd
  <2>4. DecodesAssigned' /\ RemovedOnlyInLastSlot'
    BY DEF vars, IInv, DecodesAssigned, RemovedOnlyInLastSlot, Hurried
  <2> QED
    BY <2>1, <2>2, <2>3, <2>4 DEF IInv
<1>2. IInv /\ [Next]_vars => IInv'
  BY <1>1, StepIInv
<1> QED
  BY <1>2, InitIInv, PTL DEF Spec

(* Within the budget, the slot that is decoded is the one signalled, with  *)
(* the user to whom it was assigned unless the thread is hurried, though   *)
(* number, subframe and row are looked up late: base station and client,   *)
(* slots of any length, any rows with a user of its own for every slot.    *)
THEOREM SlotsDecodedAsAssigned ==
  ASSUME Budget
  PROVE  Spec => []DecodesAssigned
<1>1. IInv => DecodesAssigned
  BY DEF IInv
<1> QED
  BY <1>1, Invariant, PTL

(* Within the budget, the scheduler takes a user from under the decoder in *)
(* slot 3 and in no other.                                                 *)
THEOREM UsersRemovedLate ==
  ASSUME Budget
  PROVE  Spec => []RemovedOnlyInLastSlot
<1>1. IInv => RemovedOnlyInLastSlot
  BY DEF IInv
<1> QED
  BY <1>1, Invariant, PTL

(* Within the budget, no signal is forgotten but that of a slot behind one *)
(* whose decoding the scheduler has delayed.                               *)
THEOREM SlotsLostBehindScheduler ==
  ASSUME Budget
  PROVE  Spec => LostOnlyBehindScheduler
<1> DEFINE Kept == slot_th.pc # "wait" /\ rx_slot_nr' # rx_slot_nr
                     /\ onAir[rx_slot_nr'] # Nobody => slot_th.delayed
<1>1. IInv /\ [Next]_vars => [Kept]_vars
  <2> SUFFICES ASSUME IInv, Next, slot_th.pc # "wait", rx_slot_nr' # rx_slot_nr
               PROVE  slot_th.delayed
    BY DEF vars
  <2>1. RxSymbol /\ slot_th.pc # "crashed"
    BY DEF Next, AddUser, SchedAssign, SchedRemove, LookUp, Deliver
  <2>2. TypeOK
    BY DEF IInv
  <2>3. slot_th.pc \in {"woken", "decode"} /\ InTime
    BY <2>1, <2>2, Received DEF TypeOK
  <2>4. PICK s \in Slots : rx_symbol + 1 = SlotEnd(s)
    BY <2>1, <2>2, Received DEF SlotEnds
  <2> QED
    BY <2>3, <2>4, EndFindsDelayed
<1> QED
  BY <1>1, Invariant, PTL DEF Spec, LostOnlyBehindScheduler
==========================================================================
