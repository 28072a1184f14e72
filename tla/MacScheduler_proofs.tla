----------------------- MODULE MacScheduler_proofs ------------------------
(***************************************************************************)
(* Proofs about MacScheduler: no client is ever to transmit and to listen  *)
(* at once, for every length of the frame and size of the user table,      *)
(* wherever in the subframe the run is started, and however users come, go *)
(* and fill their queues while it runs.                                    *)
(***************************************************************************)
EXTENDS MacScheduler, WellFoundedInduction, TLAPS

---------------------------------------------------------------------------
(* The inductive invariant. *)

(* Before the loop over the uplink slots nothing is assigned in them, and  *)
(* before the run nothing at all.                                          *)
LoopInv ==
  /\ pc \in {"wait", "dl"} => \A s \in Slots : ul[s] = USER_UNUSED
  /\ pc = "wait" => /\ \A s \in Slots : dl[s] = USER_UNUSED
                    /\ \A i \in CtrlSlots : ulctrl[i] = USER_UNUSED
  /\ pc \in {"dl", "ul"} /\ next_sfn = 0 => available_slots <= 3

(* Which slots a client is never given together: those that overlap.       *)
SlotInv ==
  /\ \A s \in 0 .. 1 : dl[s] # USER_BROADCAST
  /\ \A s \in 0 .. 1 : ul[s] \in Users =>
                         dl[s + 2] # ul[s] /\ dl[s + 2] # USER_BROADCAST
  /\ \A s \in 0 .. 1 : dl[s] \in Users => prev_ul[s + 2] # dl[s]

(* What is kept free in subframe 0.                                        *)
SyncInv ==
  next_sfn = 0 => /\ ul[1] = USER_UNUSED
                  /\ ul[3] = USER_UNUSED
                  /\ dl[3] = USER_UNUSED

(* Whoever had a control slot in the row before is given nothing.          *)
DeafInv ==
  \A i \in CtrlSlots : prev_ulctrl[i] \in Users =>
    /\ \A s \in Slots : dl[s] # prev_ulctrl[i] /\ ul[s] # prev_ulctrl[i]
    /\ \A j \in CtrlSlots : ulctrl[j] # prev_ulctrl[i]

(* The control slots go to the two users of the running subframe.          *)
CtrlInv ==
  /\ \A i \in CtrlSlots : ulctrl[i] \in {USER_UNUSED, 2 * tx_subframe + i}
  /\ \A i, j \in CtrlSlots : prev_ulctrl[i] \in Users =>
                               prev_ulctrl[i] # 2 * tx_subframe + j

IInv == TypeOK /\ LoopInv /\ SlotInv /\ SyncInv /\ DeafInv /\ CtrlInv

---------------------------------------------------------------------------
(* What the assumption says of the constants, in the form the proofs use.  *)
LEMMA Constants ==
  /\ FRAME_LEN \in Nat /\ FRAME_LEN >= 2
  /\ MAX_USER \in Nat /\ MAX_USER = 2 * FRAME_LEN /\ MAX_USER >= 4
  /\ NoUser \notin Users /\ USER_UNUSED \notin Users /\ USER_BROADCAST \notin Users
  BY SchedulerAssumption DEF NoUser, Users, USER_UNUSED, USER_BROADCAST

(* Every set of numbers has a least one.                                   *)
LEMMA LeastNumber ==
  ASSUME NEW T, T \subseteq Nat, T # {}
  PROVE  \E x \in T : \A y \in T : x <= y
<1>1. PICK x \in T : \A y \in T : ~ (<<y, x>> \in OpToRel(<, Nat))
  BY NatLessThanWellFounded, WFMin
<1>2. \A y \in T : ~ (y < x)
  BY <1>1 DEF OpToRel
<1> QED
  BY <1>2

(* The search of get_next_user ends at a user in use, if there is one.     *)
LEMMA NextUserActive ==
  ASSUME active \subseteq Users, active # {}, NEW c \in 0 .. MAX_USER - 1
  PROVE  NextUser(c) \in active
<1> DEFINE Distance(u) == (u - c - 1) % MAX_USER
           T == {Distance(u) : u \in active}
<1>1. \A u \in active : Distance(u) \in Nat
  BY Constants DEF Users
<1>2. T \subseteq Nat /\ T # {}
  BY <1>1
<1>3. PICK x \in T : \A y \in T : x <= y
  BY <1>2, LeastNumber
<1>4. \E u \in active : \A v \in active : Distance(u) <= Distance(v)
  BY <1>3
<1> QED
  BY <1>4 DEF NextUser

(* Both loops start at a user in use, if there is one.                     *)
LEMMA FirstUserActive ==
  ASSUME TypeOK
  PROVE  /\ FirstUser \in active \cup {NoUser}
         /\ FirstUserId \in active \cup {USER_UNUSED}
<1>1. CASE active = {}
  <2>1. FirstUser = NoUser
    BY <1>1 DEF FirstUser, NextUser
  <2> QED
    BY <2>1 DEF FirstUserId, TypeOK
<1>2. CASE active # {}
  <2>1. 0 \in 0 .. MAX_USER - 1
    BY Constants
  <2>2. FirstUser \in active
    BY <1>2, <2>1, NextUserActive DEF FirstUser, TypeOK
  <2> QED
    BY <2>2 DEF FirstUserId, TypeOK
<1> QED
  BY <1>1, <1>2

(* In the loops there is a next user.                                      *)
LEMMA LoopUserActive ==
  ASSUME TypeOK, ue # NoUser
  PROVE  NextUser(ue) \in active /\ NextUser(ue) \in Users
<1>1. ue \in active /\ active \subseteq Users
  BY DEF TypeOK
<1>2. ue \in 0 .. MAX_USER - 1
  BY <1>1, Constants DEF Users
<1> QED
  BY <1>1, <1>2, NextUserActive

---------------------------------------------------------------------------
(* The invariant holds before the first run (mac_bs_init).                 *)
LEMMA InitInv == Init => IInv
<1> SUFFICES ASSUME Init PROVE IInv
  OBVIOUS
<1> USE Constants DEF Init, NothingAssigned, Slots, CtrlSlots, USER_UNUSED,
        USER_BROADCAST, NoUser, Users
<1>1. TypeOK
  BY DEF TypeOK
<1>2. LoopInv /\ SlotInv /\ SyncInv
  BY DEF LoopInv, SlotInv, SyncInv
<1>3. DeafInv /\ CtrlInv
  BY DEF DeafInv, CtrlInv
<1> QED
  BY <1>1, <1>2, <1>3 DEF IInv

(* The tables and what the run works on do not change when a user is added *)
(* (mac_bs_add_new_ue), so that the invariant is kept.                     *)
LEMMA AddUserInv ==
  ASSUME IInv, AddUser
  PROVE  IInv'
<1> USE DEF AddUser, locals, rows
<1>1. TypeOK'
  <2>1. active' \subseteq Users /\ active \subseteq active'
    BY DEF IInv, TypeOK
  <2>2. unheard' \in Nat
    BY DEF IInv, TypeOK
  <2> QED
    BY <2>1, <2>2 DEF IInv, TypeOK
<1>2. LoopInv' /\ SlotInv' /\ SyncInv' /\ DeafInv' /\ CtrlInv'
  BY DEF IInv, LoopInv, SlotInv, SyncInv, DeafInv, CtrlInv
<1> QED
  BY <1>1, <1>2 DEF IInv

(* The beginning of a run keeps the invariant: the control slots are for   *)
(* users that had none in the row before, the broadcast slot is not among  *)
(* the first two, nor the one of the sync signal.                          *)
LEMMA StartInv ==
  ASSUME IInv, Start
  PROVE  IInv'
<1> USE Constants
<1>1. /\ TypeOK /\ LoopInv /\ SlotInv /\ SyncInv /\ DeafInv /\ CtrlInv
      /\ pc = "wait" /\ pc' = "dl" /\ slot_idx' = 0
  BY DEF IInv, Start
<1>2. \A s \in Slots : ul[s] = USER_UNUSED /\ ul'[s] = USER_UNUSED
  BY <1>1 DEF LoopInv, Start
<1>3. next_sfn' \in 0 .. FRAME_LEN - 1
  BY <1>1 DEF Start, RowSubframe, TypeOK
<1>4. \A i \in CtrlSlots :
        /\ ulctrl'[i] \in {USER_UNUSED, 2 * tx_subframe + i}
        /\ ulctrl'[i] \in Users \cup {USER_UNUSED}
  BY <1>1 DEF Start, UlCtrlRow, UlCtrlId, TypeOK
<1>5. ulctrl' \in [CtrlSlots -> Users \cup {USER_UNUSED}]
  BY <1>4 DEF Start, UlCtrlRow
<1>6. /\ available_slots' \in 2 .. 4
      /\ next_sfn' = 0 => available_slots' <= 3
      /\ dl' \in [Slots -> {USER_UNUSED, USER_BROADCAST}]
      /\ \A s \in 0 .. 1 : dl'[s] = USER_UNUSED
      /\ next_sfn' = 0 => dl'[3] = USER_UNUSED
  <2>1. DlSlots(RowSubframe) \in 3 .. 4 /\ (next_sfn' = 0 => DlSlots(RowSubframe) = 3)
    BY DEF Start, DlSlots
  <2>2. CASE dl' = NothingAssigned /\ available_slots' = DlSlots(RowSubframe)
    BY <2>1, <2>2 DEF NothingAssigned, Slots
  <2>3. CASE /\ dl' = [NothingAssigned EXCEPT ![BroadcastSlot(RowSubframe)] = USER_BROADCAST]
             /\ available_slots' = DlSlots(RowSubframe) - 1
    <3>1. /\ BroadcastSlot(RowSubframe) \in 2 .. 3
          /\ next_sfn' = 0 => BroadcastSlot(RowSubframe) = 2
      BY <2>1 DEF BroadcastSlot
    <3> HIDE DEF BroadcastSlot
    <3> QED
      BY <2>1, <2>3, <3>1 DEF NothingAssigned, Slots
  <2> QED
    BY <2>2, <2>3 DEF Start
<1>7. TypeOK'
  <2>1. ue' \in active' \cup {NoUser} /\ user_id' \in active' \cup {USER_UNUSED}
    BY <1>1, FirstUserActive DEF Start
  <2>2. unheard' \in Nat
    BY <1>1 DEF Start, TypeOK
  <2>3. dl' \in [Slots -> Users \cup {USER_UNUSED, USER_BROADCAST}]
    BY <1>6
  <2> QED
    BY <1>1, <1>3, <1>5, <1>6, <2>1, <2>2, <2>3 DEF Start, TypeOK
<1>8. LoopInv'
  BY <1>1, <1>2, <1>6 DEF LoopInv
<1>9. SlotInv'
  BY <1>2, <1>6 DEF SlotInv, Slots, USER_UNUSED, USER_BROADCAST, Users
<1>10. SyncInv'
  BY <1>2, <1>6 DEF SyncInv, Slots
<1>11. CtrlInv'
  BY <1>1, <1>4 DEF CtrlInv, Start
<1>12. DeafInv'
  <2> SUFFICES ASSUME NEW i \in CtrlSlots, prev_ulctrl[i] \in Users
               PROVE  /\ \A s \in Slots : dl'[s] # prev_ulctrl[i] /\ ul'[s] # prev_ulctrl[i]
                      /\ \A j \in CtrlSlots : ulctrl'[j] # prev_ulctrl[i]
    BY DEF DeafInv, Start
  <2>1. \A s \in Slots : dl'[s] # prev_ulctrl[i] /\ ul'[s] # prev_ulctrl[i]
    BY <1>2, <1>6
  <2>2. \A j \in CtrlSlots : ulctrl'[j] # prev_ulctrl[i]
    BY <1>1, <1>4 DEF CtrlInv
  <2> QED
    BY <2>1, <2>2
<1> QED
  BY <1>7, <1>8, <1>9, <1>10, <1>11, <1>12 DEF IInv

(* An iteration over the downlink slots keeps the invariant: the overlap   *)
(* check is about the slots of the row before, and none of this row's      *)
(* uplink is assigned yet.                                                 *)
LEMMA DlIterationInv ==
  ASSUME IInv, DlIteration
  PROVE  IInv'
<1> USE Constants
<1>1. /\ TypeOK /\ LoopInv /\ SlotInv /\ SyncInv /\ DeafInv /\ CtrlInv
      /\ pc = "dl" /\ ue # NoUser /\ slot_idx < available_slots /\ slot_idx \in Slots
      /\ UNCHANGED <<active, tx_subframe, pc, next_sfn, available_slots,
                     ul, ulctrl, prev_ul, prev_ulctrl, unheard>>
  BY DEF IInv, DlIteration, InLoop, TypeOK, Slots
<1>2. ue' \in active /\ ue' \in Users /\ ue' = NextUser(ue)
  BY <1>1, LoopUserActive DEF DlIteration
<1>3. \A s \in Slots : ul[s] = USER_UNUSED
  BY <1>1 DEF LoopInv
<1>4. CASE /\ ~DlOverlap(ue', slot_idx)
           /\ dl' = [dl EXCEPT ![slot_idx] = ue']
           /\ user_id' = ue'
           /\ slot_idx' = slot_idx + 1
  <2>1. \A s \in Slots : dl'[s] = IF s = slot_idx THEN ue' ELSE dl[s]
    BY <1>1, <1>4 DEF TypeOK
  <2>2. TypeOK'
    BY <1>1, <1>2, <1>4 DEF TypeOK, Slots
  <2>3. LoopInv'
    BY <1>1, <1>3 DEF LoopInv
  <2>4. SlotInv'
    <3>1. slot_idx < 2 => prev_ul[slot_idx + 2] # ue'
      BY <1>4 DEF DlOverlap
    <3> QED
      BY <1>1, <1>2, <1>3, <2>1, <3>1 DEF SlotInv, Slots
  <2>5. SyncInv'
    BY <1>1, <1>3, <2>1 DEF SyncInv, LoopInv, TypeOK, Slots
  <2>6. DeafInv'
    <3>1. \A i \in CtrlSlots : prev_ulctrl[i] # ue'
      BY <1>4 DEF DlOverlap, InPrevUlCtrl
    <3> QED
      BY <1>1, <2>1, <3>1 DEF DeafInv
  <2>7. CtrlInv'
    BY <1>1 DEF CtrlInv
  <2> QED
    BY <2>2, <2>3, <2>4, <2>5, <2>6, <2>7 DEF IInv
<1>5. CASE /\ slot_idx' = IF ue' = user_id THEN slot_idx + 1 ELSE slot_idx
           /\ UNCHANGED <<dl, user_id>>
  <2>1. TypeOK'
    BY <1>1, <1>2, <1>5 DEF TypeOK, Slots
  <2>2. LoopInv' /\ SlotInv' /\ SyncInv' /\ DeafInv' /\ CtrlInv'
    BY <1>1, <1>5 DEF LoopInv, SlotInv, SyncInv, DeafInv, CtrlInv
  <2> QED
    BY <2>1, <2>2 DEF IInv
<1> QED
  BY <1>4, <1>5 DEF DlIteration

(* Between the loops only the locals change.                               *)
LEMMA DlDoneInv ==
  ASSUME IInv, DlDone
  PROVE  IInv'
<1>1. /\ TypeOK /\ LoopInv /\ SlotInv /\ SyncInv /\ DeafInv /\ CtrlInv
      /\ pc' = "ul"
      /\ UNCHANGED <<active, tx_subframe, next_sfn, dl, ul, ulctrl, prev_ul,
                     prev_ulctrl, unheard>>
  BY DEF IInv, DlDone, rows
<1>2. available_slots' \in 3 .. 4 /\ (next_sfn = 0 => available_slots' = 3)
  BY DEF DlDone, UlSlots
<1>3. ue' \in active \cup {NoUser} /\ user_id' \in active \cup {USER_UNUSED}
  BY <1>1, FirstUserActive DEF DlDone
<1>4. slot_idx' = 0
  BY DEF DlDone
<1>5. TypeOK'
  BY <1>1, <1>2, <1>3, <1>4 DEF TypeOK
<1>6. LoopInv'
  BY <1>1, <1>2 DEF LoopInv
<1>7. SlotInv' /\ SyncInv' /\ DeafInv' /\ CtrlInv'
  BY <1>1 DEF SlotInv, SyncInv, DeafInv, CtrlInv
<1> QED
  BY <1>5, <1>6, <1>7 DEF IInv

(* An iteration over the uplink slots keeps the invariant: the overlap     *)
(* check is about the downlink of this row, which is complete.             *)
LEMMA UlIterationInv ==
  ASSUME IInv, UlIteration
  PROVE  IInv'
<1> USE Constants
<1>1. /\ TypeOK /\ LoopInv /\ SlotInv /\ SyncInv /\ DeafInv /\ CtrlInv
      /\ pc = "ul" /\ ue # NoUser /\ slot_idx < available_slots /\ slot_idx \in Slots
      /\ UNCHANGED <<active, tx_subframe, pc, next_sfn, available_slots,
                     dl, ulctrl, prev_ul, prev_ulctrl, unheard>>
  BY DEF IInv, UlIteration, InLoop, TypeOK, Slots
<1>2. ue' \in active /\ ue' \in Users /\ ue' = NextUser(ue)
  BY <1>1, LoopUserActive DEF UlIteration
<1>3. CASE /\ ~UlOverlap(ue', slot_idx)
           /\ ul' = [ul EXCEPT ![slot_idx] = ue']
           /\ user_id' = ue'
           /\ slot_idx' = slot_idx + 1
  <2>1. \A s \in Slots : ul'[s] = IF s = slot_idx THEN ue' ELSE ul[s]
    BY <1>1, <1>3 DEF TypeOK
  <2>2. TypeOK'
    BY <1>1, <1>2, <1>3 DEF TypeOK, Slots
  <2>3. LoopInv'
    BY <1>1 DEF LoopInv
  <2>4. SlotInv'
    <3>1. slot_idx < 2 => dl[slot_idx + 2] \notin {ue', USER_BROADCAST}
      BY <1>3 DEF UlOverlap
    <3> QED
      BY <1>1, <1>2, <2>1, <3>1 DEF SlotInv, Slots
  <2>5. SyncInv'
    <3>1. next_sfn = 0 => slot_idx # 1
      BY <1>3 DEF UlOverlap
    <3>2. next_sfn = 0 => slot_idx # 3
      BY <1>1 DEF LoopInv, TypeOK, Slots
    <3> QED
      BY <1>1, <2>1, <3>1, <3>2 DEF SyncInv, Slots
  <2>6. DeafInv'
    <3>1. \A i \in CtrlSlots : prev_ulctrl[i] # ue'
      BY <1>3 DEF UlOverlap, InPrevUlCtrl
    <3> QED
      BY <1>1, <2>1, <3>1 DEF DeafInv
  <2>7. CtrlInv'
    BY <1>1 DEF CtrlInv
  <2> QED
    BY <2>2, <2>3, <2>4, <2>5, <2>6, <2>7 DEF IInv
<1>4. CASE /\ slot_idx' = IF ue' = user_id THEN slot_idx + 1 ELSE slot_idx
           /\ UNCHANGED <<ul, user_id>>
  <2>1. TypeOK'
    BY <1>1, <1>2, <1>4 DEF TypeOK, Slots
  <2>2. LoopInv' /\ SlotInv' /\ SyncInv' /\ DeafInv' /\ CtrlInv'
    BY <1>1, <1>4 DEF LoopInv, SlotInv, SyncInv, DeafInv, CtrlInv
  <2> QED
    BY <2>1, <2>2 DEF IInv
<1> QED
  BY <1>3, <1>4 DEF UlIteration

(* Removing users changes none of the rows.                                *)
LEMMA FinishInv ==
  ASSUME IInv, Finish
  PROVE  IInv'
<1>1. /\ TypeOK /\ LoopInv /\ SlotInv /\ SyncInv /\ DeafInv /\ CtrlInv
      /\ pc' = "done"
      /\ UNCHANGED <<tx_subframe, next_sfn, dl, ul, ulctrl, prev_ul,
                     prev_ulctrl, unheard>>
  BY DEF IInv, Finish, rows
<1>2. TypeOK'
  BY <1>1 DEF TypeOK, Finish
<1>3. LoopInv' /\ SlotInv' /\ SyncInv' /\ DeafInv' /\ CtrlInv'
  BY <1>1 DEF LoopInv, SlotInv, SyncInv, DeafInv, CtrlInv
<1> QED
  BY <1>2, <1>3 DEF IInv

(* The next subframe: the row becomes the row before, whose control slots  *)
(* were for the two users of the subframe that is over, so that none of    *)
(* them is one of the next two.                                            *)
LEMMA NextSubframeInv ==
  ASSUME IInv, NextSubframe
  PROVE  IInv'
<1> USE Constants
<1>1. /\ TypeOK /\ LoopInv /\ SlotInv /\ SyncInv /\ DeafInv /\ CtrlInv
      /\ pc' = "wait"
      /\ UNCHANGED <<active, next_sfn, slot_idx, available_slots, ue, user_id, unheard>>
      /\ prev_ulctrl' = ulctrl
  BY DEF IInv, NextSubframe, locals
<1>2. /\ tx_subframe' \in 0 .. FRAME_LEN - 1
      /\ tx_subframe' = IF tx_subframe = FRAME_LEN - 1 THEN 0 ELSE tx_subframe + 1
  <2>1. tx_subframe \in 0 .. FRAME_LEN - 1
    BY <1>1 DEF TypeOK
  <2> QED
    BY <2>1 DEF NextSubframe
<1>3. /\ dl' = NothingAssigned /\ ul' = NothingAssigned
      /\ \A s \in Slots : dl'[s] = USER_UNUSED /\ ul'[s] = USER_UNUSED
      /\ ulctrl' = [i \in CtrlSlots |-> USER_UNUSED]
      /\ \A i \in CtrlSlots : ulctrl'[i] = USER_UNUSED
      /\ prev_ul' = [s \in Slots |-> IF s < 2 THEN USER_UNUSED ELSE ul[s]]
  BY DEF NextSubframe, NothingAssigned
<1>4. TypeOK'
  BY <1>1, <1>2, <1>3 DEF TypeOK, NothingAssigned, USER_UNUSED
<1>5. LoopInv'
  BY <1>1, <1>3 DEF LoopInv
<1>6. SlotInv' /\ SyncInv'
  BY <1>1, <1>3 DEF SlotInv, SyncInv, Slots, USER_UNUSED, USER_BROADCAST, Users
<1>7. DeafInv'
  BY <1>3 DEF DeafInv, USER_UNUSED, Users
<1>8. CtrlInv'
  <2>1. \A i, j \in CtrlSlots : ulctrl[i] \in Users => ulctrl[i] # 2 * tx_subframe' + j
    <3> SUFFICES ASSUME NEW i \in CtrlSlots, NEW j \in CtrlSlots, ulctrl[i] \in Users
                 PROVE  ulctrl[i] # 2 * tx_subframe' + j
      OBVIOUS
    <3>1. ulctrl[i] = 2 * tx_subframe + i
      BY <1>1 DEF CtrlInv
    <3>2. tx_subframe \in 0 .. FRAME_LEN - 1
      BY <1>1 DEF TypeOK
    <3> QED
      BY <1>2, <3>1, <3>2 DEF CtrlSlots
  <2> QED
    BY <1>1, <1>3, <2>1 DEF CtrlInv
<1> QED
  BY <1>4, <1>5, <1>6, <1>7, <1>8 DEF IInv

(* The invariant is inductive.                                             *)
LEMMA IInvHolds == Spec => []IInv
<1>1. Init => IInv
  BY InitInv
<1>2. IInv /\ [Next]_vars => IInv'
  <2> SUFFICES ASSUME IInv, [Next]_vars PROVE IInv'
    OBVIOUS
  <2>1. CASE Start
    BY <2>1, StartInv
  <2>2. CASE DlIteration
    BY <2>2, DlIterationInv
  <2>3. CASE DlDone
    BY <2>3, DlDoneInv
  <2>4. CASE UlIteration
    BY <2>4, UlIterationInv
  <2>5. CASE Finish
    BY <2>5, FinishInv
  <2>6. CASE NextSubframe
    BY <2>6, NextSubframeInv
  <2>7. CASE AddUser
    BY <2>7, AddUserInv
  <2>8. CASE UNCHANGED vars
    BY <2>8 DEF vars, locals, rows, IInv, TypeOK, LoopInv, SlotInv, SyncInv,
                DeafInv, CtrlInv
  <2> QED
    BY <2>1, <2>2, <2>3, <2>4, <2>5, <2>6, <2>7, <2>8 DEF Next, Run
<1> QED
  BY <1>1, <1>2, PTL DEF Spec

---------------------------------------------------------------------------
(* The slot layout: what overlaps with what, in symbols. *)

(* A slot of the uplink overlaps with the slot of the downlink two further *)
(* on, and the second one with the sync signal.                            *)
LEMMA UlSlotOverlaps ==
  ASSUME NEW s \in Slots, NEW n \in UlSlotSymbols(s)
  PROVE  /\ n \in Int /\ n \notin DlCtrlSymbols
         /\ \A t \in Slots : n \in DlSlotSymbols(t) => s < 2 /\ t = s + 2
         /\ n \in SyncSymbols => s = 1
  BY DEF Slots, UlSlotSymbols, DlSlotSymbols, SyncSymbols, DlCtrlSymbols,
         SUBFRAME_LEN, SLOT_LEN, DLCTRL_LEN, DL_UL_SHIFT

(* A control slot of the uplink overlaps with none of its own subframe.    *)
LEMMA UlCtrlOverlaps ==
  ASSUME NEW i \in CtrlSlots, NEW n \in UlCtrlSymbols(i)
  PROVE  /\ n \in Int /\ n \notin DlCtrlSymbols
         /\ \A t \in Slots : n \notin DlSlotSymbols(t)
         /\ n \notin SyncSymbols
  BY DEF Slots, CtrlSlots, UlCtrlSymbols, DlSlotSymbols, SyncSymbols, DlCtrlSymbols,
         SUBFRAME_LEN, SLOT_LEN, DLCTRL_LEN, DL_UL_SHIFT

(* The last two slots of the uplink reach into the next subframe, and      *)
(* overlap with its first two slots of the downlink.                       *)
LEMMA EarlierUlSlotOverlaps ==
  ASSUME NEW s \in Slots, NEW n \in Earlier(UlSlotSymbols(s))
  PROVE  /\ n \notin DlCtrlSymbols
         /\ \A t \in Slots : n \in DlSlotSymbols(t) => t < 2 /\ s = t + 2
         /\ n \notin SyncSymbols
<1>1. PICK m \in UlSlotSymbols(s) : n = m - SUBFRAME_LEN
  BY DEF Earlier
<1> QED
  BY <1>1 DEF Slots, UlSlotSymbols, DlSlotSymbols, SyncSymbols, DlCtrlSymbols,
              SUBFRAME_LEN, SLOT_LEN, DLCTRL_LEN, DL_UL_SHIFT

(* The control slots of the uplink reach into the next subframe, and       *)
(* overlap with its control channel.                                       *)
LEMMA EarlierUlCtrlOverlaps ==
  ASSUME NEW i \in CtrlSlots, NEW n \in Earlier(UlCtrlSymbols(i))
  PROVE  /\ \A t \in Slots : n \notin DlSlotSymbols(t)
         /\ n \notin SyncSymbols
<1>1. PICK m \in UlCtrlSymbols(i) : n = m - SUBFRAME_LEN
  BY DEF Earlier
<1> QED
  BY <1>1 DEF Slots, CtrlSlots, UlCtrlSymbols, DlSlotSymbols, SyncSymbols,
              SUBFRAME_LEN, SLOT_LEN, DLCTRL_LEN, DL_UL_SHIFT

(* When a user transmits: in one of four kinds of slots.                   *)
LEMMA TxCases ==
  ASSUME NEW u \in Users, NEW n \in TxSymbols(u)
  PROVE  \/ \E s \in Slots : ul[s] = u /\ n \in UlSlotSymbols(s)
         \/ \E i \in CtrlSlots : ulctrl[i] = u /\ n \in UlCtrlSymbols(i)
         \/ \E s \in Slots : prev_ul[s] = u /\ n \in Earlier(UlSlotSymbols(s))
         \/ \E i \in CtrlSlots : prev_ulctrl[i] = u /\ n \in Earlier(UlCtrlSymbols(i))
<1> DEFINE A == {UlSlotSymbols(s) : s \in {t \in Slots : ul[t] = u}}
           B == {UlCtrlSymbols(i) : i \in {j \in CtrlSlots : ulctrl[j] = u}}
           C == {Earlier(UlSlotSymbols(s)) : s \in {t \in Slots : prev_ul[t] = u}}
           D == {Earlier(UlCtrlSymbols(i)) : i \in {j \in CtrlSlots : prev_ulctrl[j] = u}}
<1>1. PICK S \in A \cup B \cup C \cup D : n \in S
  BY DEF TxSymbols
<1>2. CASE S \in A
  BY <1>1, <1>2
<1>3. CASE S \in B
  BY <1>1, <1>3
<1>4. CASE S \in C
  BY <1>1, <1>4
<1>5. CASE S \in D
  BY <1>1, <1>5
<1> QED
  BY <1>1, <1>2, <1>3, <1>4, <1>5

(* When a user listens: in its slots, those for all, and to the sync       *)
(* signal.                                                                 *)
LEMMA RxCases ==
  ASSUME NEW u \in Users, NEW n \in RxSymbols(u)
  PROVE  \/ \E t \in Slots : dl[t] \in {u, USER_BROADCAST} /\ n \in DlSlotSymbols(t)
         \/ next_sfn = 0 /\ n \in SyncSymbols
<1> DEFINE A == {DlSlotSymbols(s) : s \in {t \in Slots : dl[t] \in {u, USER_BROADCAST}}}
<1>1. CASE n \in UNION A
  <2>1. PICK S \in A : n \in S
    BY <1>1
  <2> QED
    BY <2>1
<1>2. CASE n \in IF next_sfn = 0 THEN SyncSymbols ELSE {}
  BY <1>2
<1> QED
  BY <1>1, <1>2 DEF RxSymbols

---------------------------------------------------------------------------
(* The results. *)

(* The variables keep their types: in particular the loops never leave the *)
(* tables, and never go on with a user that is gone (mac_bs.c lines        *)
(* 558-640).                                                               *)
THEOREM TypeCorrect == Spec => []TypeOK
<1>1. IInv => TypeOK
  BY DEF IInv
<1> QED
  BY <1>1, IInvHolds, PTL

(* The invariant keeps transmission and reception apart.                   *)
LEMMA HalfDuplexOfInv == IInv => HalfDuplex
<1> SUFFICES ASSUME IInv, NEW u \in Users, NEW n \in TxSymbols(u), n \in RxSymbols(u)
             PROVE  FALSE
  BY DEF HalfDuplex
<1>1. SlotInv /\ SyncInv
  BY DEF IInv
<1>2. u # USER_UNUSED
  BY Constants
<1>3. \/ \E t \in Slots : dl[t] \in {u, USER_BROADCAST} /\ n \in DlSlotSymbols(t)
      \/ next_sfn = 0 /\ n \in SyncSymbols
  BY RxCases
<1>4. CASE \E s \in Slots : ul[s] = u /\ n \in UlSlotSymbols(s)
  <2>1. PICK s \in Slots : ul[s] = u /\ n \in UlSlotSymbols(s)
    BY <1>4
  <2>2. ~ \E t \in Slots : dl[t] \in {u, USER_BROADCAST} /\ n \in DlSlotSymbols(t)
    BY <1>1, <2>1, UlSlotOverlaps DEF SlotInv, Slots
  <2>3. ~ (next_sfn = 0 /\ n \in SyncSymbols)
    BY <1>1, <1>2, <2>1, UlSlotOverlaps DEF SyncInv
  <2> QED
    BY <1>3, <2>2, <2>3
<1>5. CASE \E i \in CtrlSlots : ulctrl[i] = u /\ n \in UlCtrlSymbols(i)
  BY <1>3, <1>5, UlCtrlOverlaps
<1>6. CASE \E s \in Slots : prev_ul[s] = u /\ n \in Earlier(UlSlotSymbols(s))
  <2>1. PICK s \in Slots : prev_ul[s] = u /\ n \in Earlier(UlSlotSymbols(s))
    BY <1>6
  <2>2. PICK t \in Slots : dl[t] \in {u, USER_BROADCAST} /\ n \in DlSlotSymbols(t)
    BY <1>3, <2>1, EarlierUlSlotOverlaps
  <2>3. t \in 0 .. 1 /\ s = t + 2
    BY <2>1, <2>2, EarlierUlSlotOverlaps DEF Slots
  <2>4. dl[t] = u
    BY <1>1, <2>2, <2>3 DEF SlotInv
  <2> QED
    BY <1>1, <2>1, <2>3, <2>4 DEF SlotInv
<1>7. CASE \E i \in CtrlSlots : prev_ulctrl[i] = u /\ n \in Earlier(UlCtrlSymbols(i))
  BY <1>3, <1>7, EarlierUlCtrlOverlaps
<1> QED
  BY <1>4, <1>5, <1>6, <1>7, TxCases

(* No user is ever to transmit while it is to listen, for every length of  *)
(* the frame and however users come and go during the run: the overlap     *)
(* checks of dl_ul_overlap_check (mac_bs.c lines 476-500) are enough.      *)
THEOREM HalfDuplexAlways == Spec => []HalfDuplex
BY IInvHolds, HalfDuplexOfInv, PTL

(* The invariant keeps users with an assignment listening to the control   *)
(* channel: the overlap checks look at the control slots of the row before,*)
(* and two rows in sequence have control slots for different users.        *)
LEMMA HearsAssignmentOfInv == IInv => HearsAssignment
<1> SUFFICES ASSUME IInv, NEW u \in Users, Assigned(u), NEW n \in TxSymbols(u),
                    n \in DlCtrlSymbols
             PROVE  FALSE
  BY DEF HearsAssignment
<1>1. \A i \in CtrlSlots : prev_ulctrl[i] # u
  BY DEF IInv, DeafInv, Assigned
<1> QED
  BY <1>1, TxCases, UlSlotOverlaps, UlCtrlOverlaps, EarlierUlSlotOverlaps

(* Whoever is given a slot is not transmitting while the control channel   *)
(* says so.                                                                *)
THEOREM HearsAssignmentAlways == Spec => []HearsAssignment
BY IInvHolds, HearsAssignmentOfInv, PTL

(* The invariant keeps the symbols of the sync signal and the slot of      *)
(* random access free.                                                     *)
LEMMA ReservedFreeOfInv == IInv => ReservedFree
<1> SUFFICES ASSUME IInv, next_sfn = 0
             PROVE  /\ \A s \in Slots : dl[s] # USER_UNUSED =>
                                          DlSlotSymbols(s) \cap SyncSymbols = {}
                    /\ ul[3] = USER_UNUSED
  BY DEF ReservedFree
<1>1. dl[3] = USER_UNUSED /\ ul[3] = USER_UNUSED
  BY DEF IInv, SyncInv
<1>2. ASSUME NEW s \in Slots, s # 3
      PROVE  DlSlotSymbols(s) \cap SyncSymbols = {}
  BY <1>2 DEF Slots, DlSlotSymbols, SyncSymbols, SUBFRAME_LEN, SLOT_LEN, DLCTRL_LEN
<1> QED
  BY <1>1, <1>2

(* In subframe 0 the scheduler gives no one the symbols of the sync signal *)
(* or the slot of random access.                                           *)
THEOREM ReservedFreeAlways == Spec => []ReservedFree
BY IInvHolds, ReservedFreeOfInv, PTL

---------------------------------------------------------------------------
(* The control slot of every user. *)

(* The subframes since the one whose run has the control slots of Watched. *)
Turn == Watched \div 2
SinceTurn == IF tx_subframe >= Turn THEN tx_subframe - Turn
             ELSE tx_subframe - Turn + FRAME_LEN
BeforeTurn == IF tx_subframe > Turn THEN tx_subframe - Turn - 1
              ELSE tx_subframe - Turn - 1 + FRAME_LEN

(* The rows without a control slot for Watched are those since its turn:   *)
(* during a run the row being filled counts, before it does not.           *)
TurnInv ==
  Watched \in active => /\ pc = "wait" => unheard <= BeforeTurn
                        /\ pc # "wait" => unheard <= SinceTurn

(* The turn of a user is in the frame, and the slot it then has is its own.*)
LEMMA TurnOfWatched ==
  /\ Watched \in Users /\ Turn \in 0 .. FRAME_LEN - 1
  /\ Watched = 2 * Turn \/ Watched = 2 * Turn + 1
  BY SchedulerAssumption DEF Turn, Users

(* In the run of its turn Watched has a control slot.                      *)
LEMMA HeardInTurn ==
  ASSUME TypeOK, Watched \in active, tx_subframe = Turn
  PROVE  \E i \in CtrlSlots : UlCtrlRow[i] = Watched
<1>1. CASE Watched = 2 * Turn
  <2>1. 0 \in CtrlSlots /\ UlCtrlId(0) = Watched
    BY <1>1, TurnOfWatched DEF CtrlSlots, UlCtrlId
  <2> QED
    BY <2>1 DEF UlCtrlRow
<1>2. CASE Watched = 2 * Turn + 1
  <2>1. 1 \in CtrlSlots /\ UlCtrlId(1) = Watched
    BY <1>2, TurnOfWatched DEF CtrlSlots, UlCtrlId
  <2> QED
    BY <2>1 DEF UlCtrlRow
<1> QED
  BY <1>1, <1>2, TurnOfWatched

(* Every step keeps the count: a run resets it in its turn, and counts one *)
(* more in the others, a subframe moves the turn one further away.         *)
LEMMA TurnStep ==
  ASSUME TypeOK, TurnInv, [Next]_vars
  PROVE  TurnInv'
<1> USE Constants, TurnOfWatched
<1>1. /\ tx_subframe \in 0 .. FRAME_LEN - 1 /\ unheard \in Nat
      /\ SinceTurn \in Nat /\ BeforeTurn \in Nat
      /\ tx_subframe # Turn => SinceTurn = BeforeTurn + 1
  BY DEF TypeOK, SinceTurn, BeforeTurn
<1>2. CASE Start
  <2>1. /\ pc = "wait" /\ pc' = "dl" /\ active' = active
        /\ SinceTurn' = SinceTurn /\ Turn' = Turn
    BY <1>2 DEF Start, SinceTurn, Turn
  <2>2. CASE tx_subframe = Turn /\ Watched \in active
    <3>1. unheard' = 0
      BY <1>2, <2>2, HeardInTurn DEF Start
    <3> QED
      BY <1>1, <2>1, <3>1 DEF TurnInv
  <2>3. CASE tx_subframe # Turn
    <3>1. unheard' \in {0, unheard + 1}
      BY <1>2 DEF Start
    <3> QED
      BY <1>1, <2>1, <2>3, <3>1 DEF TurnInv
  <2> QED
    BY <2>1, <2>2, <2>3 DEF TurnInv
<1>3. CASE DlIteration \/ DlDone \/ UlIteration \/ Finish
  <2>1. /\ pc # "wait" /\ pc' # "wait" /\ active' \subseteq active
        /\ unheard' = unheard /\ tx_subframe' = tx_subframe
    BY <1>3 DEF DlIteration, DlDone, UlIteration, Finish, InLoop
  <2>2. SinceTurn' = SinceTurn
    BY <2>1 DEF SinceTurn, Turn
  <2> QED
    BY <2>1, <2>2 DEF TurnInv
<1>4. CASE NextSubframe
  <2>1. /\ pc # "wait" /\ pc' = "wait" /\ active' = active /\ unheard' = unheard
        /\ tx_subframe' = IF tx_subframe = FRAME_LEN - 1 THEN 0 ELSE tx_subframe + 1
    BY <1>1, <1>4 DEF NextSubframe
  <2>2. BeforeTurn' = SinceTurn
    BY <1>1, <2>1 DEF BeforeTurn, SinceTurn, Turn
  <2> QED
    BY <2>1, <2>2 DEF TurnInv
<1>5. CASE AddUser
  <2>1. /\ pc' = pc /\ SinceTurn' = SinceTurn /\ BeforeTurn' = BeforeTurn
        /\ Watched \in active' => \/ Watched \in active /\ unheard' \in {0, unheard}
                                 \/ unheard' = 0
    BY <1>5 DEF AddUser, SinceTurn, BeforeTurn, Turn
  <2> QED
    BY <1>1, <2>1 DEF TurnInv
<1>6. CASE UNCHANGED vars
  BY <1>6 DEF vars, TurnInv, SinceTurn, BeforeTurn, Turn
<1> QED
  BY <1>2, <1>3, <1>4, <1>5, <1>6 DEF Next, Run

(* Every user has a control slot at least every FRAME_LEN subframes (the   *)
(* comment of mac_bs.c line 529): the link adaptation and the inactivity   *)
(* timer count on it.                                                      *)
THEOREM CtrlSlotAlways == Spec => []CtrlSlotEachFrame
<1>1. Init => TurnInv
  BY DEF Init, TurnInv
<1>2. TypeOK /\ TurnInv /\ [Next]_vars => TurnInv'
  BY TurnStep
<1>3. TypeOK /\ TurnInv => CtrlSlotEachFrame
  BY Constants, TurnOfWatched DEF TypeOK, TurnInv, SinceTurn, BeforeTurn, CtrlSlotEachFrame
<1> QED
  BY <1>1, <1>2, <1>3, TypeCorrect, PTL DEF Spec
===========================================================================
