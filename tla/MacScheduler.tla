--------------------------- MODULE MacScheduler ---------------------------
(***************************************************************************)
(* The slot scheduler of the base station: mac_bs_run_scheduler.  Once per *)
(* subframe it fills one row of the assignment tables: which user gets     *)
(* each of the 4 downlink slots, the 4 uplink slots and the 2 uplink       *)
(* control slots.  The loops over the slots are modelled iteration by      *)
(* iteration, because the PHY receive thread adds users while they run.    *)
(*                                                                         *)
(* A client cannot listen while it transmits, and its uplink is shifted by *)
(* DL_UL_SHIFT symbols against the downlink, so that what collides with    *)
(* what is a matter of symbols: TxSymbols and RxSymbols say when a user    *)
(* transmits and listens, from the slot layout of the PHY.                 *)
(*                                                                         *)
(* The queues are not modelled: the TAP thread and the handlers of received*)
(* messages change them at any moment, so that whether a user has anything *)
(* to send when the loop looks at it is a choice of that iteration.  Of the*)
(* tables the row being filled and the row before it are kept.             *)
(* The scheduler is taken to finish before the subframe does.              *)
(***************************************************************************)
EXTENDS Integers, FiniteSets

CONSTANTS
  FRAME_LEN,     (* subframes per frame, 8                                 *)
  MAX_USER,      (* size of the user table, 16                             *)
  RunAtSymbol0,  (* the run is started as the subframe starts, as the      *)
                 (* simulation does, or later in it, as the radio does     *)
  Watched,       (* any user id, see unheard                               *)
  MaxActive      (* bound: users at a time                                 *)

(* Each user id has an uplink control slot of its own, see UlCtrlRow.      *)
ASSUME SchedulerAssumption ==
  /\ FRAME_LEN \in Nat /\ FRAME_LEN >= 2
  /\ MAX_USER = 2 * FRAME_LEN
  /\ RunAtSymbol0 \in BOOLEAN
  /\ Watched \in 2 .. MAX_USER - 1
  /\ MaxActive \in Nat

USER_UNUSED == 0
USER_BROADCAST == 1
Users == 2 .. MAX_USER - 1
Slots == 0 .. 3
CtrlSlots == 0 .. 1
NoUser == -1
NothingAssigned == [s \in Slots |-> USER_UNUSED]

VARIABLES
  active,          (* the ids with UE[id] != NULL                          *)
  tx_subframe,     (* PHY: the subframe being transmitted                  *)
  pc,              (* scheduler: "wait" for the signal, the loop it is in, *)
                   (* "dl" or "ul", or "done" for this subframe            *)
  next_sfn,        (* the subframe whose row is filled                     *)
  slot_idx, available_slots, ue, user_id,    (* locals of the loops        *)
  dl, ul, ulctrl,  (* the row of next_sfn                                  *)
  prev_ul, prev_ulctrl,     (* the row before it, slots 0 and 1 are over   *)
  unheard          (* history: rows since Watched had a control slot       *)

locals == <<slot_idx, available_slots, ue, user_id>>
rows == <<dl, ul, ulctrl, prev_ul, prev_ulctrl>>
vars == <<active, tx_subframe, pc, next_sfn, locals, rows, unheard>>

Init ==
  /\ active = {}
  /\ tx_subframe = 0
  /\ pc = "wait"
  /\ next_sfn = 0
  /\ slot_idx = 0
  /\ available_slots = 0
  /\ ue = NoUser
  /\ user_id = USER_UNUSED
  /\ dl = NothingAssigned
  /\ ul = NothingAssigned
  /\ ulctrl = [i \in CtrlSlots |-> USER_UNUSED]
  /\ prev_ul = NothingAssigned
  /\ prev_ulctrl = [i \in CtrlSlots |-> USER_UNUSED]
  /\ unheard = 0

---------------------------------------------------------------------------
(* The PHY receive thread: mac_bs_add_new_ue takes the first free id for a *)
(* random access request.                                                  *)
AddUser ==
  /\ Cardinality(active) < MaxActive
  /\ LET free == Users \ active
         first == {u \in free : \A v \in free : u <= v}
     IN  /\ active' = active \cup first
         /\ unheard' = IF Watched \in first THEN 0 ELSE unheard
  /\ UNCHANGED <<tx_subframe, pc, next_sfn, locals, rows>>

---------------------------------------------------------------------------
(* The scheduler. *)

(* get_next_user: the next id in use after curr, going round the table;    *)
(* curr itself comes last.                                                 *)
NextUser(curr) ==
  IF active = {} THEN NoUser
  ELSE CHOOSE u \in active :
         \A v \in active : (u - curr - 1) % MAX_USER <= (v - curr - 1) % MAX_USER

FirstUser == NextUser(0)
(* Changed form: the local keeps the 0 it is initialised with.             *)
FirstUserIdUnset == USER_UNUSED
FirstUserId == IF FirstUser # NoUser THEN FirstUser ELSE user_id

InPrevUlCtrl(u) == \E i \in CtrlSlots : prev_ulctrl[i] = u

(* Changed forms: the control slots, or broadcasts, are forgotten.         *)
DlOverlapDataOnly(u, slot) == slot < 2 /\ prev_ul[slot + 2] = u

UlOverlapUnicastOnly(u, slot) ==
  \/ slot < 2 /\ dl[slot + 2] = u
  \/ next_sfn = 0 /\ slot = 1
  \/ InPrevUlCtrl(u)

(* dl_ul_overlap_check for a downlink and for an uplink slot.              *)
DlOverlap(u, slot) ==
  \/ slot < 2 /\ prev_ul[slot + 2] = u
  \/ InPrevUlCtrl(u)

UlOverlap(u, slot) ==
  \/ slot < 2 /\ dl[slot + 2] \in {u, USER_BROADCAST}
  \/ next_sfn = 0 /\ slot = 1
  \/ InPrevUlCtrl(u)

(* Changed form: both control slots are looked up with the first id.       *)
UlCtrlIdFirst(i) == 2 * tx_subframe

(* Users 2k and 2k+1 have the control slots of the run in subframe k.      *)
UlCtrlId(i) == 2 * tx_subframe + i

UlCtrlRow == [i \in CtrlSlots |-> IF UlCtrlId(i) \in active THEN UlCtrlId(i)
                                  ELSE USER_UNUSED]

RowSubframe == IF RunAtSymbol0 THEN tx_subframe
               ELSE (tx_subframe + 1) % FRAME_LEN

(* Changed form: all slots of every subframe are given out.                *)
DlSlotsAll(sfn) == 4

(* The sync signal takes the last downlink slot of subframe 0, and random  *)
(* access its last uplink slot.                                            *)
DlSlots(sfn) == IF sfn = 0 THEN 3 ELSE 4
UlSlots(sfn) == IF sfn = 0 THEN 3 ELSE 4

(* The last slot that is left is for broadcast, if there is any.           *)
BroadcastSlot(sfn) == DlSlots(sfn) - 1

(* The beginning of a run: the control slots are assigned, and a broadcast *)
(* slot if there are broadcast messages or data.                           *)
Start ==
  /\ pc = "wait"
  /\ pc' = "dl"
  /\ next_sfn' = RowSubframe
  /\ ulctrl' = UlCtrlRow
  /\ unheard' = IF Watched \in active /\ ~\E i \in CtrlSlots : ulctrl'[i] = Watched
                THEN unheard + 1 ELSE 0
  /\ \/ /\ dl' = NothingAssigned
        /\ available_slots' = DlSlots(RowSubframe)
     \/ /\ dl' = [NothingAssigned EXCEPT ![BroadcastSlot(RowSubframe)] = USER_BROADCAST]
        /\ available_slots' = DlSlots(RowSubframe) - 1
  /\ slot_idx' = 0
  /\ ue' = FirstUser
  /\ user_id' = FirstUserId
  /\ UNCHANGED <<active, tx_subframe, ul, prev_ul, prev_ulctrl>>

InLoop(loop) == pc = loop /\ ue # NoUser /\ slot_idx < available_slots

(* One iteration of the loop over the downlink slots: the slot is for the  *)
(* next user if that has something to receive and is not transmitting; it  *)
(* stays empty when the round is back at the last user that got one.       *)
DlIteration ==
  /\ InLoop("dl")
  /\ ue' = NextUser(ue)
  /\ \/ /\ ~DlOverlap(ue', slot_idx)
        /\ dl' = [dl EXCEPT ![slot_idx] = ue']
        /\ user_id' = ue'
        /\ slot_idx' = slot_idx + 1
     \/ /\ slot_idx' = IF ue' = user_id THEN slot_idx + 1 ELSE slot_idx
        /\ UNCHANGED <<dl, user_id>>
  /\ UNCHANGED <<active, tx_subframe, pc, next_sfn, available_slots,
                 ul, ulctrl, prev_ul, prev_ulctrl, unheard>>

(* Between the loops.                                                      *)
DlDone ==
  /\ pc = "dl" /\ ~InLoop("dl")
  /\ pc' = "ul"
  /\ slot_idx' = 0
  /\ ue' = FirstUser
  /\ user_id' = FirstUserId
  /\ available_slots' = UlSlots(next_sfn)
  /\ UNCHANGED <<active, tx_subframe, next_sfn, rows, unheard>>

(* The same for the uplink.                                                *)
UlIteration ==
  /\ InLoop("ul")
  /\ ue' = NextUser(ue)
  /\ \/ /\ ~UlOverlap(ue', slot_idx)
        /\ ul' = [ul EXCEPT ![slot_idx] = ue']
        /\ user_id' = ue'
        /\ slot_idx' = slot_idx + 1
     \/ /\ slot_idx' = IF ue' = user_id THEN slot_idx + 1 ELSE slot_idx
        /\ UNCHANGED <<ul, user_id>>
  /\ UNCHANGED <<active, tx_subframe, pc, next_sfn, available_slots,
                 dl, ulctrl, prev_ul, prev_ulctrl, unheard>>

(* The row is written to the control channel, and users whose session has  *)
(* ended are removed.                                                      *)
Finish ==
  /\ pc = "ul" /\ ~InLoop("ul")
  /\ pc' = "done"
  /\ slot_idx' = 0 /\ available_slots' = 0
  /\ ue' = NoUser /\ user_id' = USER_UNUSED
  /\ active' \in SUBSET active
  /\ UNCHANGED <<tx_subframe, next_sfn, rows, unheard>>

(* The transmit thread goes on to the next subframe, and wakes up the      *)
(* scheduler for the next row; slots 2 and 3 of the last row are still to  *)
(* be transmitted.                                                         *)
NextSubframe ==
  /\ pc = "done"
  /\ pc' = "wait"
  /\ tx_subframe' = (tx_subframe + 1) % FRAME_LEN
  /\ dl' = NothingAssigned
  /\ ul' = NothingAssigned
  /\ ulctrl' = [i \in CtrlSlots |-> USER_UNUSED]
  /\ prev_ul' = [s \in Slots |-> IF s < 2 THEN USER_UNUSED ELSE ul[s]]
  /\ prev_ulctrl' = ulctrl
  /\ UNCHANGED <<active, next_sfn, locals, unheard>>

Run == Start \/ DlIteration \/ DlDone \/ UlIteration \/ Finish

Next ==
  \/ Run
  \/ NextSubframe
  \/ AddUser

(* The scheduler thread runs at the priority of the transmit thread's.     *)
Spec == Init /\ [][Next]_vars /\ WF_vars(Run)

---------------------------------------------------------------------------
(* When a user transmits and listens, in downlink symbols from the start   *)
(* of subframe next_sfn.  Its transmitter is on from one symbol before a   *)
(* slot to one symbol after it.                                            *)

SUBFRAME_LEN == 64
SLOT_LEN == 14
DLCTRL_LEN == 2
DL_UL_SHIFT == 34

DlCtrlSymbols == 0 .. DLCTRL_LEN - 1
SyncSymbols == SUBFRAME_LEN - 5 .. SUBFRAME_LEN - 2

DlSlotSymbols(s) ==
  LET first == DLCTRL_LEN + 2 + (SLOT_LEN + 1) * s
  IN  first .. first + SLOT_LEN - 1

UlSlotSymbols(s) ==
  LET first == DL_UL_SHIFT + (SLOT_LEN + 1) * s + (IF s < 2 THEN 0 ELSE 4)
  IN  first - 1 .. first + SLOT_LEN

UlCtrlSymbols(i) ==
  LET first == DL_UL_SHIFT + 2 * (SLOT_LEN + 1) + 2 * i
  IN  first - 1 .. first + 1

Earlier(symbols) == {n - SUBFRAME_LEN : n \in symbols}

TxSymbols(u) ==
  UNION ({UlSlotSymbols(s) : s \in {t \in Slots : ul[t] = u}}
   \cup {UlCtrlSymbols(i) : i \in {j \in CtrlSlots : ulctrl[j] = u}}
   \cup {Earlier(UlSlotSymbols(s)) : s \in {t \in Slots : prev_ul[t] = u}}
   \cup {Earlier(UlCtrlSymbols(i)) : i \in {j \in CtrlSlots : prev_ulctrl[j] = u}})

RxSymbols(u) ==
  (UNION {DlSlotSymbols(s) : s \in {t \in Slots : dl[t] \in {u, USER_BROADCAST}}})
  \cup (IF next_sfn = 0 THEN SyncSymbols ELSE {})

Assigned(u) ==
  \/ \E s \in Slots : dl[s] = u \/ ul[s] = u
  \/ \E i \in CtrlSlots : ulctrl[i] = u

---------------------------------------------------------------------------
TypeOK ==
  /\ active \subseteq Users
  /\ tx_subframe \in 0 .. FRAME_LEN - 1
  /\ pc \in {"wait", "dl", "ul", "done"}
  /\ next_sfn \in 0 .. FRAME_LEN - 1
  /\ slot_idx \in 0 .. 4
  /\ available_slots \in 0 .. 4
  /\ ue \in active \cup {NoUser}
  /\ user_id \in active \cup {USER_UNUSED}
  /\ dl \in [Slots -> Users \cup {USER_UNUSED, USER_BROADCAST}]
  /\ ul \in [Slots -> Users \cup {USER_UNUSED}]
  /\ ulctrl \in [CtrlSlots -> Users \cup {USER_UNUSED}]
  /\ prev_ul \in [Slots -> Users \cup {USER_UNUSED}]
  /\ prev_ulctrl \in [CtrlSlots -> Users \cup {USER_UNUSED}]
  /\ unheard \in Nat

(* No user is ever to transmit in a symbol in which it is to receive a     *)
(* data slot, a broadcast or the sync signal, over the row being filled    *)
(* and the one before, which is still on the air.                          *)
HalfDuplex == \A u \in Users : TxSymbols(u) \cap RxSymbols(u) = {}

(* A user that is given a slot hears the control channel that says so: it  *)
(* does not transmit a control slot of the previous subframe meanwhile.    *)
HearsAssignment ==
  \A u \in Users : Assigned(u) => TxSymbols(u) \cap DlCtrlSymbols = {}

(* Subframe 0 keeps the symbols of the sync signal and the slot of random  *)
(* access free: a data slot in either would be lost, or keep new clients   *)
(* out.                                                                    *)
ReservedFree ==
  next_sfn = 0 =>
    /\ \A s \in Slots : dl[s] # USER_UNUSED =>
                          DlSlotSymbols(s) \cap SyncSymbols = {}
    /\ ul[3] = USER_UNUSED

(* Every user gets a control slot once per frame, whatever the traffic and *)
(* whenever it has come ("every 8th subframe", mac_bs.c line 529).         *)
CtrlSlotEachFrame == Watched \in active => unheard < FRAME_LEN

(* Every run ends, although users are added and queues change during its   *)
(* loops: the loops end when the round is back at the last user.           *)
RunEnds == pc = "dl" ~> pc = "done"
===========================================================================
