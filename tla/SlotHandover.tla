--------------------------- MODULE SlotHandover ---------------------------
(***************************************************************************)
(* How a received data slot gets from the receive thread to the slot       *)
(* thread, which decodes it: phy_bs.c and basestation.c, phy_ue.c and      *)
(* client.c.  The receive thread writes the number of the slot and signals *)
(* a condition variable that has no predicate; the slot thread reads the   *)
(* number, the subframe count and the row of assignments when it runs, and *)
(* the base station's scheduler writes rows and removes users meanwhile.   *)
(*                                                                         *)
(* Time is counted in symbols of the receive thread, which is never late.  *)
(* The slot thread shares its processor with the scheduler, which has the  *)
(* higher priority: while the scheduler runs, the slot thread stands still.*)
(* Buffers from the radio have two symbols: between two buffers there is   *)
(* time for a thread to start that has nothing above it, within one there  *)
(* may or may not be.                                                      *)
(***************************************************************************)
EXTENDS Integers, FiniteSets

CONSTANTS
  SUBFRAME_LEN,  (* symbols of a subframe                                  *)
  SLOT_LEN,      (* symbols of a data slot, before one symbol of guard     *)
  DLCTRL_LEN,    (* symbols of the downlink's control channel              *)
  FRAME_LEN,     (* subframes of a frame                                   *)
  FirstRxSymbol, (* base station: where in a subframe it begins to receive *)
  SchedSymbol,   (* base station: where the scheduler is woken, in symbols *)
                 (* of the uplink                                          *)
  DecodeTime,    (* symbols of processor time to decode a slot, at most    *)
  SchedTime,     (* symbols a run of the scheduler takes, at most          *)
  Users,         (* base station: the ids that rows give slots to; client: *)
                 (* to itself or to all                                    *)
  Rows           (* the rows of assignments: each slot has its own user    *)

Slots == 0 .. 3
Nobody == 0

ASSUME HandoverAssumption ==
  /\ SLOT_LEN \in Nat \ {0}
  /\ DLCTRL_LEN \in Nat \ {0} /\ DLCTRL_LEN % 2 = 0
  /\ SUBFRAME_LEN = 4 * (SLOT_LEN + 1) + DLCTRL_LEN + 2
  /\ FirstRxSymbol \in 0 .. SUBFRAME_LEN - 1
  /\ FRAME_LEN \in Nat /\ FRAME_LEN >= 2 /\ FRAME_LEN % 2 = 0
  /\ SchedSymbol \in 1 .. SUBFRAME_LEN - 1
  /\ DecodeTime \in Nat \ {0} /\ SchedTime \in Nat \ {0}
  /\ Nobody \notin Users
  /\ Rows \subseteq [Slots -> Users \cup {Nobody}]

Sides == {"BS", "UE"}

VARIABLES
  side,         (* whose threads these are                                 *)
  phase,        (* rx_symbol % 2 where buffers begin                       *)
  rx_symbol,    (* symbols received of the subframe                        *)
  rx_subframe,
  assignments,  (* ulslot_assignments, or the client's dlslot_assignments  *)
  UE,           (* base station: the ids in use                            *)
  rx_slot_nr,   (* the slot the slot thread is to decode                   *)
  slot_th,      (* the slot thread, and how long it has been computing     *)
  sched,        (* the scheduler: what it does next, and for how long      *)
  onAir         (* history: what the slots of this subframe really are     *)

vars == <<side, phase, rx_symbol, rx_subframe, assignments, UE, rx_slot_nr,
          slot_th, sched, onAir>>

EmptyRow == [s \in Slots |-> Nobody]

(* What the slot thread is doing: the slot that it decodes and the user    *)
(* whose that is; history: the slot it has been signalled for, whose that  *)
(* really is, and whether the scheduler has delayed it.                    *)
Waiting == [pc |-> "wait", slot |-> 0, user |-> Nobody, time |-> 0,
            nr |-> 0, expected |-> Nobody, delayed |-> FALSE]

Init ==
  /\ side \in {"BS", "UE"}
  /\ phase \in IF side = "BS" THEN {1} ELSE {0, 1}
  /\ rx_symbol = IF side = "BS" THEN FirstRxSymbol ELSE SUBFRAME_LEN - 2
  /\ rx_subframe = IF side = "BS" THEN FRAME_LEN - 1 ELSE 0
  /\ assignments = [r \in 0 .. 1 |-> EmptyRow]
  /\ UE = {}
  /\ rx_slot_nr = 0
  /\ slot_th = Waiting
  /\ sched = [pc |-> "wait", time |-> 0]
  /\ onAir = EmptyRow

---------------------------------------------------------------------------
(* The receive thread. *)

(* Changed form: the control slots are forgotten in the last slot.         *)
SlotEndUnshifted(s) ==
  IF side = "BS" THEN s * (SLOT_LEN + 1) + (IF s # 2 THEN 0 ELSE 4) + SLOT_LEN
                 ELSE (s + 1) * (SLOT_LEN + 1) + DLCTRL_LEN + 1

(* Symbols received when a slot is complete.  The base station has the     *)
(* uplink's control slots between slots 1 and 2.                           *)
SlotEnd(s) ==
  IF side = "BS" THEN s * (SLOT_LEN + 1) + (IF s < 2 THEN 0 ELSE 4) + SLOT_LEN
                 ELSE (s + 1) * (SLOT_LEN + 1) + DLCTRL_LEN + 1

(* The slot is passed on: by the base station if its user has a receiver;  *)
(* by the client always, but that subframe 0 has the sync information in   *)
(* the place of slot 3.                                                    *)
PassedOn(s) ==
  IF side = "BS" THEN assignments[rx_subframe % 2][s] \in UE
                 ELSE ~(s = 3 /\ rx_subframe = 0)

(* The condition is signalled: it wakes the slot thread if that waits, and *)
(* is forgotten if it does not.                                            *)
Signalled(s) ==
  IF slot_th.pc = "wait"
  THEN [Waiting EXCEPT !.pc = "woken", !.nr = s, !.expected = onAir[s]]
  ELSE slot_th

(* A symbol goes by while the slot thread computes, or would if it could.  *)
Elapsed ==
  IF sched.pc # "wait" /\ slot_th.pc # "wait" THEN [slot_th EXCEPT !.delayed = TRUE]
  ELSE IF slot_th.pc = "decode" THEN [slot_th EXCEPT !.time = @ + 1]
  ELSE slot_th

(* The other threads have done what they do by the end of the symbol.      *)
InTime ==
  IF sched.pc # "wait" THEN sched.time < SchedTime
  ELSE CASE slot_th.pc = "wait"   -> TRUE
         [] slot_th.pc = "woken"  -> rx_symbol % 2 # phase
         [] slot_th.pc = "decode" -> slot_th.time < DecodeTime
         [] OTHER                 -> FALSE

(* Changed form: the base station's run begins with the end of slot 1.     *)
StartsSchedulerAfterSlot1(received) ==
  IF side = "BS" THEN received = SlotEnd(1)
  ELSE received \in {DLCTRL_LEN, DLCTRL_LEN + 1} /\ received % 2 = phase

(* Changed form: the base station's run begins after the control slots.    *)
StartsSchedulerAfterUlCtrl(received) ==
  IF side = "BS" THEN received = SlotEnd(1) + 4
  ELSE received \in {DLCTRL_LEN, DLCTRL_LEN + 1} /\ received % 2 = phase

(* Where a run of the scheduler begins: the base station's transmit thread *)
(* signals it, the client's receive thread does at the end of a buffer.    *)
StartsScheduler(received) ==
  IF side = "BS" THEN received = SchedSymbol
  ELSE received \in {DLCTRL_LEN, DLCTRL_LEN + 1} /\ received % 2 = phase

(* Changed form: subframes are counted on and on.                          *)
NextSubframeUnwrapped == rx_subframe + 1

NextSubframe == (rx_subframe + 1) % FRAME_LEN

(* The client's control channel is complete: the row of this subframe.     *)
ProcDlctrl ==
  \E row \in Rows :
    /\ onAir' = row
    /\ assignments' = [assignments EXCEPT ![rx_subframe % 2] = row]

(* One more symbol is received, and its callback called.                   *)
RxSymbol ==
  LET received == rx_symbol + 1
      ended == {s \in Slots : SlotEnd(s) = received /\ PassedOn(s)}
      last == received = SUBFRAME_LEN
  IN  /\ InTime
      /\ rx_symbol' = received % SUBFRAME_LEN
      /\ rx_subframe' = IF last THEN NextSubframe ELSE rx_subframe
      /\ \/ ended = {} /\ slot_th' = Elapsed /\ UNCHANGED rx_slot_nr
         \/ \E s \in ended : rx_slot_nr' = s /\ slot_th' = Signalled(s)
      /\ IF side = "UE" /\ received = DLCTRL_LEN THEN ProcDlctrl
         ELSE /\ onAir' = IF side = "BS" /\ last
                        THEN assignments[NextSubframe % 2] ELSE onAir
              /\ UNCHANGED assignments
      /\ sched' = IF sched.pc = "wait" /\ StartsScheduler(received)
                  THEN [pc |-> "assign", time |-> 0]
                  ELSE IF sched.pc = "wait" THEN sched ELSE [sched EXCEPT !.time = @ + 1]
      /\ UNCHANGED <<side, phase, UE>>

(* phy_bs_proc_rach: at the end of subframe 0 a user may be added.         *)
AddUser ==
  /\ side = "BS"
  /\ rx_subframe = 0 /\ rx_symbol >= SUBFRAME_LEN - SLOT_LEN
  /\ \E u \in Users \ UE : UE' = UE \cup {u}
  /\ UNCHANGED <<side, phase, rx_symbol, rx_subframe, assignments, rx_slot_nr,
                 slot_th, sched, onAir>>

---------------------------------------------------------------------------
(* The scheduler. *)

(* The base station's run writes the next row, each slot of which goes to  *)
(* one of the users there are, or to nobody; subframe 0 has the random     *)
(* access in the place of slot 3.  The client's run does not matter here.  *)
SchedAssign ==
  /\ sched.pc = "assign"
  /\ sched' = [sched EXCEPT !.pc = "remove"]
  /\ \/ side = "UE" /\ UNCHANGED assignments
     \/ /\ side = "BS"
        /\ \E row \in Rows :
             /\ \A s \in Slots : row[s] \in UE \cup {Nobody}
             /\ NextSubframe = 0 => row[3] = Nobody
             /\ assignments' = [assignments EXCEPT ![NextSubframe % 2] = row]
  /\ UNCHANGED <<side, phase, rx_symbol, rx_subframe, UE, rx_slot_nr, slot_th, onAir>>

(* ... and removes users that have been silent.                            *)
SchedRemove ==
  /\ sched.pc = "remove"
  /\ sched' = [pc |-> "wait", time |-> 0]
  /\ UE' \in SUBSET UE
  /\ UNCHANGED <<side, phase, rx_symbol, rx_subframe, assignments, rx_slot_nr,
                 slot_th, onAir>>

---------------------------------------------------------------------------
(* The slot thread, which has to wait for its processor. *)

(* phy_bs_proc_slot, phy_ue_proc_slot: what is to be decoded is looked up. *)
LookUp ==
  LET user == assignments[rx_subframe % 2][rx_slot_nr]
  IN  /\ slot_th.pc = "woken"
      /\ sched.pc = "wait"
      /\ slot_th' = IF user = Nobody \/ (side = "BS" /\ user \notin UE) THEN Waiting
                    ELSE [slot_th EXCEPT !.pc = "decode", !.slot = rx_slot_nr,
                                         !.user = user]
      /\ UNCHANGED <<side, phase, rx_symbol, rx_subframe, assignments, UE,
                     rx_slot_nr, sched, onAir>>

(* The slot is decoded.  mac_bs_rx_channel takes the user for granted:     *)
(* without one the program ends.                                           *)
Deliver ==
  /\ slot_th.pc = "decode"
  /\ sched.pc = "wait"
  /\ slot_th' = IF side = "BS" /\ slot_th.user \notin UE
                THEN [slot_th EXCEPT !.pc = "crashed"] ELSE Waiting
  /\ UNCHANGED <<side, phase, rx_symbol, rx_subframe, assignments, UE,
                 rx_slot_nr, sched, onAir>>

Next ==
  /\ slot_th.pc # "crashed"
  /\ RxSymbol \/ AddUser \/ SchedAssign \/ SchedRemove \/ LookUp \/ Deliver

Spec == Init /\ [][Next]_vars

---------------------------------------------------------------------------
TypeOK ==
  /\ side \in {"BS", "UE"} /\ phase \in {0, 1}
  /\ rx_symbol \in 0 .. SUBFRAME_LEN - 1
  /\ rx_subframe \in 0 .. FRAME_LEN - 1
  /\ assignments \in [0 .. 1 -> [Slots -> Users \cup {Nobody}]]
  /\ UE \subseteq Users
  /\ rx_slot_nr \in Slots
  /\ slot_th \in [pc : {"wait", "woken", "decode", "crashed"},
                  slot : Slots, user : Users \cup {Nobody}, time : 0 .. DecodeTime,
                  nr : Slots, expected : Users \cup {Nobody}, delayed : BOOLEAN]
  /\ sched \in [pc : {"wait", "assign", "remove"}, time : 0 .. SchedTime]
  /\ onAir \in [Slots -> Users \cup {Nobody}]

(* The client's buffers end so that slot 3 and the end of its subframe are *)
(* in one buffer: nothing makes the slot thread run between the two.       *)
Hurried == side = "UE" /\ phase = 0 /\ slot_th.nr = 3

(* The slot thread decodes the slot that it has been signalled for, and    *)
(* not another one of the row, as the user's to whom that slot was         *)
(* assigned, although it looks up the number, the subframe and the row     *)
(* only when it runs.                                                      *)
DecodesAssigned ==
  slot_th.pc = "decode" =>
    /\ slot_th.slot = slot_th.nr
    /\ slot_th.user = slot_th.expected \/ Hurried

(* A slot is lost, its signal forgotten, only if the scheduler has run     *)
(* while the one before was decoded: without it, the slot thread keeps up. *)
LostOnlyBehindScheduler ==
  [][slot_th.pc # "wait" /\ rx_slot_nr' # rx_slot_nr /\ onAir[rx_slot_nr'] # Nobody
       => slot_th.delayed]_vars

(* A user is removed under the decoder only in slot 3, the last of a       *)
(* subframe: the run of the scheduler begins after it and ends before the  *)
(* next could be decoded.                                                  *)
RemovedOnlyInLastSlot ==
  slot_th.pc \in {"decode", "crashed"} /\ side = "BS" /\ slot_th.user \notin UE
    => slot_th.nr = 3
===========================================================================
