---------------------------- MODULE UeTransmit ----------------------------
(***************************************************************************)
(* What the transmitter of a client does, symbol by symbol.  Once per      *)
(* subframe mac_ue_run_scheduler fills the row of the next subframe in     *)
(* ul_symbol_alloc with the symbols of the slots that the client was       *)
(* given; phy_ue_write_symbol reads the rows, sends data, and switches     *)
(* between receiving and transmitting (PTT).  There are two rows, for even *)
(* and odd subframes, and the symbols between two slots belong to both.    *)
(* A client that is not associated sends a random access request once per  *)
(* frame instead.                                                          *)
(*                                                                         *)
(* What the slots carry is not modelled.                                   *)
(***************************************************************************)
EXTENDS Integers

CONSTANTS
  SLOT_LEN,        (* symbols of a slot, 14                                *)
  FRAME_LEN,       (* subframes per frame, 8                               *)
  SlotSets,        (* bound: the sets of data slots that may be given      *)
  Delays,          (* bound: symbols between the control channel and the   *)
                   (* run of the scheduler                                 *)
  Ctrl0After1,     (* slot 1 and control slot 0 are given in one subframe  *)
  MaxAssociations, (* bound: associations                                  *)
  MaxSkips         (* bound: subframes without a run of the scheduler,     *)
                   (* because the client has lost its synchronisation      *)

ASSUME TransmitAssumption ==
  /\ SLOT_LEN \in Nat /\ SLOT_LEN >= 5
  /\ FRAME_LEN \in Nat /\ FRAME_LEN >= 2 /\ FRAME_LEN % 2 = 0
  /\ SlotSets \subseteq SUBSET (0 .. 3)
  /\ Delays \subseteq 0 .. 2 * SLOT_LEN + 2
  /\ Ctrl0After1 \in BOOLEAN
  /\ MaxAssociations \in Nat /\ MaxSkips \in Nat

NUM_SLOT == 4
SUBFRAME_LEN == NUM_SLOT * (SLOT_LEN + 1) + 4
Symbols == 0 .. SUBFRAME_LEN - 1
Slots == 0 .. NUM_SLOT - 1
CtrlSlots == 0 .. 1
Alloc == {"NOT_USED", "DATA", "PTT_UP", "PTT_DOWN"}

(* The uplink control slots lie between slots 1 and 2.                     *)
FirstSymb(slot) == (SLOT_LEN + 1) * slot + (IF slot < 2 THEN 0 ELSE 4)
LastSymb(slot) == FirstSymb(slot) + SLOT_LEN - 1
CtrlSymb(i) == 2 * (SLOT_LEN + 1) + 2 * i

(* The control channel of a subframe is received, and the scheduler run,   *)
(* when the uplink is here in the subframe before, at the earliest.        *)
RunSymbol == CtrlSymb(1)

VARIABLES
  alloc,          (* ul_symbol_alloc                                       *)
  tx_symbol, tx_subframe,
  is_associated,  (* the MAC's                                             *)
  ptt,            (* "rx" or "tx"                                          *)
  sent,           (* what the symbol before tx_symbol carried              *)
  due,            (* the scheduler is yet to run for the next subframe     *)
  granted,        (* history: for even and odd subframes, the slots and    *)
                  (* control slots given for the one to come or being sent *)
  fresh,          (* history: for even and odd rows, whether the scheduler *)
                  (* filled the row for the subframe to come or being sent *)
  disturbed,      (* history: the transmitter was switched on and the      *)
                  (* association changed, or the row was not fresh         *)
  steady,         (* history: subframes begun since the client was         *)
                  (* associated, up to 2                                   *)
  associations, skips           (* history: how often, for the bounds      *)

history == <<granted, fresh, disturbed, steady, associations, skips>>
vars == <<alloc, tx_symbol, tx_subframe, is_associated, ptt, sent, due, history>>

Nothing == [slots |-> {}, ctrl |-> {}]
EmptyRow == [n \in Symbols |-> "NOT_USED"]

Init ==
  /\ alloc = [p \in 0 .. 1 |-> EmptyRow]
  /\ tx_symbol = 0
  /\ tx_subframe = 0
  /\ is_associated = FALSE
  /\ ptt = "rx"
  /\ sent = "zero"
  /\ due = TRUE
  /\ granted = [p \in 0 .. 1 |-> Nothing]
  /\ fresh = [p \in 0 .. 1 |-> FALSE]
  /\ disturbed = FALSE
  /\ steady = 0
  /\ associations = 0
  /\ skips = 0

---------------------------------------------------------------------------
(* The scheduler. *)

(* Row p with the symbols of a slot set to data, and whether the symbol    *)
(* before them switches the transmitter on or joins two slots.             *)
SetData(a, p, slot) ==
  [a EXCEPT ![p] = [n \in Symbols |->
     IF n \in FirstSymb(slot) .. LastSymb(slot) THEN "DATA" ELSE a[p][n]]]
UpOrJoin(before) == IF before = "NOT_USED" THEN "PTT_UP" ELSE "DATA"

(* Changed form: nothing switches the transmitter off after a slot.        *)
MapUlSlotStaysOn(a, p, slot) ==
  IF slot = 0
  THEN [SetData(a, p, 0) EXCEPT ![1 - p][SUBFRAME_LEN - 1] =
          UpOrJoin(a[1 - p][SUBFRAME_LEN - 2])]
  ELSE [SetData(a, p, slot) EXCEPT ![p][FirstSymb(slot) - 1] =
          UpOrJoin(a[p][FirstSymb(slot) - 2])]

(* Changed form: the symbol before slot 0 is looked for in the slot's row. *)
MapUlSlotOwnRow(a, p, slot) ==
  LET before == (FirstSymb(slot) - 1) % SUBFRAME_LEN
      last == LastSymb(slot)
      up == [SetData(a, p, slot) EXCEPT ![p][before] = UpOrJoin(a[p][before - 1])]
  IN  IF slot = NUM_SLOT - 1 \/ up[p][last + 2] = "NOT_USED"
      THEN [up EXCEPT ![p][last + 1] = "PTT_DOWN"]
      ELSE up

(* phy_map_ulslot: the symbols of the slot, the one before it, which is in *)
(* the other row for slot 0, and the one after it.                         *)
MapUlSlot(a, p, slot) ==
  LET first == FirstSymb(slot)
      last == LastSymb(slot)
      up == IF slot = 0
            THEN [SetData(a, p, 0) EXCEPT ![1 - p][SUBFRAME_LEN - 1] =
                    UpOrJoin(a[1 - p][SUBFRAME_LEN - 2])]
            ELSE [SetData(a, p, slot) EXCEPT ![p][first - 1] =
                    UpOrJoin(a[p][first - 2])]
  IN  IF slot = NUM_SLOT - 1 \/ up[p][last + 2] = "NOT_USED"
      THEN [up EXCEPT ![p][last + 1] = "PTT_DOWN"]
      ELSE up

(* phy_map_ulctrl.                                                         *)
MapUlCtrl(a, p, i) ==
  LET n == CtrlSymb(i)
      up == IF a[p][n - 2] = "NOT_USED"
            THEN [a EXCEPT ![p][n - 1] = "PTT_UP", ![p][n] = "DATA"]
            ELSE [a EXCEPT ![p][n] = "DATA"]
  IN  IF up[p][n + 2] = "NOT_USED"
      THEN [up EXCEPT ![p][n + 1] = "PTT_DOWN"]
      ELSE up

(* Changed form: the row is not cleared.                                   *)
ResetSymbolAllocationNot(a, p) == a

(* phy_ue_reset_symbol_allocation.                                         *)
ResetSymbolAllocation(a, p) == [a EXCEPT ![p] = EmptyRow]

MapUlSlotIf(given, a, p, slot) == IF given THEN MapUlSlot(a, p, slot) ELSE a
MapUlCtrlIf(given, a, p, i) == IF given THEN MapUlCtrl(a, p, i) ELSE a

(* The rows once the slots in S are mapped for a subframe of parity p, one *)
(* after the other.                                                        *)
MapUlSlots(a, p, S) ==
  LET a0 == MapUlSlotIf(0 \in S, a, p, 0)
      a1 == MapUlSlotIf(1 \in S, a0, p, 1)
      a2 == MapUlSlotIf(2 \in S, a1, p, 2)
  IN  MapUlSlotIf(3 \in S, a2, p, 3)
MapUlCtrls(a, p, C) ==
  MapUlCtrlIf(1 \in C, MapUlCtrlIf(0 \in C, a, p, 0), p, 1)

(* The rows once what is in g has been mapped for a subframe of parity p.  *)
MapRow(p, g) ==
  MapUlCtrls(MapUlSlots(ResetSymbolAllocation(alloc, p), p, g.slots), p, g.ctrl)

(* What the base station gives: some slots, and at most one control slot.  *)
Grants ==
  {g \in [slots : SlotSets, ctrl : {{}, {0}, {1}}] :
     Ctrl0After1 \/ ~(1 \in g.slots /\ 0 \in g.ctrl)}

Next_sfn == (tx_subframe + 1) % 2

SetAssociated(b) ==
  /\ is_associated' = b
  /\ disturbed' = (disturbed \/ (ptt = "tx" /\ is_associated # b))
  /\ steady' = IF is_associated = b THEN steady ELSE 0

(* What the next subframe was given, and whether its row was filled.       *)
Grant(g, filled) ==
  /\ granted' = [granted EXCEPT ![Next_sfn] = g]
  /\ fresh' = [fresh EXCEPT ![Next_sfn] = filled]

(* mac_ue_run_scheduler, once the control channel has been received.       *)
(* The client may find that it has lost its connection; it maps the slots  *)
(* all the same.                                                           *)
RunScheduler(g, lost) ==
  /\ due
  /\ tx_symbol - RunSymbol \in Delays
  /\ due' = FALSE
  /\ IF ~is_associated
     THEN /\ Grant(Nothing, FALSE)
          /\ UNCHANGED <<alloc, is_associated, disturbed, steady>>
     ELSE /\ SetAssociated(~lost)
          /\ alloc' = MapRow(Next_sfn, g)
          /\ Grant(g, TRUE)
  /\ UNCHANGED <<tx_symbol, tx_subframe, ptt, sent, associations, skips>>

(* The synchronisation is lost, and the scheduler does not run.            *)
SkipRun ==
  /\ due
  /\ tx_symbol = SUBFRAME_LEN - 2
  /\ skips < MaxSkips
  /\ skips' = skips + 1
  /\ due' = FALSE
  /\ Grant(Nothing, FALSE)
  /\ UNCHANGED <<alloc, tx_symbol, tx_subframe, is_associated, ptt, sent,
                 disturbed, steady, associations>>

(* The receive thread handles an association response or the end of the    *)
(* session.                                                                *)
Associate ==
  /\ ~is_associated
  /\ associations < MaxAssociations
  /\ SetAssociated(TRUE)
  /\ associations' = associations + 1
  /\ UNCHANGED <<alloc, tx_symbol, tx_subframe, ptt, sent, due, granted, fresh,
                 skips>>

EndSession ==
  /\ is_associated
  /\ SetAssociated(FALSE)
  /\ UNCHANGED <<alloc, tx_symbol, tx_subframe, ptt, sent, due, granted, fresh,
                 associations, skips>>

---------------------------------------------------------------------------
(* The transmit thread. *)

(* The random access request is sent in the last slot of subframe 0, with  *)
(* the transmitter on from one symbol before it.                           *)
RachSymbol(k) == tx_subframe = 0 /\ tx_symbol = SUBFRAME_LEN - SLOT_LEN + k

Out(what, switch) ==
  /\ sent' = what
  /\ ptt' = switch
  /\ disturbed' = (switch = "tx" /\
                     (disturbed \/ (is_associated /\ ~fresh[tx_subframe % 2])))

WriteRach ==
  /\ ~is_associated
  /\ \/ RachSymbol(-1) /\ Out("zero", "tx")
     \/ (\E k \in 0 .. 3 : RachSymbol(k)) /\ Out("rach", ptt)
     \/ RachSymbol(4) /\ Out("zero", "rx")
     \/ (~\E k \in -1 .. 4 : RachSymbol(k)) /\ Out("zero", ptt)

WriteRow ==
  /\ is_associated
  /\ CASE alloc[tx_subframe % 2][tx_symbol] = "DATA" -> Out("data", ptt)
       [] alloc[tx_subframe % 2][tx_symbol] = "PTT_UP" -> Out("zero", "tx")
       [] alloc[tx_subframe % 2][tx_symbol] = "PTT_DOWN" -> Out("zero", "rx")
       [] OTHER -> Out("zero", ptt)

(* Changed form: one symbol more than a subframe has.                      *)
NextSymbolLate(n) == (n + 1) % (SUBFRAME_LEN + 1)

NextSymbol(n) == (n + 1) % SUBFRAME_LEN

(* phy_ue_write_symbol.  The scheduler has run, or is known not to, before *)
(* the last symbol but one is left.                                        *)
WriteSymbol ==
  /\ tx_symbol = SUBFRAME_LEN - 2 => ~due
  /\ WriteRach \/ WriteRow
  /\ tx_symbol' = NextSymbol(tx_symbol)
  /\ IF tx_symbol = SUBFRAME_LEN - 1
     THEN /\ tx_subframe' = (tx_subframe + 1) % FRAME_LEN
          /\ due' = TRUE
          /\ steady' = IF is_associated /\ steady < 2 THEN steady + 1 ELSE steady
     ELSE UNCHANGED <<tx_subframe, due, steady>>
  /\ UNCHANGED <<alloc, is_associated, granted, fresh, associations, skips>>

Next ==
  \/ \E g \in Grants, lost \in BOOLEAN : RunScheduler(g, lost)
  \/ SkipRun
  \/ Associate
  \/ EndSession
  \/ WriteSymbol

Spec == Init /\ [][Next]_vars

---------------------------------------------------------------------------
(* The symbol that was written last, and the parity of its subframe.       *)
Prev == (tx_symbol - 1) % SUBFRAME_LEN
PrevParity == IF tx_symbol = 0 THEN (tx_subframe + 1) % 2 ELSE tx_subframe % 2

(* The symbols of the slots in g, from one before to one after each.       *)
Window(g) ==
  UNION ({FirstSymb(s) - 1 .. LastSymb(s) + 1 : s \in g.slots} \cup
         {CtrlSymb(i) - 1 .. CtrlSymb(i) + 1 : i \in g.ctrl})

(* Whether that symbol lies in the window of a slot that was given for its *)
(* subframe, or of slot 0 of the subframe after.                           *)
InWindow ==
  \/ Prev \in Window(granted[PrevParity])
  \/ Prev = SUBFRAME_LEN - 1 /\ 0 \in granted[1 - PrevParity].slots

TypeOK ==
  /\ alloc \in [0 .. 1 -> [Symbols -> Alloc]]
  /\ tx_symbol \in Symbols
  /\ tx_subframe \in 0 .. FRAME_LEN - 1
  /\ is_associated \in BOOLEAN
  /\ ptt \in {"rx", "tx"}
  /\ sent \in {"zero", "data", "rach"}
  /\ due \in BOOLEAN
  /\ granted \in [0 .. 1 -> [slots : SUBSET Slots, ctrl : SUBSET CtrlSlots]]
  /\ fresh \in [0 .. 1 -> BOOLEAN]
  /\ disturbed \in BOOLEAN
  /\ steady \in 0 .. 2
  /\ associations \in 0 .. MaxAssociations
  /\ skips \in 0 .. MaxSkips

(* Whatever is sent goes out: the transmitter is on when a symbol carries  *)
(* data, whichever slots lie side by side and on both sides of a subframe  *)
(* boundary ("we have to set the PTT signal before this data slot",        *)
(* phy_ue.c line 693), once the client has been associated for a whole     *)
(* subframe.  (One that is associated in the middle of slot 3 of a row it  *)
(* has from an earlier session joins slot 0 to it without switching on.)   *)
DataWithPtt == sent = "data" /\ fresh[PrevParity] /\ steady = 2 => ptt = "tx"

(* The transmitter is on only from one symbol before to one symbol after   *)
(* the slots that the client was given, which the base station's scheduler *)
(* relies on to keep clients from missing their downlink.  A session that  *)
(* begins or ends while the transmitter is on leaves it on until it is     *)
(* next switched.                                                          *)
PttInWindow ==
  is_associated /\ ptt = "tx" /\ ~disturbed => InWindow

(* As long as the scheduler runs for every subframe, data is sent only in  *)
(* slots that were given for this very subframe, and nothing from the      *)
(* subframe two before, which had the same row.                            *)
DataOnlyGranted == sent = "data" /\ fresh[PrevParity] => InWindow
===========================================================================
