------------------------------ MODULE TxAlign -----------------------------
(***************************************************************************)
(* How the client keeps its uplink in step with the downlink: the transmit *)
(* thread of client.c, against the receive thread that finds the sync      *)
(* sequence at other places of its buffers (phy_ue.c) and the threads that *)
(* set the timing advance (mac_ue.c).                                      *)
(*                                                                         *)
(* Radio buffers hold two symbols.  The thread writes symbols into the     *)
(* buffers shifted by tx_shift samples; when it sees another rx_offset or  *)
(* timing_advance it moves tx_shift, modulo the buffer's length, and skips *)
(* or repeats two symbols for each time this wraps.                        *)
(***************************************************************************)
EXTENDS Integers

CONSTANTS
  SymLen,       (* nfft + cp_len, the samples of a symbol                  *)
  SUBFRAME_LEN, (* symbols of a subframe                                   *)
  FRAME_LEN,    (* subframes of a frame                                    *)
  CheckFrom,    (* the tx_symbol from which subframe 0 looks for changes   *)
  FirstSymbol,  (* tx_symbol when the first sync sequence is found         *)
  Advances,     (* the timing advances base stations send                  *)
  Drift,        (* samples rx_offset may move from one sync to the next    *)
  MaxChanges    (* bound: changes of offset or advance in a behaviour      *)

SYMBOLS_PER_BUF == 2
buflen == SYMBOLS_PER_BUF * SymLen

ASSUME AlignAssumption ==
  /\ SymLen \in Nat \ {0}
  /\ SUBFRAME_LEN \in Nat \ {0} /\ FRAME_LEN \in Nat \ {0}
  /\ CheckFrom \in Nat
  /\ FirstSymbol \in 0 .. SUBFRAME_LEN - 1
  /\ Advances \subseteq Nat /\ 0 \in Advances
  /\ Drift \in Nat /\ Drift < SymLen
  /\ MaxChanges \in Nat

VARIABLES
  synced,          (* phy_ue_initial_sync: "no", "flag" once it has set    *)
                   (* has_synced_once, "yes" once rx_offset is set         *)
  phy_rx_offset,   (* phy->rx_offset: where in a receive buffer the symbol *)
                   (* after the sync sequence begins                       *)
  mac_advance,     (* mac->timing_advance                                  *)
  tx_pc,           (* the transmit thread: "wait" for sync, "first" and    *)
                   (* "second" symbol, "check", "record"                   *)
  rx_offset,       (* its locals: the offset                               *)
  timing_advance,  (* and the advance it has moved for,                    *)
  tx_shift,        (* and the samples the symbols are shifted by           *)
  tx_symbol,       (* phy->common->tx_symbol                               *)
  tx_subframe,
  used,            (* history: the offset and advance read by the check    *)
  lag,             (* history: how many samples the uplink begins behind   *)
                   (* where it was to begin, measured in the downlink      *)
  bias,            (* history: the lag that the first check leads to       *)
  torn,            (* history: something was recorded that was not used    *)
  slipped,         (* history: a symbol beyond the subframe's was counted  *)
  changes          (* history: changes of offset and advance so far        *)

alignVars == <<synced, phy_rx_offset, mac_advance, tx_pc, rx_offset,
               timing_advance, tx_shift, tx_symbol, tx_subframe, used, lag,
               bias, torn, slipped, changes>>

(* rx_offset_delta: a difference of offsets, taken the shorter way round   *)
(* the buffer; one turn only, whatever the difference.                     *)
Nearest(d) ==
  CASE d > SymLen  -> d - buflen
    [] d < -SymLen -> d + buflen
    [] OTHER       -> d

AlignInit ==
  /\ synced = "no"
  /\ phy_rx_offset = 0
  /\ mac_advance = 0
  /\ tx_pc = "wait"
  /\ rx_offset = 0 /\ timing_advance = 0 /\ tx_shift = 0
  /\ tx_symbol = 0 /\ tx_subframe = 0
  /\ used = [rx |-> 0, ta |-> 0]
  /\ lag = 0 /\ bias = 0
  /\ torn = FALSE /\ slipped = FALSE
  /\ changes = 0

---------------------------------------------------------------------------
(* The receive thread and the MAC's threads                                *)

threadVars == <<tx_pc, rx_offset, timing_advance, tx_shift, used, torn,
                slipped>>

(* The first sync sequence: the counters and the flag are set first,       *)
(* rx_offset when the function has returned.                               *)
InitialSync ==
  /\ synced = "no"
  /\ synced' = "flag"
  /\ tx_symbol' = FirstSymbol /\ tx_subframe' = 0
  /\ UNCHANGED <<phy_rx_offset, mac_advance, lag, bias, changes>>
  /\ UNCHANGED threadVars

(* If the transmit thread has started in between, it has taken 0 for the   *)
(* offset.                                                                 *)
SetOffset(r) ==
  /\ synced = "flag"
  /\ synced' = "yes"
  /\ phy_rx_offset' = r
  /\ IF tx_pc = "wait"
       THEN UNCHANGED <<lag, bias>>
       ELSE lag' = lag - r /\ bias' = bias + Nearest(r) - r
  /\ UNCHANGED <<mac_advance, tx_symbol, tx_subframe, changes>>
  /\ UNCHANGED threadVars

(* What the transmit thread has moved for, or is about to record.          *)
Known == IF tx_pc = "record"
           THEN used
           ELSE [rx |-> rx_offset, ta |-> timing_advance]

(* A later sync sequence, d samples away from where it was expected: the   *)
(* downlink's frames have moved against the transmit buffers.  There is    *)
(* one a frame, and the transmit thread has seen the one before.           *)
Resync(d) ==
  /\ synced = "yes" /\ tx_pc # "wait" /\ changes < MaxChanges
  /\ Nearest(phy_rx_offset - Known.rx) = 0
  /\ phy_rx_offset' = (phy_rx_offset + d) % buflen
  /\ lag' = lag - d
  /\ changes' = changes + 1
  /\ UNCHANGED <<synced, mac_advance, tx_symbol, tx_subframe, bias>>
  /\ UNCHANGED threadVars

(* associate_response, timing_advance, session_end and the timer.          *)
SetAdvance(a) ==
  /\ synced = "yes" /\ a # mac_advance /\ changes < MaxChanges
  /\ mac_advance' = a
  /\ changes' = changes + 1
  /\ UNCHANGED <<synced, phy_rx_offset, tx_symbol, tx_subframe, lag, bias>>
  /\ UNCHANGED threadVars

---------------------------------------------------------------------------
(* The transmit thread                                                     *)

(* The flag has been seen: the offset is taken as it is, and negated for   *)
(* rx_offset.  The uplink now begins where the symbol after the sync       *)
(* sequence did, and the first check will move it by bias.                 *)
Start ==
  /\ tx_pc = "wait" /\ synced # "no"
  /\ tx_pc' = "first"
  /\ rx_offset' = -phy_rx_offset
  /\ tx_shift' = phy_rx_offset
  /\ bias' = Nearest(phy_rx_offset - rx_offset')
  /\ UNCHANGED <<synced, phy_rx_offset, mac_advance, timing_advance,
                 tx_symbol, tx_subframe, used, lag, torn, slipped, changes>>

(* What a symbol beyond the subframe's end costs: its counter goes to 0    *)
(* wherever it comes from.                                                 *)
Lost(s) == IF s + 1 > SUBFRAME_LEN THEN s + 1 - SUBFRAME_LEN ELSE 0

(* phy_ue_write_symbol: the counters.  What the symbol carries is up to    *)
(* UeTransmit, and to PttTiming.                                           *)
WriteSymbol ==
  /\ tx_pc \in {"first", "second"}
  /\ tx_pc' = IF tx_pc = "first" THEN "second" ELSE "check"
  /\ IF tx_symbol + 1 >= SUBFRAME_LEN
       THEN tx_symbol' = 0 /\ tx_subframe' = (tx_subframe + 1) % FRAME_LEN
       ELSE tx_symbol' = tx_symbol + 1 /\ UNCHANGED tx_subframe
  /\ lag' = lag + Lost(tx_symbol) * SymLen
  /\ slipped' = (slipped \/ Lost(tx_symbol) > 0)
  /\ UNCHANGED <<synced, phy_rx_offset, mac_advance, rx_offset,
                 timing_advance, tx_shift, used, bias, torn, changes>>

Diff == (mac_advance - timing_advance) - Nearest(phy_rx_offset - rx_offset)

(* Changed form: symbols are skipped where they are to be repeated.        *)
AdaptSwapped(diff) ==
  LET shift == tx_shift - diff
      turns == shift \div buflen
  IN  /\ tx_shift' = shift % buflen
      /\ tx_symbol' = tx_symbol + SYMBOLS_PER_BUF * turns
      /\ lag' = lag + (tx_shift' - tx_shift)
                    - (tx_symbol' - tx_symbol) * SymLen

(* Changed form: the shift is allowed to reach the buffer's length.        *)
AdaptLate(diff) ==
  LET shift == tx_shift - diff
      turns == (shift - 1) \div buflen
  IN  /\ tx_shift' = shift - turns * buflen
      /\ tx_symbol' = tx_symbol - SYMBOLS_PER_BUF * turns
      /\ lag' = lag + (tx_shift' - tx_shift)
                    - (tx_symbol' - tx_symbol) * SymLen

(* The two while loops: whole buffers are taken off the shift, or added,   *)
(* and the symbols they hold repeated, or skipped.                         *)
Adapt(diff) ==
  LET shift == tx_shift - diff
      turns == shift \div buflen
  IN  /\ tx_shift' = shift % buflen
      /\ tx_symbol' = tx_symbol - SYMBOLS_PER_BUF * turns
      /\ lag' = lag + (tx_shift' - tx_shift)
                    - (tx_symbol' - tx_symbol) * SymLen

CheckOffset ==
  /\ tx_pc = "check"
  /\ IF tx_symbol >= CheckFrom /\ tx_subframe = 0 /\ Diff # 0
       THEN /\ tx_pc' = "record"
            /\ used' = [rx |-> phy_rx_offset, ta |-> mac_advance]
            /\ Adapt(Diff)
       ELSE tx_pc' = "first" /\ UNCHANGED <<used, tx_shift, tx_symbol, lag>>
  /\ UNCHANGED <<synced, phy_rx_offset, mac_advance, rx_offset,
                 timing_advance, tx_subframe, bias, torn, slipped, changes>>

(* The values moved for are read again, after the output of log lines.     *)
Record ==
  /\ tx_pc = "record"
  /\ tx_pc' = "first"
  /\ rx_offset' = phy_rx_offset
  /\ timing_advance' = mac_advance
  /\ torn' = (torn \/ used # [rx |-> phy_rx_offset, ta |-> mac_advance])
  /\ UNCHANGED <<synced, phy_rx_offset, mac_advance, tx_shift, tx_symbol,
                 tx_subframe, used, lag, bias, slipped, changes>>

---------------------------------------------------------------------------
AlignNext ==
  \/ InitialSync
  \/ \E r \in 0 .. buflen - 1 : SetOffset(r)
  \/ \E d \in -Drift .. Drift : d # 0 /\ Resync(d)
  \/ \E a \in Advances : SetAdvance(a)
  \/ Start \/ WriteSymbol \/ CheckOffset \/ Record

AlignSpec == AlignInit /\ [][AlignNext]_alignVars

(* The uplink follows the downlink: whatever way round the buffers the     *)
(* offset moves and however often the shift wraps, the uplink begins where *)
(* the first check has put it, earlier by the timing advance, up to the    *)
(* drift that has not been seen yet.  This fails for good when the offset  *)
(* or the advance changes between its use and its record (client.c:224),   *)
(* and when the symbols skipped lead beyond the subframe (client.c:216).   *)
FollowsDownlink ==
  tx_pc # "wait" /\ ~torn /\ ~slipped =>
    lag + Known.ta + Nearest(phy_rx_offset - Known.rx) = bias
===========================================================================
