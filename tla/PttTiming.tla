----------------------------- MODULE PttTiming ----------------------------
(***************************************************************************)
(* The client's transmit thread (TxAlign) with the radio and the timed     *)
(* switching of its PTT pin (GpioEvents): the samples of a symbol are on   *)
(* air KERNEL_BUF_TX buffers after they have been written, and the pin is  *)
(* to switch when the samples of its PTT symbol are (client.c, phy_ue.c,   *)
(* pluto.c, pluto_gpio.c).  Time is counted in samples.                    *)
(***************************************************************************)
EXTENDS TxAlign, GpioEvents, FiniteSets

CONSTANTS
  KERNEL_BUF_TX, (* buffers between writing and sending                    *)
  PttUp,         (* the symbols of a row that are PTT_UP,                  *)
  PttDown        (* and PTT_DOWN                                           *)

Latency == KERNEL_BUF_TX * buflen

SwitchesAt(s) == s \in PttUp \cup PttDown

ASSUME PttAssumption ==
  /\ KERNEL_BUF_TX \in Nat \ {0}
  /\ PttUp \subseteq 0 .. SUBFRAME_LEN - 1
  /\ PttDown \subseteq 0 .. SUBFRAME_LEN - 1
  /\ PttUp \cap PttDown = {}
  /\ Hour >= Latency + buflen

(* Where the code has its PTT symbols: the buffers begin with odd symbols  *)
(* (phy_ue.c:160: 37), and at most one symbol of a buffer is a PTT symbol  *)
(* (14, 29, 31, 33, 48, 63 and, for random access, 49 and 54).             *)
ASSUME ApartAssumption ==
  /\ SUBFRAME_LEN % 2 = 0 /\ FirstSymbol % 2 = 1
  /\ ~SwitchesAt(0)
  /\ \A s \in 1 .. SUBFRAME_LEN : s % 2 = 1 /\ SwitchesAt(s)
                                     => ~SwitchesAt(s + 1)

Levels == {LOW, HIGH}

VARIABLES
  air,       (* the samples written and not sent yet: for each the level   *)
             (* of its symbol, which the pin is to have while it is sent,  *)
             (* and that of the last PTT symbol up to its buffer's end     *)
  level,     (* the level of the last PTT symbol written                   *)
  ul_data_tx,(* the levels of the two symbols written last                 *)
  ptt_delay, (* pluto->ptt_delay, in samples                               *)
  early      (* history: an event was given the delay of before the first  *)
             (* call of pluto_ptt_set_switch_delay                         *)

radioVars == <<air, level, ul_data_tx, ptt_delay, early>>
vars == <<alignVars, gpioVars, radioVars>>

Times(v, n) == [i \in 1 .. n |-> v]

Init ==
  /\ AlignInit /\ GpioInit
  /\ air = Times([symbol |-> LOW, buffer |-> LOW], Latency)
  /\ level = LOW
  /\ ul_data_tx = <<LOW, LOW>>
  /\ ptt_delay = (KERNEL_BUF_TX - 1) * buflen
  /\ early = FALSE

(* The samples from..to of two symbols with the levels ls, where l is that *)
(* of the last PTT symbol.                                                 *)
Samples(ls, l, from, to) ==
  [i \in 1 .. to - from |->
     [symbol |-> ls[1 + (from + i - 1) \div SymLen], buffer |-> l]]

(* phy_ue_write_symbol: what the row holds.  Beyond its end it may hold    *)
(* anything.                                                               *)
LevelsAt(s) ==
  CASE s \in PttUp         -> {HIGH}
    [] s \in PttDown       -> {LOW}
    [] s >= SUBFRAME_LEN   -> {LOW, HIGH, level}
    [] OTHER               -> {level}

(* ptt_set_tx and ptt_set_rx.                                              *)
WriteLevel(l) ==
  /\ level' = l
  /\ IF SwitchesAt(tx_symbol) \/ l # level
       THEN /\ AppendEvent(l, ptt_delay)
            /\ early' = (early \/ ptt_delay < Latency)
       ELSE UNCHANGED <<gpioVars, early>>

(* The first symbol of a buffer: before it is written, the end of the      *)
(* symbols before goes to the buffer's beginning.                          *)
WriteFirst ==
  /\ tx_pc = "first" /\ WriteSymbol
  /\ Len(air) = Latency
  /\ \E l \in LevelsAt(tx_symbol) :
       /\ WriteLevel(l)
       /\ ul_data_tx' = [ul_data_tx EXCEPT ![1] = l]
  /\ air' = air \o Samples(ul_data_tx, level, buflen - tx_shift, buflen)
  /\ UNCHANGED ptt_delay

WriteSecond ==
  /\ tx_pc = "second" /\ WriteSymbol
  /\ \E l \in LevelsAt(tx_symbol) :
       /\ WriteLevel(l)
       /\ ul_data_tx' = [ul_data_tx EXCEPT ![2] = l]
  /\ air' = air \o Samples(ul_data_tx', level', 0, buflen - tx_shift)
  /\ UNCHANGED ptt_delay

(* platform_tx_push has waited for a free buffer.                          *)
Check ==
  /\ Len(air) = Latency
  /\ CheckOffset
  /\ UNCHANGED <<gpioVars, radioVars>>

(* Changed form: the shift does not count.                                 *)
SetDelayUnshifted ==
  /\ Record
  /\ ptt_delay' = Latency
  /\ UNCHANGED <<gpioVars, air, level, ul_data_tx, early>>

(* pluto_ptt_set_switch_delay; ptt_delay_comp is what the hardware takes   *)
(* beside the buffers, and does not show here.                             *)
SetDelay ==
  /\ Record
  /\ ptt_delay' = Latency + tx_shift
  /\ UNCHANGED <<gpioVars, air, level, ul_data_tx, early>>

TxThread ==
  \/ Start /\ UNCHANGED <<gpioVars, radioVars>>
  \/ WriteFirst \/ WriteSecond \/ Check \/ SetDelay

OtherThreads ==
  /\ \/ InitialSync
     \/ \E r \in 0 .. buflen - 1 : SetOffset(r)
     \/ \E d \in -Drift .. Drift : d # 0 /\ Resync(d)
     \/ \E a \in Advances : SetAdvance(a)
  /\ UNCHANGED <<gpioVars, radioVars>>

Pin == (PinThread \/ Signal) /\ UNCHANGED <<alignVars, radioVars>>

WaitHour == synced = "no" /\ IdleHour /\ UNCHANGED <<alignVars, radioVars>>

(* A sample is sent.                                                       *)
Tick ==
  /\ tx_pc = "check" /\ Len(air) > Latency
  /\ air' = Tail(air)
  /\ \/ PinSettled /\ Elapse
     \/ PinStopped /\ UNCHANGED gpioVars
  /\ UNCHANGED <<alignVars, level, ul_data_tx, ptt_delay, early>>

(* EINVAL for ever, at the highest priority: no other thread of the        *)
(* processor runs again.                                                   *)
Spin == pin_ctrl = "spinning" /\ UNCHANGED vars

(* The transmit thread goes on when it has left the mutex.                 *)
TxThreadStep == PinIdle /\ ~held /\ TxThread

Next ==
  \/ TxThreadStep
  \/ PinIdle /\ OtherThreads
  \/ Pin \/ WaitHour \/ Tick \/ Spin

(* The radio takes its samples, and both threads are real-time threads     *)
(* that nothing else keeps from their processor.                           *)
Fairness == WF_vars(TxThreadStep) /\ WF_vars(Pin) /\ WF_vars(Tick)

Spec == Init /\ [][Next]_vars /\ Fairness

---------------------------------------------------------------------------
TypeOK ==
  /\ synced \in {"no", "flag", "yes"}
  /\ phy_rx_offset \in 0 .. buflen - 1 /\ mac_advance \in Advances
  /\ tx_pc \in {"wait", "first", "second", "check", "record"}
  /\ rx_offset \in -(buflen - 1) .. buflen - 1
  /\ timing_advance \in Advances
  /\ tx_shift \in 0 .. buflen - 1
  /\ tx_symbol \in Int /\ tx_subframe \in 0 .. FRAME_LEN - 1
  /\ event_q \in Seq(Events) /\ Len(event_q) <= EVENT_QUEUE_LEN
  /\ below \in 0 .. MaxIdleHours /\ next_event \in Int
  /\ pin_ctrl \in {"waiting", "expired", "woken", "spinning", "stopped"}
  /\ pin \in Levels /\ level \in Levels
  /\ air \in Seq([symbol : Levels, buffer : Levels])
  /\ Len(air) <= Latency + buflen
  /\ ptt_delay \in Nat

(* The next thing to happen is that a sample is sent.                      *)
Sending ==
  tx_pc = "check" /\ Len(air) > Latency /\ (PinSettled \/ PinStopped)

InTime == Sending /\ ~early /\ ~raced /\ ~dropped

(* Whenever a sample is sent the radio is switched the way it was to be    *)
(* from the first symbol of the sample's buffer on, although the pin       *)
(* follows a clock and the samples a queue of buffers that are shifted     *)
(* meanwhile, and symbols are skipped and repeated (client.c:182-233,      *)
(* pluto_gpio.c:165-240).  It need not be after an event that was given    *)
(* the delay from before the first change of the offset (pluto.c:399),     *)
(* after a timeout that came while an event was being appended             *)
(* (pluto_gpio.c:215), and after an event was lost to an hour without      *)
(* events (pluto_gpio.c:216).                                              *)
PinFollowsAir == InTime => pin = Head(air).buffer

(* phy_ue.c:705: "if the next slot is not used we have to turn off PTT     *)
(* signal after this slot".  The PTT symbol behind slot 0 is the second of *)
(* its buffer; it gets the same delay as the first (pluto.c:492), and the  *)
(* radio is switched while the last symbol of the slot is sent.            *)
PinFollowsSymbols == InTime /\ ~slipped => pin = Head(air).symbol

(* A radio that is switched to transmit is switched back: events are not   *)
(* forgotten in the queue, whatever symbols are skipped and whichever      *)
(* event is taken for the one that is due (pluto_gpio.c:209-238), unless   *)
(* the thread has been lost to a time of a whole second or to the event    *)
(* that an hour without events puts in front of the array.                 *)
ReturnsToRx ==
  pin = HIGH ~> pin = LOW \/ pin_ctrl \in {"spinning", "stopped"}
===========================================================================
