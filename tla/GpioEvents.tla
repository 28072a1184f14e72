---------------------------- MODULE GpioEvents ----------------------------
(***************************************************************************)
(* The timed switching of a GPIO pin, pluto_gpio.c: events are appended by *)
(* the transmit thread and worked off by a thread of their own, which      *)
(* waits for a condition with the time of the next event as the timeout.   *)
(* Times are kept as the time that is left.                                *)
(*                                                                         *)
(* Both threads run on one processor, the pin's thread with the highest    *)
(* priority: it is never preempted, and starts as soon as it can.          *)
(***************************************************************************)
EXTENDS Integers, Sequences, Functions

CONSTANTS
  EVENT_QUEUE_LEN, (* cells of event_q                                     *)
  Hour,            (* the timeout when no event is queued                  *)
  WholeSeconds,    (* may a time fall on a whole second?                   *)
  MaxIdleHours     (* bound: timeouts without an event                     *)

ASSUME GpioAssumption ==
  /\ EVENT_QUEUE_LEN \in Nat \ {0} /\ Hour \in Nat \ {0}
  /\ WholeSeconds \subseteq BOOLEAN /\ FALSE \in WholeSeconds
  /\ MaxIdleHours \in Nat

LOW == 0
HIGH == 1
Events == [value : {LOW, HIGH}, left : Int, whole : BOOLEAN]

VARIABLES
  event_q,     (* the events queued                                        *)
  below,       (* how far num_events_queued is below 0                     *)
  next_event,  (* next_event_time - now                                    *)
  pin_ctrl,    (* the thread: "waiting", "expired" or "woken" and not yet  *)
               (* running, "spinning", "stopped"                           *)
  held,        (* the appending thread holds the mutex                     *)
  stop,        (* thread_stop_signal                                       *)
  pin,         (* the level of the pin                                     *)
  raced,       (* history: a timeout came while the mutex was held         *)
  dropped      (* history: an event has not been queued                    *)

gpioVars == <<event_q, below, next_event, pin_ctrl, held, stop, pin, raced,
              dropped>>

GpioInit ==
  /\ event_q = <<>> /\ below = 0
  /\ next_event = Hour
  /\ pin_ctrl = "waiting"
  /\ held = FALSE /\ stop = FALSE
  /\ pin = LOW
  /\ raced = FALSE /\ dropped = FALSE

(* Changed form: the queue is taken for full as soon as it holds an event. *)
AppendEventOne(value, delay) ==
  /\ ~held
  /\ IF event_q # <<>>
       THEN dropped' = TRUE /\ UNCHANGED <<event_q, below, held, stop>>
       ELSE /\ held' = TRUE
            /\ event_q' = <<[value |-> value, left |-> delay,
                             whole |-> FALSE]>>
            /\ UNCHANGED <<below, stop, dropped>>
  /\ UNCHANGED <<next_event, pin_ctrl, pin, raced>>

(* pluto_gpio_pin_write_delayed, up to the signal.  A time of a whole      *)
(* second stays 1000000000 ns.  When the number of events is negative the  *)
(* event lies in front of the array, over the mutex and the thread's stop  *)
(* signal, and is none of the queue's.                                     *)
AppendEvent(value, delay) ==
  /\ ~held
  /\ IF Len(event_q) = EVENT_QUEUE_LEN
       THEN dropped' = TRUE /\ UNCHANGED <<event_q, below, held, stop>>
       ELSE /\ held' = TRUE
            /\ IF below > 0
                 THEN /\ below' = below - 1
                      /\ stop' \in {stop, TRUE}
                      /\ dropped' = TRUE
                      /\ UNCHANGED event_q
                 ELSE /\ \E w \in WholeSeconds :
                           event_q' = Append(event_q, [value |-> value,
                                              left |-> delay, whole |-> w])
                      /\ UNCHANGED <<below, stop, dropped>>
  /\ UNCHANGED <<next_event, pin_ctrl, pin, raced>>

(* Its end: the signal, and the mutex is released.                         *)
Signal ==
  /\ held
  /\ held' = FALSE
  /\ pin_ctrl' = IF pin_ctrl = "waiting" THEN "woken" ELSE pin_ctrl
  /\ UNCHANGED <<event_q, below, next_event, stop, pin, raced, dropped>>

(* The timed wait ends: pin_ctrl_thread still has to take the mutex.       *)
Timeout ==
  /\ pin_ctrl = "waiting" /\ next_event <= 0
  /\ pin_ctrl' = "expired"
  /\ raced' = (raced \/ held)
  /\ UNCHANGED <<event_q, below, next_event, held, stop, pin, dropped>>

IdleHour ==
  /\ pin_ctrl = "waiting" /\ next_event = Hour /\ ~held
  /\ event_q = <<>> /\ below < MaxIdleHours
  /\ pin_ctrl' = "expired"
  /\ UNCHANGED <<event_q, below, next_event, held, stop, pin, raced,
                 dropped>>

(* gpio_event_cmp: the latest event first.  Of two at the same time qsort  *)
(* may leave either in front.                                              *)
Sorted(q) == \A i, j \in DOMAIN q : i < j => q[i].left >= q[j].left

Reorderings(q) ==
  {[i \in DOMAIN q |-> q[p[i]]] : p \in Bijection(DOMAIN q, DOMAIN q)}

(* What the loop does before it waits again, with the events q left.  With *)
(* a time of 1000000000 ns the wait fails at once, and so on for ever.     *)
Rearm(q) ==
  \E sorted \in Reorderings(q) :
    LET last == sorted[Len(sorted)]
    IN  /\ Sorted(sorted)
        /\ event_q' = sorted
        /\ next_event' = IF q = <<>> THEN Hour ELSE last.left
        /\ pin_ctrl' = CASE stop -> "stopped"
                         [] ~stop /\ q # <<>> /\ last.whole -> "spinning"
                         [] OTHER -> "waiting"

(* pin_ctrl_thread after a timeout: the last event is taken for the one    *)
(* that is due.  What lies before the array is no level of a pin.          *)
HandleEvent ==
  /\ pin_ctrl = "expired" /\ ~held
  /\ IF event_q = <<>>
       THEN below' = below + 1 /\ UNCHANGED pin /\ Rearm(<<>>)
       ELSE /\ pin' = event_q[Len(event_q)].value
            /\ Rearm(SubSeq(event_q, 1, Len(event_q) - 1))
            /\ UNCHANGED below
  /\ UNCHANGED <<held, stop, raced, dropped>>

(* pin_ctrl_thread after a signal.                                         *)
Reschedule ==
  /\ pin_ctrl = "woken" /\ ~held
  /\ Rearm(event_q)
  /\ UNCHANGED <<below, held, stop, pin, raced, dropped>>

PinThread == Timeout \/ HandleEvent \/ Reschedule

(* One unit of time passes for the queue.                                  *)
Elapse ==
  /\ event_q' = [i \in DOMAIN event_q |->
                   [event_q[i] EXCEPT !.left = @ - 1]]
  /\ next_event' = IF next_event = Hour THEN Hour ELSE next_event - 1
  /\ UNCHANGED <<below, pin_ctrl, held, stop, pin, raced, dropped>>

(* Nothing is left to do for the pin's thread at this time; once it has    *)
(* stopped, time means nothing to the queue.                               *)
PinSettled == ~held /\ pin_ctrl = "waiting" /\ next_event > 0
PinStopped == ~held /\ pin_ctrl = "stopped"

(* The thread leaves the processor to the others.                          *)
PinIdle == pin_ctrl \in {"waiting", "stopped"}
===========================================================================
