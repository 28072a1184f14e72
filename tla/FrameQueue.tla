---------------------------- MODULE FrameQueue ----------------------------
(***************************************************************************)
(* The queue of frames between the TAP thread, which puts them, and the    *)
(* scheduler thread, which cuts fragments of them: ringbuf.c, and the part *)
(* of mac_fragmentation.c that the two threads share, without a lock.      *)
(*                                                                         *)
(* Every access to a shared field is a step of its own, and the steps of   *)
(* the two threads interleave; stores are taken to be seen in the order of *)
(* the program.  Both threads have one processor, and the scheduler the    *)
(* higher priority: with Preempting the TAP thread stands still while the  *)
(* scheduler runs; without, any order is possible.                         *)
(*                                                                         *)
(* The base station asks the queue whether there is something to send; the *)
(* client asks bytes_buffered, a counter that both threads write.          *)
(***************************************************************************)
EXTENDS Integers, Sequences, SequencesExt

CONSTANTS
  BUF_SIZE,     (* MAC_DATA_BUF_SIZE, cells of the ring                    *)
  UINT,         (* a uint is less than this                                *)
  Sizes,        (* bytes of a frame                                        *)
  Payload,      (* bytes of a frame that a slot takes                      *)
  MaxSlots,     (* slots a run of the scheduler has for the user, at most  *)
  MaxFrames,    (* bound: frames received from the TAP device              *)
  Preempting

ASSUME FrameQueueAssumption ==
  /\ BUF_SIZE \in Nat /\ BUF_SIZE >= 2
  /\ UINT \in Nat \ {0}
  /\ Sizes \subseteq Nat \ {0}
  /\ \A size \in Sizes : (BUF_SIZE - 1) * size < UINT   (* a full queue is counted *)
  /\ Payload \in Nat \ {0} /\ MaxSlots \in Nat \ {0} /\ MaxFrames \in Nat
  /\ Preempting \in BOOLEAN

Cells == 0 .. BUF_SIZE - 1
Frames == [id : 1 .. MaxFrames, size : Sizes]
NoFrame == [id |-> 0, size |-> 0]

VARIABLES
  side,               (* "BS" or "UE"                                      *)
  data, readpos, writepos,   (* the ring                                   *)
  bytes_buffered,
  curr_frame, bytes_sent,    (* the frame that is being cut                *)
  tap,                (* TAP thread: next step, frame, register            *)
  sched,              (* scheduler: next step, frame, register, slots left *)
  received,           (* history: frames received                          *)
  taken,              (* history: frames taken off the queue               *)
  overlapped          (* history: the scheduler has run between a put and  *)
                      (* its count                                         *)

ring == <<data, readpos, writepos>>
cut == <<curr_frame, bytes_sent>>
vars == <<side, ring, bytes_buffered, cut, tap, sched, received, taken, overlapped>>

Init ==
  /\ side \in {"BS", "UE"}
  /\ data = [c \in Cells |-> NoFrame]
  /\ readpos = 0 /\ writepos = 0
  /\ bytes_buffered = 0
  /\ curr_frame = NoFrame /\ bytes_sent = 0
  /\ tap = [pc |-> "receive", frame |-> NoFrame, reg |-> 0]
  /\ sched = [pc |-> "wait", frame |-> NoFrame, reg |-> 0, slots |-> 0]
  /\ received = 0
  /\ taken = <<>>
  /\ overlapped = FALSE

---------------------------------------------------------------------------
(* Changed form: the last cell is not followed by the first.               *)
IsFullUnwrapped == writepos + 1 = readpos

(* ringbuf_isfull: one cell stays free.                                    *)
IsFull == (writepos + 1) % BUF_SIZE = readpos
IsEmpty == readpos = writepos

(* What is in the ring, and its bytes.                                     *)
Queue == [i \in 1 .. (writepos - readpos) % BUF_SIZE |-> data[(readpos + i - 1) % BUF_SIZE]]
Bytes(frames) == FoldLeft(LAMBDA sum, f : sum + f.size, 0, frames)

(* The scheduler runs and a put is not counted yet.                        *)
Overlap == tap.pc \in {"count", "store"} /\ sched.pc # "wait"

---------------------------------------------------------------------------
(* The TAP thread: a frame is received, and goes through                   *)
(* mac_frag_add_frame and ringbuf_put.  The client waits for room before.  *)
TapStep(from) ==
  /\ tap.pc = from
  /\ sched.pc # "null" /\ (Preempting => sched.pc = "wait")
  /\ overlapped' = (overlapped \/ Overlap)
  /\ UNCHANGED <<side, readpos, cut, sched, taken>>

TapReceive ==
  /\ TapStep("receive")
  /\ received < MaxFrames
  /\ side = "UE" => ~IsFull
  /\ received' = received + 1
  /\ \E size \in Sizes :
       tap' = [tap EXCEPT !.pc = "check", !.frame = [id |-> received', size |-> size]]
  /\ UNCHANGED <<data, writepos, bytes_buffered>>

(* A frame that finds the queue full is dropped.                           *)
TapCheck ==
  /\ TapStep("check")
  /\ tap' = [tap EXCEPT !.pc = IF IsFull THEN "receive" ELSE "write"]
  /\ UNCHANGED <<data, writepos, bytes_buffered, received>>

(* ringbuf_put looks again; what it says is not looked at.                 *)
TapWrite ==
  /\ TapStep("write")
  /\ IF IsFull THEN data' = data /\ tap' = [tap EXCEPT !.pc = "count"]
     ELSE /\ data' = [data EXCEPT ![writepos] = tap.frame]
          /\ tap' = [tap EXCEPT !.pc = "publish"]
  /\ UNCHANGED <<writepos, bytes_buffered, received>>

TapPublish ==
  /\ TapStep("publish")
  /\ writepos' = (writepos + 1) % BUF_SIZE
  /\ tap' = [tap EXCEPT !.pc = "count"]
  /\ UNCHANGED <<data, bytes_buffered, received>>

(* bytes_buffered += size: read, add, write.                               *)
TapCount ==
  /\ TapStep("count")
  /\ tap' = [tap EXCEPT !.pc = "store", !.reg = (bytes_buffered + tap.frame.size) % UINT]
  /\ UNCHANGED <<data, writepos, bytes_buffered, received>>

TapStore ==
  /\ TapStep("store")
  /\ bytes_buffered' = tap.reg
  /\ tap' = [tap EXCEPT !.pc = "receive", !.reg = 0]
  /\ UNCHANGED <<data, writepos, received>>

---------------------------------------------------------------------------
(* The scheduler thread: a run with slots for the user, and                *)
(* mac_frag_get_fragment in each of them.                                  *)
SchedStep(from) ==
  /\ sched.pc = from
  /\ overlapped' = (overlapped \/ Overlap)
  /\ UNCHANGED <<side, data, writepos, tap, received>>

(* After a slot the next, or the end of the run.                           *)
NextSlot(s) == [s EXCEPT !.pc = IF s.slots > 1 THEN "ask" ELSE "wait", !.slots = @ - 1,
                         !.frame = NoFrame, !.reg = 0]

(* Changed form: the base station asks for queued frames only.             *)
HasDataQueued == IF side = "BS" THEN ~IsEmpty
                 ELSE (curr_frame.size - bytes_sent + bytes_buffered) % UINT > 0

(* mac_frag_has_fragment, or mac_frag_get_buffersize > 0.                  *)
HasData == IF side = "BS" THEN ~IsEmpty \/ curr_frame # NoFrame
           ELSE (curr_frame.size - bytes_sent + bytes_buffered) % UINT > 0

SchedStart ==
  /\ SchedStep("wait")
  /\ \E n \in 1 .. MaxSlots : sched' = [sched EXCEPT !.pc = "ask", !.slots = n]
  /\ UNCHANGED <<readpos, bytes_buffered, cut, taken>>

SchedAsk ==
  /\ SchedStep("ask")
  /\ sched' = IF ~HasData THEN NextSlot(sched)
              ELSE [sched EXCEPT !.pc = IF curr_frame = NoFrame THEN "get" ELSE "cut"]
  /\ UNCHANGED <<readpos, bytes_buffered, cut, taken>>

(* ringbuf_get; without a frame there is no fragment, and the caller, who  *)
(* uses it unseen, ends the program.                                       *)
SchedGet ==
  /\ SchedStep("get")
  /\ sched' = IF IsEmpty THEN [sched EXCEPT !.pc = "null"]
              ELSE [sched EXCEPT !.pc = "advance", !.frame = data[readpos]]
  /\ UNCHANGED <<readpos, bytes_buffered, cut, taken>>

SchedAdvance ==
  /\ SchedStep("advance")
  /\ readpos' = (readpos + 1) % BUF_SIZE
  /\ taken' = Append(taken, sched.frame)
  /\ sched' = [sched EXCEPT !.pc = "count"]
  /\ UNCHANGED <<bytes_buffered, cut>>

(* Changed form: only what the slot takes is no longer counted.            *)
UncountedPayload == (bytes_buffered - Payload) % UINT

(* bytes_buffered -= size.                                                 *)
Uncounted == (bytes_buffered - sched.frame.size) % UINT

SchedCount ==
  /\ SchedStep("count")
  /\ sched' = [sched EXCEPT !.pc = "store", !.reg = Uncounted]
  /\ UNCHANGED <<readpos, bytes_buffered, cut, taken>>

SchedStore ==
  /\ SchedStep("store")
  /\ bytes_buffered' = sched.reg
  /\ curr_frame' = sched.frame /\ bytes_sent' = 0
  /\ sched' = [sched EXCEPT !.pc = "cut"]
  /\ UNCHANGED <<readpos, taken>>

(* A fragment with what is left of the frame, or as much as fits.          *)
SchedCut ==
  /\ SchedStep("cut")
  /\ LET final == curr_frame.size - bytes_sent <= Payload
     IN  /\ curr_frame' = IF final THEN NoFrame ELSE curr_frame
         /\ bytes_sent' = IF final THEN 0 ELSE bytes_sent + Payload
  /\ sched' = NextSlot(sched)
  /\ UNCHANGED <<readpos, bytes_buffered, taken>>

Tap == TapReceive \/ TapCheck \/ TapWrite \/ TapPublish \/ TapCount \/ TapStore
Sched == \/ SchedStart \/ SchedAsk \/ SchedGet \/ SchedAdvance
         \/ SchedCount \/ SchedStore \/ SchedCut

Next == Tap \/ Sched

(* The scheduler is woken in every subframe.  Runs that have no slot for   *)
(* the user are left out: they do not touch the queue.                     *)
Spec == Init /\ [][Next]_vars /\ WF_vars(Sched)

---------------------------------------------------------------------------
TypeOK ==
  /\ side \in {"BS", "UE"}
  /\ data \in [Cells -> Frames \cup {NoFrame}]
  /\ readpos \in Cells /\ writepos \in Cells
  /\ bytes_buffered \in 0 .. UINT - 1
  /\ curr_frame \in Frames \cup {NoFrame}
  /\ bytes_sent \in Nat /\ (curr_frame # NoFrame => bytes_sent < curr_frame.size)
  /\ tap \in [pc : {"receive", "check", "write", "publish", "count", "store"},
              frame : Frames \cup {NoFrame}, reg : 0 .. UINT - 1]
  /\ sched \in [pc : {"wait", "ask", "get", "advance", "count", "store", "cut", "null"},
                frame : Frames \cup {NoFrame}, reg : 0 .. UINT - 1, slots : 0 .. MaxSlots]
  /\ received \in 0 .. MaxFrames
  /\ taken \in Seq(Frames)
  /\ overlapped \in BOOLEAN

(* The ring is a queue for its two threads, whatever the order of their    *)
(* steps: no frame is lost, taken twice or overwritten, and the order is   *)
(* kept (ringbuf_put, ringbuf_get).                                        *)
Abstract == INSTANCE BoundedQueue
  WITH Items <- Frames, Capacity <- BUF_SIZE - 1, queue <- Queue, got <- taken
ImplementsQueue == Abstract!Spec

(* bytes_buffered is what is in the queue whenever nobody is changing it,  *)
(* and the scheduler finds the frame it has been promised, unless a run of *)
(* the scheduler once fell between a put and its count.                    *)
ExactUnlessOverlapped ==
  ~overlapped =>
    /\ sched.pc # "null"
    /\ tap.pc \notin {"count", "store"} /\ sched.pc \notin {"count", "store"}
         => bytes_buffered = Bytes(Queue)

(* The base station sends to their end all frames that it has accepted, as *)
(* long as the user is given slots.                                        *)
AcceptedIsSent ==
  \A id \in 1 .. MaxFrames :
    side = "BS" /\ tap.pc = "count" /\ tap.frame.id = id
      ~> /\ \E i \in DOMAIN taken : taken[i].id = id
         /\ curr_frame.id # id /\ sched.frame.id # id
===========================================================================
