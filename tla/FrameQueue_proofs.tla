------------------------- MODULE FrameQueue_proofs -------------------------
(***************************************************************************)
(* Proofs about FrameQueue, for every size of the ring and of the frames,  *)
(* any number of frames and every order of the steps of the two threads.   *)
(***************************************************************************)
EXTENDS FrameQueue, WellFoundedInduction, TLAPS

(* What a thread has found out about the ring stays true until it acts:    *)
(* the other thread only makes room, or only adds frames.                  *)
RingInv ==
  /\ tap.pc = "publish" =>
       (writepos + 1) % BUF_SIZE # readpos /\ data[writepos] = tap.frame
  /\ sched.pc = "advance" =>
       readpos # writepos /\ sched.frame = data[readpos]

(* The frames that the threads hold are frames.                            *)
FramesInv ==
  /\ tap.pc # "receive" => tap.frame \in Frames
  /\ sched.pc \in {"advance", "count", "store"} => sched.frame \in Frames
  /\ sched.pc = "cut" => curr_frame \in Frames
  /\ sched.pc # "wait" => sched.slots >= 1
  /\ Queue \in Seq(Frames)

IInv == TypeOK /\ RingInv /\ FramesInv

---------------------------------------------------------------------------
(* The arithmetic of the ring. *)

(* A remainder modulo m is below m.                                        *)
LEMMA ModRange ==
  ASSUME NEW m \in Nat \ {0}, NEW a \in Nat
  PROVE  a % m \in 0 .. m - 1
  OBVIOUS

(* A number below m is its own remainder.                                  *)
LEMMA ModSmall ==
  ASSUME NEW m \in Nat \ {0}, NEW a \in 0 .. m - 1
  PROVE  a % m = a
  OBVIOUS

(* The successor modulo m steps on by one, or goes back to 0.              *)
LEMMA ModStep ==
  ASSUME NEW m \in Nat \ {0}, NEW a \in 0 .. m - 1
  PROVE  (a + 1) % m = IF a + 1 = m THEN 0 ELSE a + 1
  OBVIOUS

(* The cells between two positions of a ring of n cells, counted modulo n. *)
LEMMA Between ==
  ASSUME NEW n \in Nat, n >= 2, NEW r \in 0 .. n - 1, NEW w \in 0 .. n - 1
  PROVE  (w - r) % n = IF w >= r THEN w - r ELSE w - r + n
<1>1. CASE w >= r
  BY <1>1, ModSmall
<1>2. CASE w < r
  <2>1. (w - r + n) % n = w - r + n
    BY <1>2, ModSmall
  <2>2. (w - r) % n = (w - r + n) % n
    BY <1>2
  <2> QED
    BY <1>2, <2>1, <2>2
<1> QED
  BY <1>1, <1>2

(* The cell i behind r, for i less than the size of the ring.              *)
LEMMA CellAt ==
  ASSUME NEW n \in Nat, n >= 2, NEW r \in 0 .. n - 1, NEW i \in 0 .. n - 1
  PROVE  (r + i) % n = IF r + i < n THEN r + i ELSE r + i - n
<1>1. CASE r + i < n
  BY <1>1, ModSmall
<1>2. CASE r + i >= n
  <2>1. (r + i - n) % n = r + i - n
    BY <1>2, ModSmall
  <2>2. (r + i) % n = (r + i - n) % n
    BY <1>2
  <2> QED
    BY <1>2, <2>1, <2>2
<1> QED
  BY <1>1, <1>2

(* The items between two positions of a ring, as Queue has them.           *)
Items(d, r, w) == [i \in 1 .. (w - r) % BUF_SIZE |-> d[(r + i - 1) % BUF_SIZE]]

LEMMA Size == BUF_SIZE \in Nat /\ BUF_SIZE >= 2
  BY FrameQueueAssumption

(* How many there are, and where: the same without a remainder.            *)
Count(r, w) == IF w >= r THEN w - r ELSE w - r + BUF_SIZE
Cell(r, i) == IF r + i - 1 < BUF_SIZE THEN r + i - 1 ELSE r + i - 1 - BUF_SIZE

InCells(d, r, w) == [i \in 1 .. Count(r, w) |-> d[Cell(r, i)]]

LEMMA ItemsShape ==
  ASSUME NEW d, NEW r \in Cells, NEW w \in Cells
  PROVE  Items(d, r, w) = InCells(d, r, w)
<1>1. (w - r) % BUF_SIZE = Count(r, w)
  BY Size, Between DEF Cells, Count
<1>2. Count(r, w) \in 0 .. BUF_SIZE - 1
  BY Size DEF Cells, Count
<1>3. \A i \in 1 .. Count(r, w) : (r + i - 1) % BUF_SIZE = Cell(r, i)
  <2> TAKE i \in 1 .. Count(r, w)
  <2>1. i - 1 \in 0 .. BUF_SIZE - 1 /\ r + (i - 1) = r + i - 1
    BY <1>2, Size DEF Cells
  <2>2. (r + (i - 1)) % BUF_SIZE
        = IF r + (i - 1) < BUF_SIZE THEN r + (i - 1) ELSE r + (i - 1) - BUF_SIZE
    BY <2>1, Size, CellAt DEF Cells
  <2> QED
    BY <2>1, <2>2 DEF Cell
<1> QED
  BY <1>1, <1>3 DEF Items, InCells

(* A put appends, when the cell at writepos has been written.              *)
LEMMA PutAppends ==
  ASSUME NEW d, NEW r \in Cells, NEW w \in Cells, (w + 1) % BUF_SIZE # r
  PROVE  /\ Items(d, r, (w + 1) % BUF_SIZE) = Append(Items(d, r, w), d[w])
         /\ Len(Items(d, r, w)) < BUF_SIZE - 1
<1> DEFINE v == (w + 1) % BUF_SIZE
           S == {d[Cell(r, i)] : i \in 1 .. Count(r, w)}
<1>1. v = IF w + 1 = BUF_SIZE THEN 0 ELSE w + 1
  BY Size, ModStep DEF Cells
<1>2. v \in Cells
  BY <1>1, Size DEF Cells
<1>3. Count(r, v) = Count(r, w) + 1 /\ Count(r, w) \in 0 .. BUF_SIZE - 2
  BY <1>1, Size DEF Cells, Count
<1>4. Items(d, r, w) = InCells(d, r, w)
  BY ItemsShape
<1>5. Items(d, r, v) = InCells(d, r, v)
  BY <1>2, ItemsShape
<1>6. Cell(r, Count(r, w) + 1) = w
  BY Size DEF Cells, Cell, Count
<1> HIDE DEF v
<1>7. /\ Items(d, r, w) \in Seq(S)
      /\ Len(Items(d, r, w)) = Count(r, w)
  BY <1>3, <1>4, Size DEF InCells
<1>8. Append(Items(d, r, w), d[w]) = [i \in 1 .. Count(r, v) |-> d[Cell(r, i)]]
  BY <1>3, <1>4, <1>6, <1>7, Size DEF InCells
<1> QED
  BY <1>3, <1>5, <1>7, <1>8, Size DEF v, InCells

(* A get takes the head off.                                               *)
LEMMA GetTakesHead ==
  ASSUME NEW d, NEW r \in Cells, NEW w \in Cells, r # w
  PROVE  /\ Items(d, r, w) # <<>>
         /\ Head(Items(d, r, w)) = d[r]
         /\ Items(d, (r + 1) % BUF_SIZE, w) = Tail(Items(d, r, w))
<1> DEFINE q == (r + 1) % BUF_SIZE
           S == {d[Cell(r, i)] : i \in 1 .. Count(r, w)}
<1>1. q = IF r + 1 = BUF_SIZE THEN 0 ELSE r + 1
  BY Size, ModStep DEF Cells
<1>2. q \in Cells
  BY <1>1, Size DEF Cells
<1>3. Count(q, w) = Count(r, w) - 1 /\ Count(r, w) \in 1 .. BUF_SIZE - 1
  BY <1>1, Size DEF Cells, Count
<1>4. Items(d, r, w) = InCells(d, r, w)
  BY ItemsShape
<1>5. Items(d, q, w) = InCells(d, q, w)
  BY <1>2, ItemsShape
<1>6. \A i \in 1 .. Count(q, w) : Cell(q, i) = Cell(r, i + 1)
  BY <1>1, <1>3, Size DEF Cells, Cell
<1>7. Cell(r, 1) = r
  BY Size DEF Cells, Cell
<1> HIDE DEF q
<1>8. /\ Items(d, r, w) \in Seq(S)
      /\ Len(Items(d, r, w)) = Count(r, w)
  BY <1>3, <1>4, Size DEF InCells
<1>9. Items(d, r, w) # <<>> /\ Head(Items(d, r, w)) = d[r]
  BY <1>3, <1>4, <1>7, <1>8, Size DEF InCells
<1>10. Tail(Items(d, r, w)) = [i \in 1 .. Count(q, w) |-> d[Cell(r, i + 1)]]
  BY <1>3, <1>4, <1>8, Size DEF InCells
<1> QED
  BY <1>5, <1>6, <1>9, <1>10 DEF q, InCells

(* Writing the cell at writepos leaves the items alone.                    *)
LEMMA WriteOutside ==
  ASSUME NEW S, NEW d \in [Cells -> S], NEW r \in Cells, NEW w \in Cells, NEW x
  PROVE  Items([d EXCEPT ![w] = x], r, w) = Items(d, r, w)
<1> DEFINE e == [d EXCEPT ![w] = x]
<1>1. \A i \in 1 .. Count(r, w) : Cell(r, i) \in Cells \ {w}
  BY Size DEF Cells, Cell, Count
<1>2. Items(d, r, w) = InCells(d, r, w)
  BY ItemsShape
<1>3. Items(e, r, w) = InCells(e, r, w)
  BY ItemsShape
<1>4. \A c \in Cells \ {w} : e[c] = d[c]
  OBVIOUS
<1> HIDE DEF e
<1>5. \A i \in 1 .. Count(r, w) : e[Cell(r, i)] = d[Cell(r, i)]
  BY <1>1, <1>4
<1> QED
  BY <1>2, <1>3, <1>5 DEF e, InCells

---------------------------------------------------------------------------
(* What the steps of the threads do to the queue. *)

LEMMA QueueItems == Queue = Items(data, readpos, writepos)
  BY DEF Queue, Items

LEMMA QueueUnchanged ==
  ASSUME UNCHANGED ring
  PROVE  Queue' = Queue
  BY DEF ring, Queue

LEMMA WriteStep ==
  ASSUME IInv, TapWrite
  PROVE  Queue' = Queue
<1>1. /\ data \in [Cells -> Frames \cup {NoFrame}]
      /\ readpos \in Cells /\ writepos \in Cells
  BY DEF IInv, TypeOK
<1>2. CASE IsFull
  BY <1>2 DEF TapWrite, TapStep, Queue
<1>3. CASE ~IsFull
  <2>1. /\ data' = [data EXCEPT ![writepos] = tap.frame]
        /\ readpos' = readpos /\ writepos' = writepos
    BY <1>3 DEF TapWrite, TapStep
  <2>2. Queue' = Items(data', readpos', writepos')
    BY DEF Queue, Items
  <2>3. Items([data EXCEPT ![writepos] = tap.frame], readpos, writepos)
          = Items(data, readpos, writepos)
    BY <1>1, WriteOutside
  <2> QED
    BY <2>1, <2>2, <2>3, QueueItems
<1> QED
  BY <1>2, <1>3

LEMMA PublishStep ==
  ASSUME IInv, TapPublish
  PROVE  /\ Queue' = Append(Queue, tap.frame)
         /\ Len(Queue) < BUF_SIZE - 1
<1>1. readpos \in Cells /\ writepos \in Cells
  BY DEF IInv, TypeOK
<1>2. (writepos + 1) % BUF_SIZE # readpos /\ data[writepos] = tap.frame
  BY DEF IInv, RingInv, TapPublish, TapStep
<1>3. /\ data' = data /\ readpos' = readpos
      /\ writepos' = (writepos + 1) % BUF_SIZE
  BY DEF TapPublish, TapStep
<1>4. Queue' = Items(data', readpos', writepos')
  BY DEF Queue, Items
<1> QED
  BY <1>1, <1>2, <1>3, <1>4, PutAppends, QueueItems

LEMMA AdvanceStep ==
  ASSUME IInv, SchedAdvance
  PROVE  /\ Queue # <<>>
         /\ Queue' = Tail(Queue)
         /\ sched.frame = Head(Queue)
<1>1. readpos \in Cells /\ writepos \in Cells
  BY DEF IInv, TypeOK
<1>2. readpos # writepos /\ sched.frame = data[readpos]
  BY DEF IInv, RingInv, SchedAdvance, SchedStep
<1>3. /\ data' = data /\ writepos' = writepos
      /\ readpos' = (readpos + 1) % BUF_SIZE
  BY DEF SchedAdvance, SchedStep
<1>4. Queue' = Items(data', readpos', writepos')
  BY DEF Queue, Items
<1> QED
  BY <1>1, <1>2, <1>3, <1>4, GetTakesHead, QueueItems

LEMMA OtherStep ==
  ASSUME Next \/ UNCHANGED vars, ~TapWrite, ~TapPublish, ~SchedAdvance
  PROVE  UNCHANGED <<readpos, writepos, data, taken>>
  BY DEF Next, Tap, Sched, TapStep, TapReceive, TapCheck, TapWrite, TapPublish, TapCount,
         TapStore, SchedStep, SchedStart, SchedAsk, SchedGet, SchedAdvance, SchedCount,
         SchedStore, SchedCut, vars, ring, cut

(* A frame that waits at the head of the queue is one.                     *)
LEMMA HeadIsFrame ==
  ASSUME IInv, readpos # writepos
  PROVE  data[readpos] \in Frames
<1>1. readpos \in Cells /\ writepos \in Cells /\ Queue \in Seq(Frames)
  BY DEF IInv, TypeOK, FramesInv
<1>2. Queue # <<>> /\ Head(Queue) = data[readpos]
  BY <1>1, GetTakesHead, QueueItems
<1> QED
  BY <1>1, <1>2

---------------------------------------------------------------------------
(* The invariant. *)

LEMMA Constants ==
  /\ BUF_SIZE \in Nat /\ BUF_SIZE >= 2
  /\ UINT \in Nat \ {0}
  /\ Sizes \subseteq Nat \ {0}
  /\ Payload \in Nat \ {0} /\ MaxSlots \in Nat \ {0} /\ MaxFrames \in Nat
  BY FrameQueueAssumption

LEMMA NoFrameIsNone == NoFrame \notin Frames
  BY Constants DEF NoFrame, Frames

(* A position that is moved on stays in the ring.                          *)
LEMMA NextCell ==
  ASSUME NEW c \in Cells
  PROVE  (c + 1) % BUF_SIZE \in Cells
  BY Constants, ModRange DEF Cells

(* Different positions are different after both have been moved on.        *)
LEMMA NextCellsDiffer ==
  ASSUME NEW c \in Cells, NEW e \in Cells, c # e
  PROVE  (c + 1) % BUF_SIZE # (e + 1) % BUF_SIZE
<1>1. BUF_SIZE \in Nat \ {0} /\ c \in 0 .. BUF_SIZE - 1 /\ e \in 0 .. BUF_SIZE - 1
  BY Size DEF Cells
<1>2. (c + 1) % BUF_SIZE = IF c + 1 = BUF_SIZE THEN 0 ELSE c + 1
  BY <1>1, ModStep
<1>3. (e + 1) % BUF_SIZE = IF e + 1 = BUF_SIZE THEN 0 ELSE e + 1
  BY <1>1, ModStep
<1> QED
  BY <1>1, <1>2, <1>3

(* A remainder of any integer.                                             *)
LEMMA ModRangeInt ==
  ASSUME NEW m \in Nat \ {0}, NEW a \in Int
  PROVE  a % m \in 0 .. m - 1
  OBVIOUS

LEMMA InitInv == Init => IInv
<1> SUFFICES ASSUME Init PROVE IInv
  OBVIOUS
<1>1. 0 \in Cells /\ 0 \in 0 .. UINT - 1
  BY Constants DEF Cells
<1>2. Queue = <<>>
  <2>1. (0 - 0) % BUF_SIZE = 0
    BY Constants, ModSmall
  <2> QED
    BY <2>1 DEF Init, Queue
<1>3. TypeOK
  BY <1>1, Constants DEF Init, TypeOK, NoFrame
<1>4. RingInv /\ FramesInv
  BY <1>2 DEF Init, RingInv, FramesInv
<1> QED
  BY <1>3, <1>4 DEF IInv

(* Every step of the TAP thread leaves the scheduler's fields alone.       *)
LEMMA TapStepInv ==
  ASSUME IInv, Tap
  PROVE  IInv'
<1>0. TypeOK /\ RingInv /\ FramesInv
  BY DEF IInv
<1>a. /\ UNCHANGED <<side, readpos, cut, sched, taken>>
      /\ overlapped' \in BOOLEAN
  BY <1>0 DEF Tap, TapStep, TapReceive, TapCheck, TapWrite, TapPublish, TapCount,
              TapStore, TypeOK
<1>1. CASE TapReceive
  <2>0. received < MaxFrames /\ received' = received + 1
    BY <1>1 DEF TapReceive
  <2>1. /\ UNCHANGED <<data, writepos, bytes_buffered>>
        /\ \E size \in Sizes :
             tap' = [tap EXCEPT !.pc = "check", !.frame = [id |-> received', size |-> size]]
    BY <1>1 DEF TapReceive
  <2>a. received' \in 1 .. MaxFrames
    BY <1>0, <2>0, Constants DEF TypeOK
  <2>b. received' \in 0 .. MaxFrames
    BY <2>a, Constants
  <2>2. tap'.pc = "check" /\ tap'.frame \in Frames /\ tap'.reg = tap.reg
    BY <1>0, <2>1, <2>a DEF TypeOK, Frames
  <2>3. TypeOK'
    BY <1>0, <1>a, <2>1, <2>2, <2>b DEF TypeOK, cut
  <2>4. Queue' = Queue
    BY <1>a, <2>1, QueueUnchanged DEF ring
  <2> QED
    BY <1>0, <1>a, <2>1, <2>2, <2>3, <2>4 DEF IInv, RingInv, FramesInv, cut
<1>2. CASE TapCheck
  <2>1. /\ UNCHANGED <<data, writepos, bytes_buffered, received>>
        /\ tap.pc = "check"
        /\ tap' = [tap EXCEPT !.pc = IF IsFull THEN "receive" ELSE "write"]
    BY <1>2 DEF TapCheck, TapStep
  <2>2. tap'.pc \in {"receive", "write"} /\ tap'.frame = tap.frame /\ tap'.reg = tap.reg
    BY <1>0, <2>1 DEF TypeOK
  <2>3. TypeOK'
    BY <1>0, <1>a, <2>1, <2>2 DEF TypeOK, cut
  <2>4. Queue' = Queue
    BY <1>a, <2>1, QueueUnchanged DEF ring
  <2> QED
    BY <1>0, <1>a, <2>1, <2>2, <2>3, <2>4 DEF IInv, RingInv, FramesInv, cut
<1>3. CASE TapWrite
  <2>1. Queue' = Queue
    BY <1>3, WriteStep
  <2>2. CASE IsFull
    <3>1. /\ UNCHANGED <<data, writepos, bytes_buffered, received>>
          /\ tap.pc = "write"
          /\ tap' = [tap EXCEPT !.pc = "count"]
      BY <1>3, <2>2 DEF TapWrite, TapStep
    <3>2. tap'.pc = "count" /\ tap'.frame = tap.frame /\ tap'.reg = tap.reg
      BY <1>0, <3>1 DEF TypeOK
    <3>3. TypeOK'
      BY <1>0, <1>a, <3>1, <3>2 DEF TypeOK, cut
    <3> QED
      BY <1>0, <1>a, <2>1, <3>1, <3>2, <3>3 DEF IInv, RingInv, FramesInv, cut
  <2>3. CASE ~IsFull
    <3>1. /\ UNCHANGED <<writepos, bytes_buffered, received>>
          /\ tap.pc = "write"
          /\ data' = [data EXCEPT ![writepos] = tap.frame]
          /\ tap' = [tap EXCEPT !.pc = "publish"]
      BY <1>3, <2>3 DEF TapWrite, TapStep
    <3>2. tap'.pc = "publish" /\ tap'.frame = tap.frame /\ tap'.reg = tap.reg
      BY <1>0, <3>1 DEF TypeOK
    <3>3. tap.frame \in Frames
      BY <1>0, <3>1 DEF FramesInv
    <3>4. TypeOK'
      BY <1>0, <1>a, <3>1, <3>2, <3>3 DEF TypeOK, cut
    <3>5. data'[writepos] = tap.frame /\ (readpos # writepos => data'[readpos] = data[readpos])
      BY <1>0, <3>1 DEF TypeOK
    <3>6. RingInv'
      BY <1>0, <1>a, <2>3, <3>1, <3>2, <3>5 DEF RingInv, IsFull
    <3> QED
      BY <1>0, <1>a, <2>1, <3>2, <3>3, <3>4, <3>6 DEF IInv, FramesInv, cut
  <2> QED
    BY <2>2, <2>3
<1>4. CASE TapPublish
  <2>1. /\ UNCHANGED <<data, bytes_buffered, received>>
        /\ tap.pc = "publish"
        /\ writepos' = (writepos + 1) % BUF_SIZE
        /\ tap' = [tap EXCEPT !.pc = "count"]
    BY <1>4 DEF TapPublish, TapStep
  <2>2. tap'.pc = "count" /\ tap'.frame = tap.frame /\ tap'.reg = tap.reg
    BY <1>0, <2>1 DEF TypeOK
  <2>3. writepos' \in Cells
    BY <1>0, <2>1, NextCell DEF TypeOK
  <2>4. TypeOK'
    BY <1>0, <1>a, <2>1, <2>2, <2>3 DEF TypeOK, cut
  <2>5. Queue' = Append(Queue, tap.frame) /\ tap.frame \in Frames
    BY <1>0, <1>4, <2>1, PublishStep DEF FramesInv
  <2>6. RingInv'
    BY <1>0, <1>a, <2>1, <2>2 DEF RingInv
  <2>7. Queue' \in Seq(Frames)
    BY <1>0, <2>5 DEF FramesInv
  <2> QED
    BY <1>0, <1>a, <2>2, <2>4, <2>5, <2>6, <2>7 DEF IInv, FramesInv, cut
<1>5. CASE TapCount
  <2>1. /\ UNCHANGED <<data, writepos, bytes_buffered, received>>
        /\ tap.pc = "count"
        /\ tap' = [tap EXCEPT !.pc = "store",
                              !.reg = (bytes_buffered + tap.frame.size) % UINT]
    BY <1>5 DEF TapCount, TapStep
  <2>2. (bytes_buffered + tap.frame.size) % UINT \in 0 .. UINT - 1
    <3>1. bytes_buffered + tap.frame.size \in Nat
      BY <1>0, <2>1, Constants DEF TypeOK, FramesInv, Frames
    <3> QED
      BY <3>1, Constants, ModRange
  <2>3. tap'.pc = "store" /\ tap'.frame = tap.frame /\ tap'.reg \in 0 .. UINT - 1
    BY <1>0, <2>1, <2>2 DEF TypeOK
  <2>4. tap' \in [pc : {"receive", "check", "write", "publish", "count", "store"},
                  frame : Frames \cup {NoFrame}, reg : 0 .. UINT - 1]
    BY <1>0, <2>1, <2>2 DEF TypeOK
  <2>5. TypeOK'
    BY <1>0, <1>a, <2>1, <2>4 DEF TypeOK, cut
  <2>6. Queue' = Queue
    BY <1>a, <2>1, QueueUnchanged DEF ring
  <2> QED
    BY <1>0, <1>a, <2>1, <2>3, <2>5, <2>6 DEF IInv, RingInv, FramesInv, cut
<1>6. CASE TapStore
  <2>1. /\ UNCHANGED <<data, writepos, received>>
        /\ bytes_buffered' = tap.reg
        /\ tap' = [tap EXCEPT !.pc = "receive", !.reg = 0]
    BY <1>6 DEF TapStore, TapStep
  <2>2. /\ tap'.pc = "receive"
        /\ tap' \in [pc : {"receive", "check", "write", "publish", "count", "store"},
                     frame : Frames \cup {NoFrame}, reg : 0 .. UINT - 1]
    <3>1. 0 \in 0 .. UINT - 1
      BY Constants
    <3> QED
      BY <1>0, <2>1, <3>1 DEF TypeOK
  <2>3. TypeOK'
    BY <1>0, <1>a, <2>1, <2>2 DEF TypeOK, cut
  <2>4. Queue' = Queue
    BY <1>a, <2>1, QueueUnchanged DEF ring
  <2> QED
    BY <1>0, <1>a, <2>1, <2>2, <2>3, <2>4 DEF IInv, RingInv, FramesInv, cut
<1> QED
  BY <1>1, <1>2, <1>3, <1>4, <1>5, <1>6 DEF Tap

(* What sched may be: its part of TypeOK.                                  *)
SchedType ==
  [pc : {"wait", "ask", "get", "advance", "count", "store", "cut", "null"},
   frame : Frames \cup {NoFrame}, reg : 0 .. UINT - 1, slots : 0 .. MaxSlots]

(* After a slot the scheduler waits, or has another slot.                  *)
LEMMA NextSlotType ==
  ASSUME NEW s \in SchedType, s.slots >= 1
  PROVE  /\ NextSlot(s) \in SchedType
         /\ NextSlot(s).pc \in {"ask", "wait"}
         /\ NextSlot(s).pc = "ask" => NextSlot(s).slots >= 1
<1>1. 0 \in 0 .. UINT - 1
  BY Constants
<1>2. s.slots - 1 \in 0 .. MaxSlots /\ (s.slots > 1 => s.slots - 1 >= 1)
  BY Constants DEF SchedType
<1> QED
  BY <1>1, <1>2 DEF NextSlot, SchedType

(* Every step of the scheduler leaves the TAP thread's fields alone.       *)
LEMMA SchedStepInv ==
  ASSUME IInv, Sched
  PROVE  IInv'
<1>0. /\ TypeOK /\ RingInv /\ FramesInv
      /\ sched \in SchedType
  BY DEF IInv, TypeOK, SchedType
<1>a. /\ UNCHANGED <<side, data, writepos, tap, received>>
      /\ overlapped' \in BOOLEAN
  BY <1>0 DEF Sched, SchedStep, SchedStart, SchedAsk, SchedGet, SchedAdvance,
              SchedCount, SchedStore, SchedCut, TypeOK
<1>1. CASE SchedStart
  <2>1. /\ UNCHANGED <<readpos, bytes_buffered, cut, taken>>
        /\ \E n \in 1 .. MaxSlots : sched' = [sched EXCEPT !.pc = "ask", !.slots = n]
    BY <1>1 DEF SchedStart
  <2>2. sched' \in SchedType /\ sched'.pc = "ask" /\ sched'.slots >= 1
    <3>1. PICK n \in 1 .. MaxSlots : sched' = [sched EXCEPT !.pc = "ask", !.slots = n]
      BY <2>1
    <3>2. n \in 0 .. MaxSlots /\ n >= 1
      BY Constants
    <3> QED
      BY <1>0, <3>1, <3>2 DEF SchedType
  <2>3. TypeOK'
    BY <1>0, <1>a, <2>1, <2>2 DEF TypeOK, SchedType, cut
  <2>4. Queue' = Queue
    BY <1>a, <2>1, QueueUnchanged DEF ring
  <2> QED
    BY <1>0, <1>a, <2>1, <2>2, <2>3, <2>4 DEF IInv, RingInv, FramesInv
<1>2. CASE SchedAsk
  <2>1. /\ UNCHANGED <<readpos, bytes_buffered, cut, taken>>
        /\ sched.pc = "ask"
        /\ sched' = IF ~HasData THEN NextSlot(sched)
                    ELSE [sched EXCEPT !.pc = IF curr_frame = NoFrame THEN "get" ELSE "cut"]
    BY <1>2 DEF SchedAsk, SchedStep
  <2>2. sched.slots >= 1
    BY <1>0, <2>1 DEF FramesInv
  <2>3. /\ sched' \in SchedType
        /\ sched'.pc \in {"ask", "wait", "get", "cut"}
        /\ sched'.pc # "wait" => sched'.slots >= 1
        /\ sched'.pc = "cut" => curr_frame # NoFrame
    <3>1. CASE ~HasData
      BY <1>0, <2>1, <2>2, <3>1, NextSlotType
    <3>2. CASE HasData
      BY <1>0, <2>1, <2>2, <3>2 DEF SchedType
    <3> QED
      BY <3>1, <3>2
  <2>4. TypeOK'
    BY <1>0, <1>a, <2>1, <2>3 DEF TypeOK, SchedType, cut
  <2>5. Queue' = Queue
    BY <1>a, <2>1, QueueUnchanged DEF ring
  <2>6. sched'.pc = "cut" => curr_frame' \in Frames
    BY <1>0, <2>1, <2>3 DEF TypeOK, cut
  <2> QED
    BY <1>0, <1>a, <2>1, <2>3, <2>4, <2>5, <2>6 DEF IInv, RingInv, FramesInv
<1>3. CASE SchedGet
  <2>1. /\ UNCHANGED <<readpos, bytes_buffered, cut, taken>>
        /\ sched.pc = "get"
        /\ sched' = IF IsEmpty THEN [sched EXCEPT !.pc = "null"]
                    ELSE [sched EXCEPT !.pc = "advance", !.frame = data[readpos]]
    BY <1>3 DEF SchedGet, SchedStep
  <2>2. Queue' = Queue
    BY <1>a, <2>1, QueueUnchanged DEF ring
  <2>3. /\ sched' \in SchedType
        /\ sched'.pc \in {"null", "advance"}
        /\ sched'.slots = sched.slots
        /\ sched'.pc = "advance" =>
             /\ readpos # writepos
             /\ sched'.frame = data[readpos] /\ sched'.frame \in Frames
    <3>1. CASE IsEmpty
      BY <1>0, <2>1, <3>1 DEF SchedType
    <3>2. CASE ~IsEmpty
      <4>1. readpos # writepos /\ data[readpos] \in Frames
        BY <3>2, HeadIsFrame DEF IsEmpty
      <4> QED
        BY <1>0, <2>1, <3>2, <4>1 DEF SchedType
    <3> QED
      BY <3>1, <3>2
  <2>4. TypeOK'
    BY <1>0, <1>a, <2>1, <2>3 DEF TypeOK, SchedType, cut
  <2> QED
    BY <1>0, <1>a, <2>1, <2>2, <2>3, <2>4 DEF IInv, RingInv, FramesInv
<1>4. CASE SchedAdvance
  <2>1. /\ UNCHANGED <<bytes_buffered, cut>>
        /\ sched.pc = "advance"
        /\ readpos' = (readpos + 1) % BUF_SIZE
        /\ taken' = Append(taken, sched.frame)
        /\ sched' = [sched EXCEPT !.pc = "count"]
    BY <1>4 DEF SchedAdvance, SchedStep
  <2>2. /\ sched' \in SchedType
        /\ sched'.pc = "count" /\ sched'.frame = sched.frame /\ sched'.slots = sched.slots
    BY <1>0, <2>1 DEF SchedType
  <2>3. sched.frame \in Frames
    BY <1>0, <2>1 DEF FramesInv
  <2>4. readpos' \in Cells /\ taken' \in Seq(Frames)
    BY <1>0, <2>1, <2>3, NextCell DEF TypeOK
  <2>5. TypeOK'
    BY <1>0, <1>a, <2>1, <2>2, <2>4 DEF TypeOK, SchedType, cut
  <2>6. Queue' \in Seq(Frames)
    BY <1>0, <1>4, AdvanceStep DEF FramesInv
  <2>7. RingInv'
    <3>1. readpos # writepos /\ readpos \in Cells /\ writepos \in Cells
      BY <1>0, <2>1 DEF RingInv, TypeOK
    <3>2. (writepos + 1) % BUF_SIZE # readpos'
      BY <2>1, <3>1, NextCellsDiffer
    <3> QED
      BY <1>0, <1>a, <2>2, <3>2 DEF RingInv
  <2>8. FramesInv'
    <3>1. tap' = tap /\ sched.slots >= 1
      BY <1>0, <1>a, <2>1 DEF FramesInv
    <3>2. /\ tap'.pc # "receive" => tap'.frame \in Frames
          /\ sched'.frame \in Frames
          /\ sched'.pc # "cut"
          /\ sched'.slots >= 1
      BY <1>0, <2>2, <2>3, <3>1 DEF FramesInv
    <3> QED
      BY <2>6, <3>2 DEF FramesInv
  <2> QED
    BY <2>5, <2>7, <2>8 DEF IInv
<1>5. CASE SchedCount
  <2>1. /\ UNCHANGED <<readpos, bytes_buffered, cut, taken>>
        /\ sched.pc = "count"
        /\ sched' = [sched EXCEPT !.pc = "store", !.reg = Uncounted]
    BY <1>5 DEF SchedCount, SchedStep
  <2>2. Uncounted \in 0 .. UINT - 1
    <3>1. bytes_buffered - sched.frame.size \in Int
      BY <1>0, <2>1, Constants DEF TypeOK, FramesInv, Frames
    <3> QED
      BY <3>1, Constants, ModRangeInt DEF Uncounted
  <2>3. /\ sched' \in SchedType
        /\ sched'.pc = "store" /\ sched'.frame = sched.frame /\ sched'.slots = sched.slots
    BY <1>0, <2>1, <2>2 DEF SchedType
  <2>4. TypeOK'
    BY <1>0, <1>a, <2>1, <2>3 DEF TypeOK, SchedType, cut
  <2>5. Queue' = Queue
    BY <1>a, <2>1, QueueUnchanged DEF ring
  <2> QED
    BY <1>0, <1>a, <2>1, <2>3, <2>4, <2>5 DEF IInv, RingInv, FramesInv
<1>6. CASE SchedStore
  <2>1. /\ UNCHANGED <<readpos, taken>>
        /\ sched.pc = "store"
        /\ bytes_buffered' = sched.reg
        /\ curr_frame' = sched.frame /\ bytes_sent' = 0
        /\ sched' = [sched EXCEPT !.pc = "cut"]
    BY <1>6 DEF SchedStore, SchedStep
  <2>2. sched.frame \in Frames
    BY <1>0, <2>1 DEF FramesInv
  <2>3. /\ sched' \in SchedType
        /\ sched'.pc = "cut" /\ sched'.slots = sched.slots
        /\ bytes_buffered' \in 0 .. UINT - 1
    BY <1>0, <2>1 DEF SchedType
  <2>4. curr_frame'.size > 0
    BY <2>1, <2>2, Constants DEF Frames
  <2>5. TypeOK'
    BY <1>0, <1>a, <2>1, <2>2, <2>3, <2>4 DEF TypeOK, SchedType
  <2>6. Queue' = Queue
    BY <1>a, <2>1, QueueUnchanged DEF ring
  <2> QED
    BY <1>0, <1>a, <2>1, <2>2, <2>3, <2>5, <2>6 DEF IInv, RingInv, FramesInv
<1>7. CASE SchedCut
  <2>1. /\ UNCHANGED <<readpos, bytes_buffered, taken>>
        /\ sched.pc = "cut"
        /\ sched' = NextSlot(sched)
    BY <1>7 DEF SchedCut, SchedStep
  <2>2. sched.slots >= 1 /\ curr_frame \in Frames
    BY <1>0, <2>1 DEF FramesInv
  <2>3. /\ sched' \in SchedType
        /\ sched'.pc \in {"ask", "wait"}
        /\ sched'.pc = "ask" => sched'.slots >= 1
    BY <1>0, <2>1, <2>2, NextSlotType
  <2>4. /\ curr_frame' \in Frames \cup {NoFrame}
        /\ bytes_sent' \in Nat
        /\ curr_frame' # NoFrame => bytes_sent' < curr_frame'.size
    <3>1. curr_frame # NoFrame /\ curr_frame.size \in Nat
      BY <2>2, NoFrameIsNone, Constants DEF Frames
    <3>2. CASE curr_frame.size - bytes_sent <= Payload
      BY <1>7, <3>2, Constants DEF SchedCut
    <3>3. CASE ~(curr_frame.size - bytes_sent <= Payload)
      <4>1. curr_frame' = curr_frame /\ bytes_sent' = bytes_sent + Payload
        BY <1>7, <3>3 DEF SchedCut
      <4>2. bytes_sent \in Nat
        BY <1>0 DEF TypeOK
      <4>3. bytes_sent + Payload \in Nat /\ bytes_sent + Payload < curr_frame.size
        BY <3>1, <3>3, <4>2, Constants
      <4> QED
        BY <2>2, <4>1, <4>3
    <3> QED
      BY <3>2, <3>3
  <2>5. TypeOK'
    BY <1>0, <1>a, <2>1, <2>3, <2>4 DEF TypeOK, SchedType
  <2>6. Queue' = Queue
    BY <1>a, <2>1, QueueUnchanged DEF ring
  <2> QED
    BY <1>0, <1>a, <2>1, <2>3, <2>5, <2>6 DEF IInv, RingInv, FramesInv
<1> QED
  BY <1>1, <1>2, <1>3, <1>4, <1>5, <1>6, <1>7 DEF Sched

LEMMA StepInv == IInv /\ [Next]_vars => IInv'
<1> SUFFICES ASSUME IInv, [Next]_vars PROVE IInv'
  OBVIOUS
<1>1. CASE Tap
  BY <1>1, TapStepInv
<1>2. CASE Sched
  BY <1>2, SchedStepInv
<1>3. CASE UNCHANGED vars
  <2>1. Queue' = Queue
    BY <1>3, QueueUnchanged DEF vars
  <2> QED
    BY <1>3, <2>1 DEF IInv, TypeOK, RingInv, FramesInv, vars, ring, cut
<1> QED
  BY <1>1, <1>2, <1>3 DEF Next

(* What a thread has found out about the ring without a lock is still so   *)
(* when it acts on it (ringbuf_put and ringbuf_get, ringbuf.c).            *)
THEOREM RingInvariant == Spec => []IInv
<1> QED
  BY InitInv, StepInv, PTL DEF Spec

(* The fields of the queue, the frame that is being cut and the registers  *)
(* of the two threads stay in range; of the frame that is being cut        *)
(* something is always left to send (mac_frag_get_fragment).               *)
THEOREM TypeCorrect == Spec => []TypeOK
<1>1. IInv => TypeOK
  BY DEF IInv
<1> QED
  BY <1>1, RingInvariant, PTL

---------------------------------------------------------------------------
(* The queue. *)

LEMMA InitQueue == Init => Abstract!Init
<1> SUFFICES ASSUME Init PROVE Abstract!Init
  OBVIOUS
<1>1. (0 - 0) % BUF_SIZE = 0
  BY Size, ModSmall
<1>2. Queue = <<>> /\ taken = <<>>
  BY <1>1 DEF Init, Queue
<1> QED
  BY <1>2 DEF Abstract!Init

LEMMA StepQueue == IInv /\ [Next]_vars => [Abstract!Next]_<<Queue, taken>>
<1> SUFFICES ASSUME IInv, [Next]_vars PROVE [Abstract!Next]_<<Queue, taken>>
  OBVIOUS
<1>1. CASE TapWrite
  <2>1. Queue' = Queue /\ taken' = taken
    BY <1>1, WriteStep DEF TapWrite, TapStep
  <2> QED
    BY <2>1
<1>2. CASE TapPublish
  <2>1. tap.frame \in Frames /\ taken' = taken
    BY <1>2 DEF IInv, FramesInv, TapPublish, TapStep
  <2>2. Abstract!Put(tap.frame)
    BY <1>2, <2>1, PublishStep DEF Abstract!Put
  <2> QED
    BY <2>1, <2>2 DEF Abstract!Next
<1>3. CASE SchedAdvance
  <2>1. taken' = Append(taken, sched.frame)
    BY <1>3 DEF SchedAdvance
  <2>2. Abstract!Get
    BY <1>3, <2>1, AdvanceStep DEF Abstract!Get
  <2> QED
    BY <2>2 DEF Abstract!Next
<1>4. CASE ~TapWrite /\ ~TapPublish /\ ~SchedAdvance
  <2>1. UNCHANGED <<readpos, writepos, data, taken>>
    BY <1>4, OtherStep
  <2>2. Queue' = Queue /\ taken' = taken
    BY <2>1, QueueUnchanged DEF ring
  <2> QED
    BY <2>2
<1> QED
  BY <1>1, <1>2, <1>3, <1>4

(* ringbuf_put and ringbuf_get, called by two threads without a lock, are  *)
(* a queue of BUF_SIZE - 1 frames: none is lost, taken twice, overwritten  *)
(* or out of order, for every size of the ring and every order of the      *)
(* steps (as long as stores are seen in the order of the program).         *)
THEOREM QueueImplemented == Spec => ImplementsQueue
<1> QED
  BY InitQueue, StepQueue, RingInvariant, PTL DEF Spec, ImplementsQueue, Abstract!Spec

---------------------------------------------------------------------------
(* The bytes of a sequence of frames. *)

(* A product grows with its factors.                                       *)
LEMMA ProductGrows ==
  ASSUME NEW a \in Nat, NEW b \in Nat, NEW c \in Nat, a <= b
  PROVE  a * c <= b * c
<1>1. b * c = a * c + (b - a) * c
  OBVIOUS
<1>2. a * c \in Nat /\ (b - a) * c \in Nat
  OBVIOUS
<1> QED
  BY <1>1, <1>2

(* A frame has bytes, and a ring full of frames like it can be counted.    *)
LEMMA FrameSize ==
  ASSUME NEW f \in Frames
  PROVE  f.size \in Nat \ {0} /\ (BUF_SIZE - 1) * f.size < UINT
  BY FrameQueueAssumption DEF Frames

(* A set of natural numbers that is not empty has a least element.         *)
LEMMA Least ==
  ASSUME NEW S \in SUBSET Nat, S # {}
  PROVE  \E n \in S : \A m \in S : n <= m
<1>1. PICK n \in S : \A m \in S : ~(<<m, n>> \in OpToRel(<, Nat))
  BY NatLessThanWellFounded, WFMin
<1>2. \A m \in S : ~(m < n)
  BY <1>1 DEF OpToRel
<1> QED
  BY <1>2

(* ... and, when it is bounded, a greatest one.                            *)
LEMMA MaxOf ==
  ASSUME NEW n \in Nat, NEW S \in SUBSET (1 .. n), S # {}
  PROVE  Max(S) \in S /\ \A m \in S : m <= Max(S)
<1> DEFINE T == {n - m : m \in S}
<1>1. T \in SUBSET Nat /\ T # {}
  <2>1. \A m \in S : n - m \in Nat
    OBVIOUS
  <2> QED
    BY <2>1
<1> HIDE DEF T
<1>2. PICK k \in T : \A m \in T : k <= m
  BY <1>1, Least
<1>3. PICK x \in S : k = n - x
  BY DEF T
<1>4. \A m \in S : n - x <= n - m
  BY <1>2, <1>3 DEF T
<1>5. \A m \in S : x >= m
  BY <1>4
<1> QED
  BY <1>5 DEF Max

(* f adds up the members of s with their indices in a set, greatest first, *)
(* for every set of the first k indices: the function FoldLeft is made of. *)
Adds(f, s, k) ==
  f = [S \in SUBSET (1 .. k) |-> IF S = {} THEN 0 ELSE f[S \ {Max(S)}] + s[Max(S)].size]

Iter(s) == CHOOSE iter : iter = [S \in SUBSET DOMAIN s |->
             IF S = {} THEN 0 ELSE iter[S \ {Max(S)}] + s[Max(S)].size]

LEMMA AddsNext ==
  ASSUME NEW s \in Seq(Frames), NEW k \in Nat, NEW f, Adds(f, s, k)
  PROVE  \E g : Adds(g, s, k + 1)
<1> DEFINE val(S) == IF k + 1 \in S THEN f[S \ {k + 1}] + s[k + 1].size ELSE f[S]
           g == [S \in SUBSET (1 .. k + 1) |-> val(S)]
<1>1. ASSUME NEW S \in SUBSET (1 .. k + 1)
      PROVE  val(S) = IF S = {} THEN 0 ELSE g[S \ {Max(S)}] + s[Max(S)].size
  <2>1. CASE k + 1 \in S
    <3>1. Max(S) = k + 1
      <4>1. k + 1 \in Nat /\ S # {} /\ S \in SUBSET (1 .. k + 1)
        BY <2>1
      <4>2. Max(S) \in S /\ \A m \in S : m <= Max(S)
        BY ONLY <4>1, MaxOf
      <4>3. Max(S) \in 1 .. k + 1 /\ k + 1 <= Max(S)
        BY ONLY <2>1, <4>2, S \in SUBSET (1 .. k + 1)
      <4> HIDE DEF g
      <4> QED
        BY <4>3
    <3>2. S \ {k + 1} \in SUBSET (1 .. k + 1) /\ k + 1 \notin S \ {k + 1}
      OBVIOUS
    <3>3. g[S \ {k + 1}] = f[S \ {k + 1}]
      BY <3>2
    <3> HIDE DEF g
    <3> QED
      BY <2>1, <3>1, <3>3
  <2>2. CASE k + 1 \notin S
    <3>1. S \in SUBSET (1 .. k)
      BY <2>2
    <3>2. f[S] = IF S = {} THEN 0 ELSE f[S \ {Max(S)}] + s[Max(S)].size
      BY <3>1 DEF Adds
    <3>3. CASE S = {}
      BY <2>2, <3>2, <3>3
    <3>4. CASE S # {}
      <4>1. S \ {Max(S)} \in SUBSET (1 .. k + 1) /\ k + 1 \notin S \ {Max(S)}
        BY <2>2
      <4>2. g[S \ {Max(S)}] = f[S \ {Max(S)}]
        BY <4>1
      <4> HIDE DEF g
      <4> QED
        BY <2>2, <3>2, <3>4, <4>2
    <3> QED
      BY <3>3, <3>4
  <2> QED
    BY <2>1, <2>2
<1>2. g = [S \in SUBSET (1 .. k + 1) |-> IF S = {} THEN 0 ELSE g[S \ {Max(S)}] + s[Max(S)].size]
  BY <1>1
<1> HIDE DEF g
<1> QED
  BY <1>2 DEF Adds

LEMMA AddsExists ==
  ASSUME NEW s \in Seq(Frames), NEW k \in Nat
  PROVE  \E f : Adds(f, s, k)
<1> DEFINE Bad == {n \in Nat : ~\E f : Adds(f, s, n)}
<1>1. ASSUME Bad # {} PROVE FALSE
  <2>1. PICK n \in Bad : \A m \in Bad : n <= m
    <3>1. Bad \in SUBSET Nat
      OBVIOUS
    <3> HIDE DEF Bad
    <3> QED
      BY <1>1, <3>1, Least
  <2>2. CASE n = 0
    <3> DEFINE f == [S \in SUBSET (1 .. 0) |-> 0]
    <3>1. Adds(f, s, 0)
      <4>1. \A S \in SUBSET (1 .. 0) : S = {}
        OBVIOUS
      <4> QED
        BY <4>1 DEF Adds
    <3> QED
      BY <2>2, <3>1
  <2>3. CASE n # 0
    <3>1. n - 1 \in Nat /\ n - 1 \notin Bad
      BY <2>1, <2>3
    <3>2. PICK f : Adds(f, s, n - 1)
      BY <3>1
    <3>3. \E g : Adds(g, s, (n - 1) + 1)
      BY <3>1, <3>2, AddsNext
    <3> QED
      BY <3>3
  <2> QED
    BY <2>2, <2>3
<1> QED
  BY <1>1

LEMMA BytesIsIter ==
  ASSUME NEW s \in Seq(Frames)
  PROVE  \E f : Adds(f, s, Len(s)) /\ Bytes(s) = f[1 .. Len(s)]
<1>1. Bytes(s) = Iter(s)[DOMAIN s]
  BY Zenon DEF Bytes, FoldLeft, MapThenFoldSet, Iter
<1>2. DOMAIN s = 1 .. Len(s)
  OBVIOUS
<1>3. \E f : Adds(f, s, Len(s))
  BY AddsExists
<1>4. Iter(s) = CHOOSE f : Adds(f, s, Len(s))
  BY <1>2 DEF Iter, Adds
<1>5. Adds(Iter(s), s, Len(s))
  BY <1>3, <1>4
<1> QED
  BY <1>1, <1>2, <1>5

(* Bytes(s) is where a count ends that starts with 0 and goes on with the    *)
(* sizes of the frames s.                                                           *)
LEMMA BytesCounts ==
  ASSUME NEW s \in Seq(Frames)
  PROVE  \E g \in [0 .. Len(s) -> Nat] :
           /\ g[0] = 0
           /\ \A j \in 1 .. Len(s) : g[j] = g[j - 1] + s[j].size
           /\ Bytes(s) = g[Len(s)]
<1>0. Len(s) \in Nat /\ \A j \in 1 .. Len(s) : s[j].size \in Nat
  <2>1. Len(s) \in Nat /\ \A j \in 1 .. Len(s) : s[j] \in Frames
    OBVIOUS
  <2> QED
    BY <2>1, FrameSize
<1>1. PICK f : Adds(f, s, Len(s)) /\ Bytes(s) = f[1 .. Len(s)]
  BY BytesIsIter
<1>2. f[1 .. 0] = 0
  <2>1. 1 .. 0 = {} /\ {} \in SUBSET (1 .. Len(s))
    OBVIOUS
  <2> QED
    BY <1>1, <2>1 DEF Adds
<1>3. ASSUME NEW j \in 1 .. Len(s)
      PROVE  f[1 .. j] = f[1 .. (j - 1)] + s[j].size
  <2>1. j \in Nat /\ 1 .. j \in SUBSET (1 .. Len(s)) /\ 1 .. j # {}
    <3>1. j \in Nat /\ 1 \in 1 .. j /\ \A m \in 1 .. j : m \in 1 .. Len(s)
      BY <1>0
    <3> QED
      BY <3>1
  <2>2. Max(1 .. j) \in 1 .. j /\ \A m \in 1 .. j : m <= Max(1 .. j)
    BY <2>1, MaxOf
  <2>3. Max(1 .. j) = j
    BY <2>1, <2>2
  <2>4. (1 .. j) \ {j} = 1 .. (j - 1)
    BY <2>1
  <2> QED
    BY <1>1, <2>1, <2>3, <2>4 DEF Adds
<1> DEFINE g == [j \in 0 .. Len(s) |-> f[1 .. j]]
           Bad == {j \in 0 .. Len(s) : g[j] \notin Nat}
<1>4. /\ g[0] = 0
      /\ \A j \in 1 .. Len(s) : g[j] = g[j - 1] + s[j].size
      /\ g[Len(s)] = f[1 .. Len(s)]
  <2>1. 0 \in 0 .. Len(s) /\ Len(s) \in 0 .. Len(s)
    BY <1>0
  <2>2. \A j \in 1 .. Len(s) : j \in 0 .. Len(s) /\ j - 1 \in 0 .. Len(s)
    BY <1>0
  <2> QED
    BY <1>2, <1>3, <2>1, <2>2
<1>5. DOMAIN g = 0 .. Len(s) /\ g = [j \in 0 .. Len(s) |-> g[j]]
  OBVIOUS
<1> HIDE DEF g
<1>6. ASSUME Bad # {} PROVE FALSE
  <2>1. PICK n \in Bad : \A m \in Bad : n <= m
    <3>1. Bad \in SUBSET Nat
      BY <1>0
    <3> HIDE DEF Bad
    <3> QED
      BY <1>6, <3>1, Least
  <2>2. n # 0
    BY <1>4, <2>1
  <2>3. n \in 1 .. Len(s) /\ n - 1 \in 0 .. Len(s)
    BY <1>0, <2>1, <2>2
  <2>4. g[n - 1] \in Nat
    BY <1>0, <2>1, <2>3
  <2>5. g[n] = g[n - 1] + s[n].size /\ s[n].size \in Nat
    BY <1>0, <1>4, <2>3
  <2> QED
    BY <2>1, <2>4, <2>5
<1>7. g \in [0 .. Len(s) -> Nat]
  BY <1>5, <1>6
<1> QED
  BY <1>1, <1>4, <1>7

(* ... and every such count ends there.                                    *)
LEMMA BytesUnique ==
  ASSUME NEW s \in Seq(Frames), NEW h, h[0] = 0,
         \A j \in 1 .. Len(s) : h[j] = h[j - 1] + s[j].size
  PROVE  Bytes(s) = h[Len(s)] /\ Bytes(s) \in Nat
<1>0. Len(s) \in Nat
  OBVIOUS
<1>1. PICK g \in [0 .. Len(s) -> Nat] :
        /\ g[0] = 0
        /\ \A j \in 1 .. Len(s) : g[j] = g[j - 1] + s[j].size
        /\ Bytes(s) = g[Len(s)]
  BY BytesCounts
<1> DEFINE Bad == {j \in 0 .. Len(s) : g[j] # h[j]}
<1>2. ASSUME Bad # {} PROVE FALSE
  <2>1. PICK n \in Bad : \A m \in Bad : n <= m
    <3>1. Bad \in SUBSET Nat
      BY <1>0
    <3> HIDE DEF Bad
    <3> QED
      BY <1>2, <3>1, Least
  <2>2. n # 0
    BY <1>1, <2>1
  <2>3. n \in 1 .. Len(s) /\ n - 1 \in 0 .. Len(s)
    BY <1>0, <2>1, <2>2
  <2>4. g[n - 1] = h[n - 1]
    BY <1>0, <2>1, <2>3
  <2> QED
    BY <1>1, <2>1, <2>3, <2>4
<1>3. Len(s) \in 0 .. Len(s)
  BY <1>0
<1> QED
  BY <1>1, <1>2, <1>3

LEMMA BytesEmpty == Bytes(<<>>) = 0
<1> DEFINE h == [j \in {0} |-> 0]
<1>1. <<>> \in Seq(Frames) /\ Len(<<>>) = 0 /\ h[0] = 0
  OBVIOUS
<1>2. \A j \in 1 .. Len(<<>>) : h[j] = h[j - 1] + <<>>[j].size
  BY <1>1
<1> HIDE DEF h
<1> QED
  BY <1>1, <1>2, BytesUnique

LEMMA BytesNat ==
  ASSUME NEW s \in Seq(Frames)
  PROVE  Bytes(s) \in Nat
<1>1. \E g \in [0 .. Len(s) -> Nat] : Bytes(s) = g[Len(s)]
  BY BytesCounts
<1>2. Len(s) \in 0 .. Len(s)
  OBVIOUS
<1> QED
  BY <1>1, <1>2

(* A frame that is put in counts with its size.                            *)
LEMMA BytesAppend ==
  ASSUME NEW s \in Seq(Frames), NEW x \in Frames
  PROVE  Bytes(Append(s, x)) = Bytes(s) + x.size
<1> DEFINE t == Append(s, x)
<1>1. /\ t \in Seq(Frames) /\ Len(s) \in Nat /\ Len(t) = Len(s) + 1
      /\ t[Len(s) + 1] = x
      /\ \A j \in 1 .. Len(s) : t[j] = s[j]
  OBVIOUS
<1> HIDE DEF t
<1>2. PICK g \in [0 .. Len(t) -> Nat] :
        /\ g[0] = 0
        /\ \A j \in 1 .. Len(t) : g[j] = g[j - 1] + t[j].size
        /\ Bytes(t) = g[Len(t)]
  BY <1>1, BytesCounts
<1>3. \A j \in 1 .. Len(s) : g[j] = g[j - 1] + s[j].size
  BY <1>1, <1>2
<1>4. Bytes(s) = g[Len(s)]
  BY <1>2, <1>3, BytesUnique
<1>5. Len(t) \in 1 .. Len(t) /\ Len(t) - 1 = Len(s)
  BY <1>1
<1>6. Bytes(t) = g[Len(s)] + x.size
  BY <1>1, <1>2, <1>5
<1> QED
  BY <1>4, <1>6 DEF t

(* A frame that is taken out no longer counts.                             *)
LEMMA BytesTail ==
  ASSUME NEW s \in Seq(Frames), s # <<>>
  PROVE  Bytes(s) = Bytes(Tail(s)) + Head(s).size
<1> DEFINE t == Tail(s)
<1>1. /\ t \in Seq(Frames) /\ Len(t) \in Nat /\ Len(s) = Len(t) + 1
      /\ Head(s) = s[1] /\ s[1] \in Frames
      /\ \A j \in 1 .. Len(t) : t[j] = s[j + 1] /\ t[j] \in Frames
  OBVIOUS
<1>0. s[1].size \in Nat /\ \A j \in 1 .. Len(t) : t[j].size \in Nat
  BY <1>1, FrameSize
<1> HIDE DEF t
<1>2. PICK g \in [0 .. Len(s) -> Nat] :
        /\ g[0] = 0
        /\ \A j \in 1 .. Len(s) : g[j] = g[j - 1] + s[j].size
        /\ Bytes(s) = g[Len(s)]
  BY BytesCounts
<1>3. g[1] = s[1].size /\ \A j \in 0 .. Len(s) : g[j] \in Nat
  <2>1. 1 \in 1 .. Len(s) /\ g[1 - 1] = 0
    BY <1>1, <1>2
  <2>2. g[1] = 0 + s[1].size
    BY <1>2, <2>1
  <2>3. \A j \in 0 .. Len(s) : g[j] \in Nat
    OBVIOUS
  <2> QED
    BY <1>0, <2>2, <2>3
<1> DEFINE h == [j \in 0 .. Len(t) |-> g[j + 1] - s[1].size]
<1>4. h[0] = 0 /\ h[Len(t)] = g[Len(s)] - s[1].size
  <2>1. 0 \in 0 .. Len(t) /\ Len(t) \in 0 .. Len(t)
    BY <1>1
  <2>2. h[0] = g[0 + 1] - s[1].size
    BY <2>1
  <2> QED
    BY <1>0, <1>1, <1>3, <2>1, <2>2
<1>5. ASSUME NEW j \in 1 .. Len(t)
      PROVE  h[j] = h[j - 1] + t[j].size
  <2>1. j \in 0 .. Len(t) /\ j - 1 \in 0 .. Len(t) /\ (j - 1) + 1 = j
    BY <1>1
  <2>2. h[j] = g[j + 1] - s[1].size /\ h[j - 1] = g[j] - s[1].size
    BY <2>1
  <2> HIDE DEF h
  <2>3. j + 1 \in 1 .. Len(s) /\ (j + 1) - 1 = j /\ j \in 0 .. Len(s)
    BY <1>1
  <2>4. g[j + 1] = g[j] + s[j + 1].size /\ g[j] \in Nat
    BY <1>2, <1>3, <2>3
  <2>5. t[j] = s[j + 1]
    BY <1>1
  <2> QED
    BY <1>0, <2>2, <2>4, <2>5
<1> HIDE DEF h
<1>6. Bytes(t) = h[Len(t)]
  BY <1>1, <1>4, <1>5, BytesUnique
<1>7. g[Len(s)] \in Nat
  BY <1>1, <1>3
<1> QED
  BY <1>0, <1>1, <1>2, <1>4, <1>6, <1>7 DEF t

(* What fits in the ring fits in the counter.                              *)
LEMMA BytesFit ==
  ASSUME NEW s \in Seq(Frames), Len(s) <= BUF_SIZE - 1
  PROVE  Bytes(s) \in 0 .. UINT - 1
<1> DEFINE L == BUF_SIZE - 1
           U == UINT - 1
<1>0. /\ L \in Nat \ {0} /\ U \in Nat /\ Len(s) \in Nat /\ Len(s) <= L
      /\ \A j \in 1 .. Len(s) : s[j].size \in Nat /\ L * s[j].size <= U
  <2>1. BUF_SIZE \in Nat /\ BUF_SIZE >= 2 /\ UINT \in Nat \ {0}
    BY FrameQueueAssumption
  <2>2. \A j \in 1 .. Len(s) : s[j] \in Frames
    OBVIOUS
  <2>3. ASSUME NEW f \in Frames PROVE f.size \in Nat /\ L * f.size <= U
    <3>1. f.size \in Nat /\ (BUF_SIZE - 1) * f.size < UINT
      BY FrameSize
    <3>2. (BUF_SIZE - 1) * f.size \in Nat
      BY <2>1, <3>1
    <3> QED
      BY <2>1, <3>1, <3>2
  <2> QED
    BY <2>1, <2>2, <2>3
<1>1. PICK g \in [0 .. Len(s) -> Nat] :
        /\ g[0] = 0
        /\ \A j \in 1 .. Len(s) : g[j] = g[j - 1] + s[j].size
        /\ Bytes(s) = g[Len(s)]
  BY BytesCounts
<1> DEFINE Bad == {j \in 0 .. Len(s) : ~(L * g[j] <= j * U)}
<1> HIDE DEF L, U
<1>2. ASSUME Bad # {} PROVE FALSE
  <2>1. PICK n \in Bad : \A m \in Bad : n <= m
    <3>1. Bad \in SUBSET Nat
      BY <1>0
    <3> HIDE DEF Bad
    <3> QED
      BY <1>2, <3>1, Least
  <2>2. n # 0
    BY <1>0, <1>1, <2>1
  <2>3. n \in 1 .. Len(s) /\ n - 1 \in 0 .. Len(s) /\ n - 1 \notin Bad
    BY <1>0, <2>1, <2>2
  <2>4. L * g[n - 1] <= (n - 1) * U
    BY <2>3
  <2>5. g[n] = g[n - 1] + s[n].size /\ g[n - 1] \in Nat
    BY <1>1, <2>3
  <2>6. s[n].size \in Nat /\ L * s[n].size <= U
    BY <1>0, <2>3
  <2>7. /\ L * (g[n - 1] + s[n].size) = L * g[n - 1] + L * s[n].size
        /\ n * U = (n - 1) * U + U
        /\ L * g[n - 1] \in Nat /\ L * s[n].size \in Nat /\ (n - 1) * U \in Nat
    BY <1>0, <2>3, <2>5, <2>6
  <2>8. L * g[n] <= n * U
    <3>1. L * g[n] = L * g[n - 1] + L * s[n].size
      BY <2>5, <2>7
    <3> DEFINE a == L * g[n - 1]
               b == L * s[n].size
               c == (n - 1) * U
    <3>2. /\ L * g[n] = a + b /\ n * U = c + U /\ a <= c /\ b <= U
          /\ a \in Nat /\ b \in Nat /\ c \in Nat
      BY <2>4, <2>6, <2>7, <3>1
    <3> HIDE DEF a, b, c
    <3>3. a + b <= c + U
      BY <1>0, <3>2
    <3> QED
      BY <3>2, <3>3
  <2> QED
    BY <2>1, <2>8
<1>3. Len(s) \in 0 .. Len(s)
  BY <1>0
<1>4. g[Len(s)] \in Nat /\ L * g[Len(s)] <= Len(s) * U
  BY <1>2, <1>3
<1>5. Len(s) * U <= L * U
  BY <1>0, ProductGrows
<1>6. g[Len(s)] <= U
  <2> SUFFICES ASSUME g[Len(s)] >= U + 1 PROVE FALSE
    BY <1>0, <1>4
  <2>1. (U + 1) * L <= g[Len(s)] * L
    <3>1. U + 1 \in Nat /\ L \in Nat /\ g[Len(s)] \in Nat
      BY <1>0, <1>4
    <3> QED
      BY <3>1, ProductGrows
  <2>2. (U + 1) * L = L * U + L /\ g[Len(s)] * L = L * g[Len(s)]
    BY <1>0, <1>4
  <2>3. L * U \in Nat /\ Len(s) * U \in Nat /\ L * g[Len(s)] \in Nat
    BY <1>0, <1>4
  <2> QED
    BY <1>0, <1>4, <1>5, <2>1, <2>2, <2>3
<1>7. UINT \in Nat \ {0}
  BY FrameQueueAssumption
<1> QED
  BY <1>1, <1>4, <1>6, <1>7 DEF U

---------------------------------------------------------------------------
(* The counter of the bytes in the queue. *)

(* What a thread knows of the queue when it has looked at it.              *)
SeenInv ==
  /\ tap.pc = "write" => ~IsFull
  /\ curr_frame = NoFrame => bytes_sent = 0
  /\ ~overlapped => sched.pc # "null" /\ (sched.pc = "get" => ~IsEmpty)

(* While at most one of the threads is between a step on the queue and the *)
(* store of its count, the counter and what is still to be added to it, or *)
(* taken off it, are the bytes in the queue.                               *)
CountInv ==
  ~overlapped /\ ~Overlap =>
    /\ tap.pc = "count" => Bytes(Queue) = bytes_buffered + tap.frame.size
    /\ tap.pc = "store" => Bytes(Queue) = tap.reg
    /\ sched.pc = "count" => bytes_buffered = Bytes(Queue) + sched.frame.size
    /\ sched.pc = "store" => Bytes(Queue) = sched.reg
    /\ tap.pc \notin {"count", "store"} /\ sched.pc \notin {"count", "store"}
         => bytes_buffered = Bytes(Queue)

ByteInv == SeenInv /\ CountInv

(* How much is in the queue: less than what the counter holds.             *)
LEMMA QueueBytes ==
  ASSUME IInv
  PROVE  /\ Queue \in Seq(Frames)
         /\ Bytes(Queue) \in 0 .. UINT - 1
         /\ IsEmpty => Bytes(Queue) = 0
<1>1. Queue \in Seq(Frames) /\ readpos \in Cells /\ writepos \in Cells
  BY DEF IInv, TypeOK, FramesInv
<1>2. Queue = InCells(data, readpos, writepos)
  BY <1>1, ItemsShape, QueueItems
<1>3. Count(readpos, writepos) \in 0 .. BUF_SIZE - 1
  BY <1>1, Size DEF Cells, Count
<1>4. Len(Queue) = Count(readpos, writepos)
  BY <1>1, <1>2, <1>3, Size DEF InCells
<1>5. Len(Queue) <= BUF_SIZE - 1
  BY <1>3, <1>4, Size
<1>6. ASSUME IsEmpty PROVE Bytes(Queue) = 0
  <2>1. Len(Queue) = 0
    BY <1>1, <1>4, <1>6, Size DEF IsEmpty, Count, Cells
  <2>2. Queue = <<>>
    BY <1>1, <2>1
  <2> QED
    BY <2>2, BytesEmpty
<1> QED
  BY <1>1, <1>5, <1>6, BytesFit

LEMMA InitBytes == Init => ByteInv
<1> SUFFICES ASSUME Init PROVE ByteInv
  OBVIOUS
<1>1. Queue = <<>>
  <2>1. (0 - 0) % BUF_SIZE = 0
    BY Constants, ModSmall
  <2> QED
    BY <2>1 DEF Init, Queue
<1>2. Bytes(Queue) = 0
  BY <1>1, BytesEmpty
<1> QED
  BY <1>2 DEF Init, ByteInv, SeenInv, CountInv

(* A step of the TAP thread keeps the counter, unless the scheduler runs   *)
(* while a put is counted.                                                 *)
LEMMA TapBytes ==
  ASSUME IInv, ByteInv, Tap
  PROVE  ByteInv'
<1>0. /\ TypeOK /\ RingInv /\ FramesInv /\ SeenInv /\ CountInv
      /\ readpos \in Cells /\ writepos \in Cells
  BY DEF IInv, ByteInv, TypeOK
<1>a. /\ UNCHANGED <<side, readpos, cut, sched, taken>>
      /\ UNCHANGED <<curr_frame, bytes_sent>>
      /\ sched.pc # "null"
      /\ overlapped' = (overlapped \/ Overlap)
  BY <1>0 DEF Tap, TapStep, TapReceive, TapCheck, TapWrite, TapPublish, TapCount,
              TapStore, cut
<1>b. Bytes(Queue) \in 0 .. UINT - 1
  BY QueueBytes
<1>c. tap \in [pc : {"receive", "check", "write", "publish", "count", "store"},
               frame : Frames \cup {NoFrame}, reg : 0 .. UINT - 1]
  BY <1>0 DEF TypeOK
<1>1. CASE TapReceive
  <2>1. /\ UNCHANGED <<data, writepos, bytes_buffered>>
        /\ tap.pc = "receive" /\ tap'.pc = "check"
    BY <1>1, <1>c DEF TapReceive, TapStep
  <2>2. Queue' = Queue
    BY <1>a, <2>1, QueueUnchanged DEF ring
  <2> QED
    BY <1>0, <1>a, <2>1, <2>2 DEF ByteInv, SeenInv, CountInv, Overlap, IsEmpty, IsFull
<1>2. CASE TapCheck
  <2>1. /\ UNCHANGED <<data, writepos, bytes_buffered>>
        /\ tap.pc = "check"
        /\ tap'.pc = IF IsFull THEN "receive" ELSE "write"
    BY <1>2, <1>c DEF TapCheck, TapStep
  <2>2. Queue' = Queue
    BY <1>a, <2>1, QueueUnchanged DEF ring
  <2> QED
    BY <1>0, <1>a, <2>1, <2>2 DEF ByteInv, SeenInv, CountInv, Overlap, IsEmpty, IsFull
<1>3. CASE TapWrite
  <2>1. Queue' = Queue
    BY <1>3, WriteStep
  <2>2. /\ UNCHANGED <<writepos, bytes_buffered>>
        /\ tap.pc = "write" /\ tap'.pc = "publish"
    BY <1>0, <1>3, <1>c DEF TapWrite, TapStep, SeenInv
  <2> QED
    BY <1>0, <1>a, <2>1, <2>2 DEF ByteInv, SeenInv, CountInv, Overlap, IsEmpty, IsFull
<1>4. CASE TapPublish
  <2>1. /\ UNCHANGED bytes_buffered
        /\ tap.pc = "publish" /\ tap'.pc = "count" /\ tap'.frame = tap.frame
        /\ writepos' = (writepos + 1) % BUF_SIZE
    BY <1>4, <1>c DEF TapPublish, TapStep
  <2>2. tap.frame \in Frames /\ Queue \in Seq(Frames)
    BY <1>0, <2>1 DEF FramesInv
  <2>3. Queue' = Append(Queue, tap.frame)
    BY <1>4, PublishStep
  <2>4. Bytes(Queue') = Bytes(Queue) + tap.frame.size
    BY <2>2, <2>3, BytesAppend
  <2>5. ~IsEmpty'
    BY <1>0, <1>a, <2>1 DEF RingInv, IsEmpty
  <2>6. SeenInv'
    BY <1>0, <1>a, <2>1, <2>5 DEF SeenInv
  <2>7. CountInv'
    <3> SUFFICES ASSUME ~overlapped', ~Overlap'
                 PROVE  Bytes(Queue') = bytes_buffered' + tap'.frame.size
      BY <2>1, <1>a DEF CountInv, Overlap
    <3>1. sched.pc = "wait" /\ ~overlapped /\ ~Overlap
      BY <1>a, <2>1 DEF Overlap
    <3>2. bytes_buffered = Bytes(Queue)
      BY <1>0, <2>1, <3>1 DEF CountInv
    <3> QED
      BY <2>1, <2>4, <3>2
  <2> QED
    BY <2>6, <2>7 DEF ByteInv
<1>5. CASE TapCount
  <2>1. /\ UNCHANGED <<data, writepos, bytes_buffered>>
        /\ tap.pc = "count" /\ tap'.pc = "store"
        /\ tap'.reg = (bytes_buffered + tap.frame.size) % UINT
    BY <1>5, <1>c DEF TapCount, TapStep
  <2>2. Queue' = Queue
    BY <1>a, <2>1, QueueUnchanged DEF ring
  <2>3. SeenInv'
    BY <1>0, <1>a, <2>1 DEF SeenInv, IsEmpty
  <2>4. CountInv'
    <3> SUFFICES ASSUME ~overlapped'
                 PROVE  sched.pc = "wait" /\ Bytes(Queue) = tap'.reg
      BY <2>1, <2>2, <1>a DEF CountInv, Overlap
    <3>1. sched.pc = "wait" /\ ~overlapped /\ ~Overlap
      BY <1>a, <2>1 DEF Overlap
    <3>2. Bytes(Queue) = bytes_buffered + tap.frame.size
      BY <1>0, <2>1, <3>1 DEF CountInv
    <3>3. Bytes(Queue) % UINT = Bytes(Queue)
      BY <1>b, Constants, ModSmall
    <3> QED
      BY <2>1, <3>1, <3>2, <3>3
  <2> QED
    BY <2>3, <2>4 DEF ByteInv
<1>6. CASE TapStore
  <2>1. /\ UNCHANGED <<data, writepos>>
        /\ tap.pc = "store" /\ tap'.pc = "receive"
        /\ bytes_buffered' = tap.reg
    BY <1>6, <1>c DEF TapStore, TapStep
  <2>2. Queue' = Queue
    BY <1>a, <2>1, QueueUnchanged DEF ring
  <2>3. SeenInv'
    BY <1>0, <1>a, <2>1 DEF SeenInv, IsEmpty
  <2>4. CountInv'
    <3> SUFFICES ASSUME ~overlapped'
                 PROVE  sched.pc = "wait" /\ bytes_buffered' = Bytes(Queue)
      BY <2>1, <2>2, <1>a DEF CountInv, Overlap
    <3>1. sched.pc = "wait" /\ ~overlapped /\ ~Overlap
      BY <1>a, <2>1 DEF Overlap
    <3> QED
      BY <1>0, <2>1, <3>1 DEF CountInv
  <2> QED
    BY <2>3, <2>4 DEF ByteInv
<1> QED
  BY <1>1, <1>2, <1>3, <1>4, <1>5, <1>6 DEF Tap

(* The slot's end keeps the scheduler's record in shape.                   *)
LEMMA NextSlotPc ==
  ASSUME NEW s \in SchedType
  PROVE  NextSlot(s).pc \in {"ask", "wait"}
  BY DEF NextSlot, SchedType

(* When data are promised and no frame is being cut, one is in the queue.  *)
LEMMA PromiseKept ==
  ASSUME IInv, ByteInv, ~overlapped, ~Overlap, sched.pc = "ask", HasData,
         curr_frame = NoFrame
  PROVE  ~IsEmpty
<1>1. SeenInv /\ CountInv
  BY DEF ByteInv
<1>2. CASE side = "BS"
  BY <1>2 DEF HasData
<1>3. CASE side # "BS"
  <2>1. tap.pc \notin {"count", "store"}
    BY DEF Overlap
  <2>2. bytes_buffered = Bytes(Queue)
    BY <1>1, <2>1 DEF CountInv
  <2>3. curr_frame.size = 0 /\ bytes_sent = 0
    BY <1>1 DEF SeenInv, NoFrame
  <2>4. (curr_frame.size - bytes_sent + bytes_buffered) % UINT > 0
    BY <1>3 DEF HasData
  <2>5. bytes_buffered \in 0 .. UINT - 1 /\ UINT \in Nat \ {0}
    BY Constants DEF IInv, TypeOK
  <2>6. curr_frame.size - bytes_sent + bytes_buffered = bytes_buffered
    BY <2>3, <2>5
  <2>7. bytes_buffered % UINT = bytes_buffered
    BY <2>5, ModSmall
  <2>8. bytes_buffered # 0
    BY <2>4, <2>5, <2>6, <2>7
  <2> QED
    BY <2>2, <2>8, QueueBytes
<1> QED
  BY <1>2, <1>3

(* A step of the scheduler keeps the counter, unless it runs while a put   *)
(* is counted.                                                             *)
LEMMA SchedBytes ==
  ASSUME IInv, ByteInv, Sched
  PROVE  ByteInv'
<1>0. /\ TypeOK /\ RingInv /\ FramesInv /\ SeenInv /\ CountInv
      /\ readpos \in Cells /\ writepos \in Cells /\ sched \in SchedType
  BY DEF IInv, ByteInv, TypeOK, SchedType
<1>a. /\ UNCHANGED <<side, data, writepos, tap, received>>
      /\ overlapped' = (overlapped \/ Overlap)
  BY <1>0 DEF Sched, SchedStep, SchedStart, SchedAsk, SchedGet, SchedAdvance,
              SchedCount, SchedStore, SchedCut
<1>b. Bytes(Queue) \in 0 .. UINT - 1
  BY QueueBytes
<1>1. CASE SchedStart
  <2>1. /\ UNCHANGED <<readpos, bytes_buffered, cut>>
        /\ sched.pc = "wait" /\ sched'.pc = "ask"
    BY <1>0, <1>1 DEF SchedStart, SchedStep, SchedType
  <2>2. Queue' = Queue
    BY <1>a, <2>1, QueueUnchanged DEF ring
  <2> QED
    BY <1>0, <1>a, <2>1, <2>2 DEF ByteInv, SeenInv, CountInv, Overlap, IsEmpty, IsFull, cut
<1>2. CASE SchedAsk
  <2>1. /\ UNCHANGED <<readpos, bytes_buffered, cut>>
        /\ sched.pc = "ask"
        /\ sched' = IF ~HasData THEN NextSlot(sched)
                    ELSE [sched EXCEPT !.pc = IF curr_frame = NoFrame THEN "get" ELSE "cut"]
    BY <1>2 DEF SchedAsk, SchedStep
  <2>2. Queue' = Queue
    BY <1>a, <2>1, QueueUnchanged DEF ring
  <2>3. /\ sched'.pc \in {"ask", "wait", "get", "cut"}
        /\ sched'.pc = "get" => HasData /\ curr_frame = NoFrame
    <3>1. CASE ~HasData
      BY <1>0, <2>1, <3>1, NextSlotPc
    <3>2. CASE HasData
      BY <1>0, <2>1, <3>2 DEF SchedType
    <3> QED
      BY <3>1, <3>2
  <2>4. ~overlapped' /\ sched'.pc = "get" => ~IsEmpty
    BY <1>a, <2>1, <2>3, PromiseKept
  <2>5. SeenInv'
    BY <1>0, <1>a, <2>1, <2>3, <2>4 DEF SeenInv, IsEmpty, IsFull, cut
  <2>6. CountInv'
    BY <1>0, <1>a, <2>1, <2>2, <2>3 DEF CountInv, Overlap
  <2> QED
    BY <2>5, <2>6 DEF ByteInv
<1>3. CASE SchedGet
  <2>1. /\ UNCHANGED <<readpos, bytes_buffered, cut>>
        /\ sched.pc = "get"
        /\ sched'.pc = IF IsEmpty THEN "null" ELSE "advance"
    BY <1>0, <1>3 DEF SchedGet, SchedStep, SchedType
  <2>2. Queue' = Queue
    BY <1>a, <2>1, QueueUnchanged DEF ring
  <2>3. SeenInv'
    BY <1>0, <1>a, <2>1 DEF SeenInv, IsFull, cut
  <2>4. CountInv'
    BY <1>0, <1>a, <2>1, <2>2 DEF CountInv, Overlap
  <2> QED
    BY <2>3, <2>4 DEF ByteInv
<1>4. CASE SchedAdvance
  <2>1. /\ UNCHANGED <<bytes_buffered, cut>>
        /\ sched.pc = "advance" /\ sched'.pc = "count" /\ sched'.frame = sched.frame
        /\ readpos' = (readpos + 1) % BUF_SIZE
    BY <1>0, <1>4 DEF SchedAdvance, SchedStep, SchedType
  <2>2. Queue \in Seq(Frames) /\ sched.frame \in Frames
    BY <1>0, <2>1 DEF FramesInv
  <2>3. Bytes(Queue) = Bytes(Queue') + sched.frame.size
    BY <1>4, <2>2, AdvanceStep, BytesTail
  <2>4. ~IsFull'
    <3>1. readpos # writepos
      BY <1>0, <2>1 DEF RingInv
    <3> QED
      BY <1>0, <1>a, <2>1, <3>1, NextCellsDiffer DEF IsFull
  <2>5. SeenInv'
    BY <1>0, <1>a, <2>1, <2>4 DEF SeenInv, cut
  <2>6. CountInv'
    <3> SUFFICES ASSUME ~overlapped'
                 PROVE  /\ tap.pc \notin {"count", "store"}
                        /\ bytes_buffered = Bytes(Queue') + sched.frame.size
      BY <1>a, <2>1 DEF CountInv, Overlap
    <3>1. ~overlapped /\ ~Overlap /\ tap.pc \notin {"count", "store"}
      BY <1>a, <2>1 DEF Overlap
    <3>2. bytes_buffered = Bytes(Queue)
      BY <1>0, <2>1, <3>1 DEF CountInv
    <3> QED
      BY <2>3, <3>1, <3>2
  <2> QED
    BY <2>5, <2>6 DEF ByteInv
<1>5. CASE SchedCount
  <2>1. /\ UNCHANGED <<readpos, bytes_buffered, cut>>
        /\ sched.pc = "count" /\ sched'.pc = "store" /\ sched'.reg = Uncounted
    BY <1>0, <1>5 DEF SchedCount, SchedStep, SchedType
  <2>2. Queue' = Queue
    BY <1>a, <2>1, QueueUnchanged DEF ring
  <2>3. SeenInv'
    BY <1>0, <1>a, <2>1 DEF SeenInv, IsFull, cut
  <2>4. CountInv'
    <3> SUFFICES ASSUME ~overlapped'
                 PROVE  tap.pc \notin {"count", "store"} /\ Bytes(Queue) = Uncounted
      BY <1>a, <2>1, <2>2 DEF CountInv, Overlap
    <3>1. ~overlapped /\ ~Overlap /\ tap.pc \notin {"count", "store"}
      BY <1>a, <2>1 DEF Overlap
    <3>2. bytes_buffered = Bytes(Queue) + sched.frame.size
      BY <1>0, <2>1, <3>1 DEF CountInv
    <3>3. sched.frame.size \in Nat
      BY <1>0, <2>1, FrameSize DEF FramesInv
    <3>4. bytes_buffered - sched.frame.size = Bytes(Queue)
      BY <1>b, <3>2, <3>3
    <3>5. Bytes(Queue) % UINT = Bytes(Queue)
      BY <1>b, Constants, ModSmall
    <3> QED
      BY <3>1, <3>4, <3>5 DEF Uncounted
  <2> QED
    BY <2>3, <2>4 DEF ByteInv
<1>6. CASE SchedStore
  <2>1. /\ UNCHANGED readpos
        /\ sched.pc = "store" /\ sched'.pc = "cut"
        /\ bytes_buffered' = sched.reg /\ bytes_sent' = 0
    BY <1>0, <1>6 DEF SchedStore, SchedStep, SchedType
  <2>2. Queue' = Queue
    BY <1>a, <2>1, QueueUnchanged DEF ring
  <2>3. SeenInv'
    BY <1>0, <1>a, <2>1 DEF SeenInv, IsFull
  <2>4. CountInv'
    <3> SUFFICES ASSUME ~overlapped'
                 PROVE  tap.pc \notin {"count", "store"} /\ bytes_buffered' = Bytes(Queue)
      BY <1>a, <2>1, <2>2 DEF CountInv, Overlap
    <3>1. ~overlapped /\ ~Overlap /\ tap.pc \notin {"count", "store"}
      BY <1>a, <2>1 DEF Overlap
    <3> QED
      BY <1>0, <2>1, <3>1 DEF CountInv
  <2> QED
    BY <2>3, <2>4 DEF ByteInv
<1>7. CASE SchedCut
  <2>1. /\ UNCHANGED <<readpos, bytes_buffered>>
        /\ sched.pc = "cut" /\ sched'.pc \in {"ask", "wait"}
    BY <1>0, <1>7, NextSlotPc DEF SchedCut, SchedStep
  <2>2. Queue' = Queue
    BY <1>a, <2>1, QueueUnchanged DEF ring
  <2>3. curr_frame' = NoFrame => bytes_sent' = 0
    <3>1. curr_frame # NoFrame
      BY <1>0, <2>1, NoFrameIsNone DEF FramesInv
    <3> QED
      BY <1>7, <3>1 DEF SchedCut
  <2>4. SeenInv'
    BY <1>0, <1>a, <2>1, <2>3 DEF SeenInv, IsFull
  <2>5. CountInv'
    BY <1>0, <1>a, <2>1, <2>2 DEF CountInv, Overlap
  <2> QED
    BY <2>4, <2>5 DEF ByteInv
<1> QED
  BY <1>1, <1>2, <1>3, <1>4, <1>5, <1>6, <1>7 DEF Sched

LEMMA StepBytes == IInv /\ ByteInv /\ [Next]_vars => ByteInv'
<1> SUFFICES ASSUME IInv, ByteInv, [Next]_vars PROVE ByteInv'
  OBVIOUS
<1>1. CASE UNCHANGED vars
  <2>1. Queue' = Queue
    BY <1>1, QueueUnchanged DEF vars
  <2> QED
    BY <1>1, <2>1 DEF ByteInv, SeenInv, CountInv, Overlap, IsEmpty, IsFull, vars, ring, cut
<1> QED
  BY <1>1, TapBytes, SchedBytes DEF Next

(* The counter that both threads write without a lock is right, and the    *)
(* scheduler finds the frame it has been promised, for every size of ring  *)
(* and frames and every order of the steps, as long as no run of the       *)
(* scheduler has fallen between a put and its count                        *)
(* (mac_frag_add_frame and mac_frag_get_fragment).                         *)
THEOREM CounterExact == Spec => []ExactUnlessOverlapped
<1>1. ByteInv => ExactUnlessOverlapped
  <2> SUFFICES ASSUME ByteInv, ~overlapped
               PROVE  /\ sched.pc # "null"
                      /\ tap.pc \notin {"count", "store"}
                         /\ sched.pc \notin {"count", "store"}
                           => bytes_buffered = Bytes(Queue)
    BY DEF ExactUnlessOverlapped
  <2>1. tap.pc \notin {"count", "store"} => ~Overlap
    BY DEF Overlap
  <2> QED
    BY <2>1 DEF ByteInv, SeenInv, CountInv
<1> QED
  BY <1>1, InitBytes, StepBytes, RingInvariant, PTL DEF Spec
===========================================================================
