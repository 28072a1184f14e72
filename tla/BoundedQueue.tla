--------------------------- MODULE BoundedQueue ---------------------------
(***************************************************************************)
(* What ringbuf promises its two threads: a queue.  What has been put is   *)
(* got once, in the order of the puts, and never more than Capacity items  *)
(* are in between.                                                         *)
(***************************************************************************)
EXTENDS Naturals, Sequences

CONSTANTS Items, Capacity

VARIABLES
  queue,   (* put and not got                                              *)
  got      (* all that has been got                                        *)

Init == queue = <<>> /\ got = <<>>

Put(item) ==
  /\ Len(queue) < Capacity
  /\ queue' = Append(queue, item)
  /\ UNCHANGED got

Get ==
  /\ queue # <<>>
  /\ queue' = Tail(queue)
  /\ got' = Append(got, Head(queue))

Next == Get \/ \E item \in Items : Put(item)

Spec == Init /\ [][Next]_<<queue, got>>
===========================================================================
