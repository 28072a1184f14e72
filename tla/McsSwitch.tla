---------------------------- MODULE McsSwitch ----------------------------
(***************************************************************************)
(* Changes of modulation (MCS): mac_bs_set_mcs, mac_bs_handle_control_ack  *)
(* and mac_bs_process_mcs_change at the base station, mac_ue_handle_message*)
(* and mac_ue_req_mcs_change at the client, for one user.                  *)
(*                                                                         *)
(* A slot that is sent in one modulation and received in another is lost,  *)
(* and every slot may be.  The client asks for changes, and acknowledges   *)
(* the orders it gets.  The base station uses a new downlink modulation    *)
(* when it is acknowledged, a new uplink modulation at once, and repeats   *)
(* an order until the acknowledgment or for MAX_RESPONSE_TIME subframes.   *)
(* The control slot of the uplink always has the lowest modulation.        *)
(***************************************************************************)
EXTENDS Integers, Sequences, SequencesExt

CONSTANTS
  MAX_USER,
  NUM_MCS_SCHEMES,
  MAX_RESPONSE_TIME,      (* subframes                                     *)
  MAC_CTRL_MSG_BUF_SIZE,  (* messages a queue holds, and one               *)
  MaxDlGap,               (* subframes a user with messages waits for a    *)
                          (* downlink slot, at most                        *)
  MaxUlGap,               (* subframes between two control slots, at most  *)
  MaxAssociations         (* bound: associations                           *)

ASSUME McsAssumption ==
  /\ MAX_USER \in Nat /\ MAX_USER >= 3
  /\ NUM_MCS_SCHEMES \in Nat /\ NUM_MCS_SCHEMES >= 2
  /\ MAX_RESPONSE_TIME \in Nat
  /\ MAC_CTRL_MSG_BUF_SIZE \in Nat /\ MAC_CTRL_MSG_BUF_SIZE >= 3
  /\ MaxDlGap \in Nat /\ MaxUlGap \in Nat
  /\ MaxAssociations \in Nat \ {0}

Schemes == 0 .. NUM_MCS_SCHEMES - 1
DL == "dl"
UL == "ul"
Directions == {DL, UL}

(* mcs_change_req, dl_mcs_info or ul_mcs_info, control_ack.                *)
Messages == [type : {"req", "info", "ack"}, dir : Directions, mcs : Schemes]

VARIABLES
  userid,
  user,       (* base station: modulations, pending changes, queue         *)
  ue,         (* client: modulations, queue                                *)
  turn,       (* who is next in the subframe                               *)
  sinceDl,    (* subframes the user's messages have waited                 *)
  sinceUl,    (* subframes since the last control slot                     *)
  lost,       (* history: a slot has been lost in this session             *)
  associations  (* history: how many                                       *)

mcsVars == <<userid, user, ue, turn, sinceDl, sinceUl, lost, associations>>

(* timer: 0 for none, or subframes to go until the change has expired.     *)
NewUser == [mcs |-> [d \in Directions |-> 0], pending |-> [d \in Directions |-> 0],
            timer |-> [d \in Directions |-> 0], queue |-> <<>>]

Req(dir, mcs)  == [type |-> "req", dir |-> dir, mcs |-> mcs]
Info(dir, mcs) == [type |-> "info", dir |-> dir, mcs |-> mcs]
Ack(dir)       == [type |-> "ack", dir |-> dir, mcs |-> 0]

(* Changed form: ringbuf_put does not look whether there is room.          *)
PutAnyway(queue, msg) == Append(queue, msg)

Put(queue, msg) ==
  IF Len(queue) < MAC_CTRL_MSG_BUF_SIZE - 1 THEN Append(queue, msg) ELSE queue
IsPut(queue) == Len(queue) < MAC_CTRL_MSG_BUF_SIZE - 1

(* The requests of thread_mac_ue_scheduler: none for modulation 0.         *)
Requests(ul, dl) ==
  (IF ul > 0 THEN <<Req(UL, ul)>> ELSE <<>>) \o (IF dl > 0 THEN <<Req(DL, dl)>> ELSE <<>>)

McsInit ==
  /\ userid \in {2, MAX_USER - 1}
  /\ user = NewUser
  /\ \E ul, dl \in Schemes :
       ue = [mcs |-> [d \in Directions |-> 0],
             queue |-> Requests(ul, dl)]
  /\ turn = "bs"
  /\ sinceDl = 0 /\ sinceUl = 0
  /\ lost = FALSE
  /\ associations = 1

---------------------------------------------------------------------------
(* The base station. *)

(* Changed form: the downlink too is switched at once.                     *)
SetMcsAtOnce(u, dir, mcs) ==
  IF ~IsPut(u.queue) THEN u
  ELSE [u EXCEPT !.queue = Put(@, Info(dir, mcs)), !.pending[dir] = u.mcs[dir],
                 !.mcs[dir] = mcs, !.timer[dir] = MAX_RESPONSE_TIME + 2]

(* mac_bs_set_mcs: pending is the new downlink or the old uplink scheme.   *)
SetMcs(u, dir, mcs) ==
  IF ~IsPut(u.queue) THEN u
  ELSE [u EXCEPT !.queue = Put(@, Info(dir, mcs)),
                 !.pending[dir] = IF dir = DL THEN mcs ELSE u.mcs[UL],
                 !.mcs[dir] = IF dir = DL THEN @ ELSE mcs,
                 !.timer[dir] = MAX_RESPONSE_TIME + 2]

(* mac_bs_handle_control_ack.                                              *)
HandleControlAck(u, dir) ==
  [u EXCEPT !.mcs[dir] = IF dir = DL THEN u.pending[DL] ELSE @,
            !.timer[dir] = 0]

BsHandleMessage(u, msg) ==
  CASE msg.type = "req" -> SetMcs(u, msg.dir, msg.mcs)
    [] msg.type = "ack" -> HandleControlAck(u, msg.dir)

(* One direction of mac_bs_process_mcs_change: a change is repeated, or    *)
(* has expired and is cancelled.                                           *)
ProcessChange(u, dir) ==
  CASE u.timer[dir] = 0 -> u
    [] u.timer[dir] = 1 -> [u EXCEPT !.timer[dir] = 0,
                                     !.mcs[dir] = IF dir = UL THEN u.pending[UL] ELSE @]
    [] u.timer[dir] > 1 ->
         [u EXCEPT !.queue = Put(@, Info(dir, IF dir = UL THEN u.mcs[UL] ELSE u.pending[DL])),
                   !.timer[dir] = @ - 1]

(* Changed form: all users are gone through but the first and the last.    *)
IsProcessedBetween(id) == id > 2 /\ id < MAX_USER - 1

(* The loop of mac_bs_process_mcs_change leaves out the last user.         *)
IsProcessed(id) == id < MAX_USER - 1

ProcessMcsChange(u) ==
  IF IsProcessed(userid) THEN ProcessChange(ProcessChange(u, DL), UL) ELSE u

---------------------------------------------------------------------------
(* Changed form: both orders are taken for the downlink.                   *)
UeHandleMessageDl(c, msg) ==
  IF ~IsPut(c.queue) THEN c
  ELSE [c EXCEPT !.queue = Put(@, Ack(msg.dir)), !.mcs[DL] = msg.mcs]

(* The client: mac_ue_handle_message.  What it cannot acknowledge it does  *)
(* not do.                                                                 *)
UeHandleMessage(c, msg) ==
  IF ~IsPut(c.queue) THEN c
  ELSE [c EXCEPT !.queue = Put(@, Ack(msg.dir)), !.mcs[msg.dir] = msg.mcs]

---------------------------------------------------------------------------
(* A run of the base station's scheduler, and the slot that it gives the   *)
(* user, if any, with all messages: sent in the modulation of the moment.  *)
BsRun ==
  /\ turn = "bs"
  /\ turn' = "ue"
  /\ LET u == ProcessMcsChange(user)
     IN  \/ /\ u.queue = <<>> \/ sinceDl < MaxDlGap
            /\ user' = u
            /\ sinceDl' = IF u.queue = <<>> THEN 0 ELSE sinceDl + 1
            /\ UNCHANGED <<ue, lost>>
         \/ /\ u.queue # <<>>
            /\ user' = [u EXCEPT !.queue = <<>>]
            /\ sinceDl' = 0
            /\ \/ ue' = ue /\ lost' = TRUE
               \/ /\ ue' = IF ue.mcs[DL] = u.mcs[DL]
                           THEN FoldLeft(UeHandleMessage, ue, u.queue) ELSE ue
                  /\ UNCHANGED lost
  /\ UNCHANGED <<userid, sinceUl, associations>>

(* The messages at the head of the client's queue are in a slot; those are *)
(* received, or the slot is lost.                                          *)
Send(n, received) ==
  /\ ue' = [ue EXCEPT !.queue = SubSeq(@, n + 1, Len(@))]
  /\ \/ user' = user /\ lost' = (lost \/ n > 0)
     \/ /\ user' = IF received THEN FoldLeft(BsHandleMessage, user, SubSeq(ue.queue, 1, n))
                   ELSE user
        /\ UNCHANGED lost

(* A run of the client's scheduler: with a control slot, which takes a few *)
(* messages, or a data slot, which takes all of them, or none.             *)
UeRun ==
  /\ turn = "ue"
  /\ turn' = "bs"
  /\ \/ /\ sinceUl < MaxUlGap
        /\ sinceUl' = sinceUl + 1
        /\ UNCHANGED <<user, ue, lost>>
     \/ /\ sinceUl < MaxUlGap
        /\ sinceUl' = sinceUl + 1
        /\ ue.queue # <<>>
        /\ Send(Len(ue.queue), ue.mcs[UL] = user.mcs[UL])
     \/ /\ sinceUl' = 0
        /\ \E n \in {k \in {1, 2, Len(ue.queue)} : k <= Len(ue.queue)} : Send(n, TRUE)
     \/ /\ sinceUl' = 0
        /\ ue.queue = <<>>
        /\ UNCHANGED <<user, ue, lost>>
  /\ UNCHANGED <<userid, sinceDl, associations>>

(* The session ends and another begins: the user is new, and the client    *)
(* begins with modulation 0, but its queue has what it had.                *)
Associate ==
  /\ associations < MaxAssociations
  /\ associations' = associations + 1
  /\ user' = NewUser
  /\ ue' = [ue EXCEPT !.mcs = [d \in Directions |-> 0]]
  /\ lost' = FALSE
  /\ sinceDl' = 0
  /\ UNCHANGED <<userid, turn, sinceUl>>

McsNext == BsRun \/ UeRun \/ Associate

(* Subframes follow each other, whatever is received.                      *)
McsSpec == McsInit /\ [][McsNext]_mcsVars /\ WF_mcsVars(BsRun \/ UeRun)

---------------------------------------------------------------------------
McsTypeOK ==
  /\ userid \in {2, MAX_USER - 1}
  /\ user.mcs \in [Directions -> Schemes] /\ user.pending \in [Directions -> Schemes]
  /\ user.timer \in [Directions -> 0 .. MAX_RESPONSE_TIME + 2]
  /\ ue.mcs \in [Directions -> Schemes]
  /\ \A queue \in {user.queue, ue.queue} :
       queue \in Seq(Messages) /\ Len(queue) < MAC_CTRL_MSG_BUF_SIZE
  /\ turn \in {"bs", "ue"}
  /\ sinceDl \in 0 .. MaxDlGap /\ sinceUl \in 0 .. MaxUlGap
  /\ lost \in BOOLEAN /\ associations \in 1 .. MaxAssociations

Agree(dir) == user.mcs[dir] = ue.mcs[dir]

(* The base station never sends in a modulation that the client has not    *)
(* been told of and switched to: a client that is still on the old one     *)
(* hears the next order.  It listens in another modulation than the client *)
(* sends in only as long as it can take the change back.  (Modulation 0 is *)
(* left out: the client may have switched to what has expired.)            *)
FollowsClient ==
  /\ user.mcs[DL] # 0 => Agree(DL)
  /\ user.mcs[UL] # 0 => Agree(UL) \/ user.timer[UL] > 0

(* Nothing that could change a modulation is under way.                    *)
Settled ==
  /\ user.timer = [d \in Directions |-> 0]
  /\ user.queue = <<>>
  /\ ue.queue = <<>>

(* When a change has come to its end and no slot has been lost on the air, *)
(* both sides use the same modulations: repetitions, acknowledgments and   *)
(* expiry do not get in each other's way, and a slot sent in the wrong     *)
(* modulation meanwhile does no lasting harm.  (When all acknowledgments   *)
(* are lost the client is left with what the base station has cancelled,   *)
(* until a new session.)                                                   *)
AgreeUnlessLost == Settled /\ ~lost => \A dir \in Directions : Agree(dir)

(* A change comes to its end, acknowledged or cancelled, for all users     *)
(* that mac_bs_process_mcs_change looks after.                             *)
ChangeEnds ==
  \A dir \in Directions : user.timer[dir] > 0 /\ userid # MAX_USER - 1 ~> user.timer[dir] = 0
===========================================================================
