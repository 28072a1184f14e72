---------------------------- MODULE MacSession ----------------------------
(***************************************************************************)
(* Sessions: how clients are given user ids, and how both sides take them  *)
(* back.  The base station (mac_bs.c, phy_bs.c) and the clients (mac_ue.c, *)
(* phy_ue.c) go through a subframe together: a run of the base station's   *)
(* scheduler puts a row on the air, then each client receives what it can  *)
(* of it, runs its own scheduler, and transmits.  Every slot, in either    *)
(* direction, may be lost.                                                 *)
(*                                                                         *)
(* The clients take their turns in one order: what one does concerns the   *)
(* others only through what the base station receives, and two requests    *)
(* for random access, or two slots of one id, interfere: one is lost, or   *)
(* both.  A message is what it does: those that neither answer a request   *)
(* nor end a session only take room in a user's queue.                     *)
(*                                                                         *)
(* Ages of timestamps stand for the subframe counters, from which they are *)
(* subtracted; those beyond the timer are alike.  Sessions are numbered.   *)
(***************************************************************************)
EXTENDS Integers, Sequences

CONSTANTS
  NumClients,
  MAX_USER,
  RachIds,                (* the random ids a client draws from            *)
  TMR_USER_INACTIVE,      (* in subframes                                  *)
  MAC_CTRL_MSG_BUF_SIZE,  (* capacity of the queues of control messages    *)
  MaxSessions,            (* bound: users added in all                     *)
  MaxTries                (* requests beyond are counted no further; the   *)
                          (* byte on the air turns over at 256             *)

ASSUME SessionAssumption ==
  /\ NumClients \in Nat \ {0}
  /\ MAX_USER \in Nat /\ MAX_USER >= 3
  /\ RachIds \subseteq Nat
  /\ TMR_USER_INACTIVE \in Nat
  /\ MAC_CTRL_MSG_BUF_SIZE \in Nat \ {0}
  /\ MaxSessions \in Nat /\ MaxTries \in Nat \ {0}

Clients == 1 .. NumClients
Ids == 2 .. MAX_USER - 1         (* without USER_UNUSED, USER_BROADCAST    *)
NoId == -1
NoUE == [session |-> 0]
Responses == [rach : RachIds, id : Ids, session : 1 .. MaxSessions]
        \cup [rach : RachIds, id : {0}, session : {0}]       (* the NAK    *)

VARIABLES
  UE,                    (* base station: the user of each id, or NoUE     *)
  broadcast_ctrl_queue,  (* responses not sent yet                         *)
  last_added,            (* last_added_userid, last_added_rachuserid       *)
  row,                   (* the subframe on the air                        *)
  ra_open,               (* PHY: this random access slot can take a request*)
  turn,                  (* the client that handles the row, 0 for none    *)
  ue,                    (* the clients                                    *)
  owners                 (* history: whose request began each session, 0   *)
                         (* when that client has had an answer since       *)

bs == <<UE, broadcast_ctrl_queue, last_added, ra_open, owners>>
vars == <<bs, row, turn, ue>>

SilentRow == [dl |-> {}, ended |-> {}, brcst |-> FALSE, responses |-> <<>>,
              users |-> {}, ra |-> FALSE]

Init ==
  /\ UE = [u \in Ids |-> NoUE]
  /\ broadcast_ctrl_queue = <<>>
  /\ last_added = [id |-> NoId, rach |-> NoId]
  /\ row = SilentRow
  /\ ra_open = FALSE
  /\ turn = 0
  /\ ue = [c \in Clients |-> [is_associated |-> FALSE, userid |-> NoId,
                              rachuserid |-> NoId, rach_try_cnt |-> 0,
                              idle |-> 0, session |-> 0]]
  /\ owners = <<>>

InUse == {u \in Ids : UE[u] # NoUE}

(* An age of one subframe more.                                            *)
Older(age) == IF age > TMR_USER_INACTIVE THEN age ELSE age + 1

---------------------------------------------------------------------------
(* The base station's run. *)

(* A message is put in the queue of a user.                                *)
Put(user) ==
  IF user.queue < MAC_CTRL_MSG_BUF_SIZE THEN [user EXCEPT !.queue = @ + 1] ELSE user

(* mac_bs_detect_inactive_users: a user silent for too long is told that   *)
(* its session ends, if there is room in its queue.                        *)
DetectInactive(user) ==
  IF user.age > TMR_USER_INACTIVE
  THEN IF Put(user) # user
       THEN [Put(user) EXCEPT !.will_end = TRUE, !.ending = TRUE]
       ELSE [user EXCEPT !.will_end = TRUE]
  ELSE user

(* mac_bs_map_slot: a downlink slot takes all messages of a user's queue.  *)
MapSlot(user) == [user EXCEPT !.queue = 0, !.ending = FALSE]

(* Changed form: a user is removed although its queue is not empty.        *)
RemovesAtOnce(user) == user.will_end

(* mac_bs_remove_inactive_users.                                           *)
Removes(user) == user.will_end /\ user.queue = 0

(* A user after the run, with or without a downlink slot, and with or      *)
(* without a message of another kind that is put in its queue until the    *)
(* next one.                                                               *)
AfterRun(user, served, other) ==
  LET left == IF served THEN MapSlot(DetectInactive(user)) ELSE DetectInactive(user)
      older == [left EXCEPT !.age = Older(@)]
  IN  IF Removes(left) THEN NoUE ELSE IF other THEN Put(older) ELSE older

(* mac_bs_run_scheduler as far as sessions go: who gets slots is open, but *)
(* that responses go out with the next row.  Downlink slots with data only *)
(* are left out: to a session they are like those with other messages.  Of *)
(* the uplink the row says who may be assigned a slot.                     *)
BsRun ==
  /\ turn = 0
  /\ turn' = 1
  /\ \E dl \in SUBSET {u \in InUse : DetectInactive(UE[u]).queue > 0},
        brcst, ra \in BOOLEAN, other \in InUse \cup {NoId} :
       /\ broadcast_ctrl_queue # <<>> => brcst
       /\ row' = [dl |-> dl, brcst |-> brcst, responses |-> broadcast_ctrl_queue,
                  ended |-> {u \in dl : DetectInactive(UE[u]).ending},
                  users |-> InUse, ra |-> ra]
       /\ ra_open' = ra
       /\ UE' = [u \in Ids |-> IF UE[u] = NoUE THEN NoUE
                                ELSE AfterRun(UE[u], u \in dl, u = other)]
  /\ broadcast_ctrl_queue' = <<>>
  /\ UNCHANGED <<last_added, ue, owners>>

---------------------------------------------------------------------------
(* What the base station does with what a client transmits. *)

Respond(response) ==
  broadcast_ctrl_queue' =
    IF Len(broadcast_ctrl_queue) < MAC_CTRL_MSG_BUF_SIZE
    THEN Append(broadcast_ctrl_queue, response) ELSE broadcast_ctrl_queue

(* Changed form: the retry counter is not looked at.                       *)
IsRepeatedNever(rach, try) == FALSE

(* A request is taken for one of the user added last.                      *)
IsRepeated(rach, try) ==
  /\ try > 0
  /\ last_added.rach = rach
  /\ UE[last_added.id] # NoUE

(* mac_bs_add_new_ue: the request (rach, try) of c.                        *)
AddNewUe(c, rach, try) ==
  \/ /\ IsRepeated(rach, try)
     /\ Respond([rach |-> rach, id |-> last_added.id,
                 session |-> UE[last_added.id].session])
     /\ UNCHANGED <<UE, last_added, owners>>
  \/ /\ ~IsRepeated(rach, try)
     /\ InUse = Ids
     /\ Respond([rach |-> rach, id |-> 0, session |-> 0])
     /\ UNCHANGED <<UE, last_added, owners>>
  \/ /\ ~IsRepeated(rach, try)
     /\ Len(owners) < MaxSessions
     /\ \E id \in Ids \ InUse :
          /\ \A other \in Ids \ InUse : id <= other
          /\ UE' = [UE EXCEPT ![id] =
                      [session |-> Len(owners) + 1, age |-> 0, will_end |-> FALSE,
                       queue |-> 0, ending |-> FALSE]]
          /\ last_added' = [id |-> id, rach |-> rach]
          /\ Respond([rach |-> rach, id |-> id, session |-> Len(owners) + 1])
          /\ owners' = Append(owners, c)

(* phy_bs_proc_rach: a request is received, the only one of this slot.     *)
RxRach(c, rach, try) ==
  /\ ra_open
  /\ ra_open' = FALSE
  /\ AddNewUe(c, rach, try)

(* mac_bs_rx_channel: the user of a slot has been heard; a slot of a user  *)
(* that has been removed is not decoded.                                   *)
RxChannel(id) ==
  UE' = [UE EXCEPT ![id] = IF @ = NoUE THEN NoUE ELSE [@ EXCEPT !.age = 0]]

---------------------------------------------------------------------------
(* A client's subframe. *)

(* mac_ue_rx_channel: any slot restarts the timer, right or wrong.         *)
SlotNoted(client) ==
  IF client.is_associated THEN [client EXCEPT !.idle = 0] ELSE client

(* A unicast slot with the end of the session.  The timer and the number   *)
(* of the session mean nothing until the next one, which sets them.        *)
Dissociated(client) ==
  [client EXCEPT !.is_associated = FALSE, !.idle = 0, !.session = 0]

EndSession(client) == [Dissociated(client) EXCEPT !.userid = NoId]

(* Changed form: the random id of a response is not compared.              *)
ConcernsAny(response, client) == ~client.is_associated

Concerns(response, client) ==
  ~client.is_associated /\ response.rach = client.rachuserid

(* The association responses of a broadcast slot: the first that concerns  *)
(* the client and is none of a full base station counts.                   *)
TakeResponses(client) ==
  LET usable == {i \in 1 .. Len(row.responses) :
                   Concerns(row.responses[i], client) /\ row.responses[i].id # 0}
  IN  IF usable = {} THEN client
      ELSE LET r == row.responses[CHOOSE i \in usable : \A j \in usable : i <= j]
           IN  [client EXCEPT !.is_associated = TRUE, !.rach_try_cnt = 0,
                              !.userid = r.id, !.session = r.session]

(* Changed form: the timer is restarted in every run.                      *)
AfterTimerRestarts(client, assigned) == [client EXCEPT !.idle = 0]

(* The timer of mac_ue_run_scheduler: the client that has been assigned no *)
(* slot for too long ends the session, but keeps the user id.              *)
AfterTimer(client, assigned) ==
  IF ~client.is_associated THEN client
  ELSE IF client.idle > TMR_USER_INACTIVE THEN Dissociated(client)
  ELSE [client EXCEPT !.idle = IF assigned THEN Older(0) ELSE Older(@)]

(* phy_ue_create_assoc_request: a new attempt begins with a new random id. *)
NextRequest(client, rach) ==
  [client EXCEPT !.rachuserid = rach,
                 !.rach_try_cnt = IF @ = MaxTries THEN @ ELSE @ + 1]

(* The downlink slots of the row that a client decodes.                    *)
SlotsFor(client) == {s \in {"own", "brcst"} :
                       IF s = "own" THEN client.userid \in row.dl ELSE row.brcst}

(* A client after the row's slots and its own scheduler: dlctrl is whether *)
(* the control channel was received, and decoded are the slots without a   *)
(* wrong CRC.                                                              *)
AfterSubframe(me, dlctrl, decoded, assigned) ==
  LET noted == IF dlctrl /\ SlotsFor(me) # {} THEN SlotNoted(me) ELSE me
      ended == IF "own" \in decoded /\ me.userid \in row.ended
               THEN EndSession(noted) ELSE noted
      answered == IF "brcst" \in decoded THEN TakeResponses(ended) ELSE ended
  IN  AfterTimer(answered, assigned)

(* It transmits in the slots of its id if it is associated, or else in the *)
(* random access slot if there is one.                                     *)
Transmit(c, after, assigned) ==
  \/ /\ after.is_associated
     /\ ue' = [ue EXCEPT ![c] = after]
     /\ owners' = [s \in DOMAIN owners |-> IF owners[s] = c THEN 0 ELSE owners[s]]
     /\ UNCHANGED UE \/ (assigned /\ RxChannel(ue[c].userid))
     /\ UNCHANGED <<broadcast_ctrl_queue, last_added, ra_open>>
  \/ /\ ~after.is_associated
     /\ ~row.ra
     /\ ue' = [ue EXCEPT ![c] = after]
     /\ UNCHANGED bs
  \/ /\ ~after.is_associated
     /\ row.ra
     /\ \E rach \in IF after.rach_try_cnt = 0 THEN RachIds ELSE {after.rachuserid} :
          /\ ue' = [ue EXCEPT ![c] = NextRequest(after, rach)]
          /\ \/ UNCHANGED bs
             \/ RxRach(c, rach, after.rach_try_cnt)

ClientSubframe(c) ==
  /\ turn = c
  /\ turn' = IF c < NumClients THEN c + 1 ELSE 0
  /\ row' = IF c < NumClients THEN row ELSE SilentRow
  /\ \E dlctrl \in BOOLEAN :
     \E assigned \in IF dlctrl /\ ue[c].userid \in row.users THEN BOOLEAN ELSE {FALSE},
        decoded \in SUBSET IF dlctrl THEN SlotsFor(ue[c]) ELSE {} :
       Transmit(c, AfterSubframe(ue[c], dlctrl, decoded, assigned), assigned)

Next == BsRun \/ \E c \in Clients : ClientSubframe(c)

(* Subframes follow each other, whatever is received.                      *)
Spec == Init /\ [][Next]_vars /\ WF_vars(Next)

---------------------------------------------------------------------------
User == [session : 1 .. MaxSessions, age : 0 .. TMR_USER_INACTIVE + 1,
         will_end : BOOLEAN, queue : 0 .. MAC_CTRL_MSG_BUF_SIZE, ending : BOOLEAN]
Client == [is_associated : BOOLEAN, userid : Ids \cup {NoId},
           rachuserid : RachIds \cup {NoId}, rach_try_cnt : 0 .. MaxTries,
           idle : 0 .. TMR_USER_INACTIVE + 1, session : 0 .. MaxSessions]

TypeOK ==
  /\ UE \in [Ids -> User \cup {NoUE}]
  /\ broadcast_ctrl_queue \in Seq(Responses)
  /\ Len(broadcast_ctrl_queue) <= MAC_CTRL_MSG_BUF_SIZE
  /\ \/ last_added = [id |-> NoId, rach |-> NoId]
     \/ last_added \in [id : Ids, rach : RachIds]
  /\ row.dl \cup row.users \subseteq Ids /\ row.ended \subseteq row.dl
  /\ row.responses \in Seq(Responses)
  /\ ra_open \in BOOLEAN
  /\ turn \in 0 .. NumClients
  /\ ue \in [Clients -> Client]
  /\ owners \in Seq(Clients \cup {0}) /\ Len(owners) <= MaxSessions

(* Two clients that take themselves for the user of one session.           *)
Shares(c, d) ==
  /\ c # d
  /\ ue[c].is_associated /\ ue[d].is_associated
  /\ ue[c].session = ue[d].session

(* The random id is all that tells clients apart during random access: two *)
(* that are in one session have drawn the same.                            *)
SharedOnlyByTwins ==
  \A c, d \in Clients : Shares(c, d) => ue[c].rachuserid = ue[d].rachuserid

(* A client that repeats its request because the answer was lost does not  *)
(* take a second user id, unless the request of another client was         *)
(* answered in between.                                                    *)
OneUserPerAttempt ==
  \A c \in Clients : \A u, v \in InUse :
    LET s == UE[u].session
        t == UE[v].session
    IN  s < t /\ owners[s] = c /\ owners[t] = c
          => \E between \in s + 1 .. t - 1 : owners[between] # c

(* No user is removed unheard: it has been sent the end of its session,    *)
(* unless there was no room in its queue for the message.                  *)
RemovedIsTold ==
  [][\A u \in Ids : UE[u] # NoUE /\ UE'[u] = NoUE =>
       \/ u \in row'.ended
       \/ UE[u].queue = MAC_CTRL_MSG_BUF_SIZE /\ ~UE[u].ending]_vars

(* A client whose user is gone.                                            *)
Stale(c) ==
  /\ ue[c].is_associated
  /\ \/ UE[ue[c].userid] = NoUE
     \/ UE[ue[c].userid].session # ue[c].session

(* A client whose user has been removed finds out by itself, or goes on    *)
(* hearing slots: broadcasts, or those of the next user of the id.         *)
StaleNotices ==
  \A c \in Clients :
    []<>(\/ ~Stale(c)
         \/ row.brcst
         \/ ue[c].userid \in row.users)
===========================================================================
