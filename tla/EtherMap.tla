----------------------------- MODULE EtherMap -----------------------------
(***************************************************************************)
(* The base station's users and its address table, mac_bs.c, under the     *)
(* four threads that use them without a lock:                              *)
(*   - the receive thread, on a processor of its own, adds users;          *)
(*   - the scheduler ends sessions and removes users with their entries;   *)
(*     it cuts in on both of the following, and they never on it;          *)
(*   - the slot thread handles what users send, and enters the addresses   *)
(*     that frames come from;                                              *)
(*   - the TAP thread, which runs only while the slot thread has nothing   *)
(*     to do, looks up who is sent a frame of the network.                 *)
(*                                                                         *)
(* An address is what strncmp compares of it: two that are alike up to a   *)
(* byte 0 are one.  Sessions are numbered.  A walk through the list of     *)
(* entries is one step, and so is all that a run of the scheduler does.    *)
(***************************************************************************)
EXTENDS Integers

CONSTANTS
  Clients,
  Ids,          (* the user ids, without USER_UNUSED and USER_BROADCAST    *)
  Addrs,        (* ethernet addresses                                      *)
  Behind,       (* the addresses behind each client                        *)
  MaxSessions,  (* bound: users added                                      *)
  MaxFaults     (* bound: sessions lost while both sides keep them         *)

ASSUME EtherMapAssumption ==
  /\ Ids \subseteq Nat \ {0}
  /\ Behind \in [Clients -> SUBSET Addrs]
  /\ MaxSessions \in Nat /\ MaxFaults \in Nat

NoUE == [session |-> 0]
NoEntry == [userid |-> 0]
Idle == [at |-> "idle", userid |-> 0]
NoId == [id |-> 0, session |-> 0]

VARIABLES
  UE,          (* the user of each id, or NoUE                             *)
  map,         (* etheraddr_map: the entry of each address, or NoEntry     *)
  last_added,  (* last_added_userid, and the client that asked for it      *)
  adding,      (* the id whose user has no last_seen yet, or 0             *)
  slot,        (* slot thread: the data message in hand                    *)
  tap,         (* TAP thread: the frame in hand                            *)
  client,      (* the id and the session that each client believes in      *)
  up,          (* the base station has not crashed                         *)
  sessions,    (* history: users added                                     *)
  faults       (* history: sessions lost while both sides keep them        *)

vars == <<UE, map, last_added, adding, slot, tap, client, up, sessions, faults>>

Init ==
  /\ UE = [u \in Ids |-> NoUE]
  /\ map = [a \in Addrs |-> NoEntry]
  /\ last_added = [id |-> 0]
  /\ adding = 0
  /\ slot = Idle /\ tap = Idle
  /\ client = [c \in Clients |-> NoId]
  /\ up = TRUE
  /\ sessions = 0 /\ faults = 0

InUse == {u \in Ids : UE[u] # NoUE}
Believes(c, u) == client[c].id = u /\ u \in InUse /\ client[c].session = UE[u].session

---------------------------------------------------------------------------
(* The receive thread: mac_bs_add_new_ue. *)

(* The answer reaches the client, or not.                                  *)
Answer(c, u, session) ==
  \/ client' = [client EXCEPT ![c] = [id |-> u, session |-> session]]
  \/ UNCHANGED client

(* A repeated request of the client that was added last.                   *)
AnswerAgain(c) ==
  /\ up /\ adding = 0
  /\ client[c] = NoId
  /\ last_added.id \in InUse /\ last_added.client = c
  /\ client' = [client EXCEPT ![c] = [id |-> last_added.id,
                                      session |-> UE[last_added.id].session]]
  /\ UNCHANGED <<UE, map, last_added, adding, slot, tap, up, sessions, faults>>

(* The user is in the table with all fields 0, also last_seen: more than   *)
(* TMR_USER_INACTIVE subframes ago.  missed is a history: it was not heard *)
(* for that long, or the scheduler ran before last_seen was set.           *)
CreateUe(c) ==
  /\ up /\ adding = 0
  /\ client[c] = NoId
  /\ sessions < MaxSessions
  /\ \E id \in Ids \ InUse :
       /\ \A other \in Ids \ InUse : id <= other
       /\ UE' = [UE EXCEPT ![id] = [session |-> sessions + 1, silent |-> TRUE,
                   will_end |-> FALSE, queued |-> FALSE, missed |-> FALSE]]
       /\ adding' = id
       /\ last_added' = [id |-> id, client |-> c]
  /\ sessions' = sessions + 1
  /\ UNCHANGED <<map, slot, tap, client, up, faults>>

(* Changed form: last_seen stays 0.                                        *)
InitUeUnseen ==
  /\ up /\ adding # 0
  /\ adding' = 0
  /\ IF adding \in InUse
       THEN Answer(last_added.client, adding, UE[adding].session) /\ up' = TRUE
       ELSE up' = FALSE /\ UNCHANGED client
  /\ UNCHANGED <<UE, map, last_added, slot, tap, sessions, faults>>

(* The fields are set, and the answer is queued; a user that the scheduler *)
(* has removed already is written through a null pointer.                  *)
InitUe ==
  /\ up /\ adding # 0
  /\ adding' = 0
  /\ IF adding \in InUse
       THEN /\ UE' = [UE EXCEPT ![adding].silent = FALSE]
            /\ Answer(last_added.client, adding, UE[adding].session)
            /\ up' = TRUE
       ELSE up' = FALSE /\ UNCHANGED <<UE, client>>
  /\ UNCHANGED <<map, last_added, slot, tap, sessions, faults>>

---------------------------------------------------------------------------
(* The scheduler. *)

(* TMR_USER_INACTIVE subframes pass in which nothing is heard of a user:   *)
(* no client sends under its id, or what it sends is lost.                 *)
Unheard(u) ==
  /\ up /\ u \in InUse \ {adding} /\ ~UE[u].silent
  /\ \/ /\ \A c \in Clients : client[c].id # u
        /\ slot.userid # u
        /\ UNCHANGED faults
     \/ faults < MaxFaults /\ faults' = faults + 1
  /\ UE' = [UE EXCEPT ![u].silent = TRUE, ![u].missed = TRUE]
  /\ UNCHANGED <<map, last_added, adding, slot, tap, client, up, sessions>>

(* mac_bs_detect_inactive_users: the message of the session's end is put   *)
(* in the queue, or the queue is full.                                     *)
DetectInactive(user) ==
  IF user.silent THEN [user EXCEPT !.will_end = TRUE, !.queued = TRUE] ELSE user

(* A user after the run, with or without a downlink slot.                  *)
AfterRun(user, served) ==
  LET detected == DetectInactive(user)
  IN  IF served THEN [detected EXCEPT !.queued = FALSE] ELSE detected

Ran(u, served) == [AfterRun(UE[u], u \in served) EXCEPT !.missed = @ \/ u = adding]

Removes(user) == user.will_end /\ ~user.queued
Gone(served) == {u \in InUse : Removes(Ran(u, served))}

(* Changed forms: the first entry found, or none, is removed.              *)
RemoveEntriesFirst(gone) ==
  LET mine == {a \in Addrs : map[a].userid \in gone}
  IN  map' = [a \in Addrs |-> IF mine # {} /\ a = CHOOSE b \in mine : TRUE
                              THEN NoEntry ELSE map[a]]
RemoveEntriesNone(gone) == map' = map

(* mac_bs_remove_inactive_users: the entries of a user go with it.         *)
RemoveEntries(gone) ==
  map' = [a \in Addrs |-> IF map[a].userid \in gone THEN NoEntry ELSE map[a]]

(* mac_bs_run_scheduler as far as it concerns the table, with downlink     *)
(* slots for the users served.                                             *)
RunScheduler(served) ==
  /\ up
  /\ UE' = [u \in Ids |-> IF u \in InUse \ Gone(served) THEN Ran(u, served) ELSE NoUE]
  /\ RemoveEntries(Gone(served))
  /\ tap' = IF tap.userid \in Gone(served)
            THEN [tap EXCEPT !.overtaken = TRUE] ELSE tap
  /\ UNCHANGED <<last_added, adding, slot, client, up, sessions, faults>>

---------------------------------------------------------------------------
(* The slot thread: mac_bs_handle_message with the end of a frame. *)

(* A frame from the address a behind the client c, in a slot of the user   *)
(* whose id the client has: the user exists, and the frame is complete.    *)
RxSlot(c, a) ==
  /\ up /\ slot = Idle
  /\ client[c].id \in InUse /\ a \in Behind[c]
  /\ slot' = [at |-> "user", userid |-> client[c].id,
              session |-> client[c].session, addr |-> a]
  /\ UNCHANGED <<UE, map, last_added, adding, tap, client, up, sessions, faults>>

(* Changed form: one address of a user is enough.                          *)
SearchSrcUser ==
  /\ up /\ slot.at = "user"
  /\ slot' = [slot EXCEPT !.at =
       IF \E a \in Addrs : map[a].userid = slot.userid THEN "done" ELSE "absent"]
  /\ UNCHANGED <<UE, map, last_added, adding, tap, client, up, sessions, faults>>

SearchSrc ==
  /\ up /\ slot.at = "user"
  /\ slot' = [slot EXCEPT !.at = IF map[slot.addr] # NoEntry THEN "done" ELSE "absent"]
  /\ UNCHANGED <<UE, map, last_added, adding, tap, client, up, sessions, faults>>

(* given is a history: the id belonged to another session already.         *)
AddEntry ==
  /\ up /\ slot.at = "absent"
  /\ map' = [map EXCEPT ![slot.addr] =
               [userid |-> slot.userid, session |-> slot.session,
                given |-> UE[slot.userid].session # slot.session]]
  /\ slot' = [slot EXCEPT !.at = "done"]
  /\ UNCHANGED <<UE, last_added, adding, tap, client, up, sessions, faults>>

(* The end of mac_bs_rx_channel: the user has been heard, or is gone and   *)
(* written through a null pointer.                                         *)
RxChannelEnd ==
  /\ up /\ slot.at = "done"
  /\ up' = (slot.userid \in InUse)
  /\ UE' = IF up' THEN [UE EXCEPT ![slot.userid].silent = FALSE] ELSE UE
  /\ slot' = Idle
  /\ UNCHANGED <<map, last_added, adding, tap, client, sessions, faults>>

SlotThread == SearchSrc \/ AddEntry \/ RxChannelEnd

---------------------------------------------------------------------------
(* The TAP thread: mac_bs_tap_rx_th and mac_bs_add_txdata, for frames that *)
(* are not broadcast.  overtaken is a history: the scheduler has removed   *)
(* the user since.                                                         *)
TapFind(a) ==
  /\ up /\ slot = Idle /\ tap = Idle
  /\ map[a] # NoEntry
  /\ tap' = [at |-> "found", userid |-> map[a].userid, session |-> 0,
             entry |-> map[a], overtaken |-> FALSE]
  /\ UNCHANGED <<UE, map, last_added, adding, slot, client, up, sessions, faults>>

(* A frame for a user that does not exist any more is dropped.             *)
TapCheck ==
  /\ up /\ slot = Idle /\ tap.at = "found"
  /\ tap' = IF tap.userid \in InUse
            THEN [tap EXCEPT !.at = "adding", !.session = UE[tap.userid].session]
            ELSE Idle
  /\ UNCHANGED <<UE, map, last_added, adding, slot, client, up, sessions, faults>>

(* The frame is put in the fragmenter that has been looked up; when that   *)
(* has been freed, the base station may crash.                             *)
TapAdd ==
  /\ up /\ slot = Idle /\ tap.at = "adding"
  /\ tap' = Idle
  /\ up' \in IF UE[tap.userid].session = tap.session THEN {TRUE} ELSE BOOLEAN
  /\ UNCHANGED <<UE, map, last_added, adding, slot, client, sessions, faults>>

---------------------------------------------------------------------------
(* The clients: a session is over when the base station says so, or by     *)
(* the client's timer when its user is gone; or it is restarted.           *)
SessionOver(c) == Believes(c, client[c].id) => UE[client[c].id].will_end
EndSession(c) ==
  /\ up /\ client[c] # NoId
  /\ \/ SessionOver(c) /\ UNCHANGED faults
     \/ faults < MaxFaults /\ faults' = faults + 1
  /\ client' = [client EXCEPT ![c] = NoId]
  /\ UNCHANGED <<UE, map, last_added, adding, slot, tap, up, sessions>>

Next ==
  \/ \E c \in Clients : AnswerAgain(c) \/ CreateUe(c) \/ EndSession(c)
  \/ InitUe
  \/ \E u \in Ids : Unheard(u)
  \/ \E served \in SUBSET InUse : RunScheduler(served)
  \/ \E c \in Clients : \E a \in Behind[c] : RxSlot(c, a)
  \/ SlotThread
  \/ \E a \in Addrs : TapFind(a)
  \/ TapCheck \/ TapAdd

(* Threads go on; users that are silent are noticed, and every user with   *)
(* messages is served; clients whose user is gone notice; and every        *)
(* address keeps sending.                                                  *)
Fairness ==
  /\ WF_vars(InitUe) /\ WF_vars(SlotThread)
  /\ \A u \in Ids :
       /\ WF_vars((\A c \in Clients : client[c].id # u) /\ Unheard(u))
       /\ WF_vars(\E served \in SUBSET InUse : u \in served /\ RunScheduler(served))
  /\ \A c \in Clients :
       /\ WF_vars(SessionOver(c) /\ EndSession(c))
       /\ \A a \in Behind[c] : SF_vars(RxSlot(c, a))

Spec == Init /\ [][Next]_vars /\ Fairness

---------------------------------------------------------------------------
Sessions == 1 .. MaxSessions
User == [session : Sessions, silent : BOOLEAN, will_end : BOOLEAN,
         queued : BOOLEAN, missed : BOOLEAN]
Entry == [userid : Ids, session : Sessions, given : BOOLEAN]
DataMessage == [at : {"user", "absent", "done"}, userid : Ids,
                session : Sessions, addr : Addrs]
TapFrame == [at : {"found", "adding"}, userid : Ids, session : 0 .. MaxSessions,
             entry : Entry, overtaken : BOOLEAN]

TypeOK ==
  /\ UE \in [Ids -> User \cup {NoUE}]
  /\ map \in [Addrs -> Entry \cup {NoEntry}]
  /\ last_added = [id |-> 0] \/ last_added \in [id : Ids, client : Clients]
  /\ adding \in Ids \cup {0}
  /\ slot \in DataMessage \cup {Idle}
  /\ tap \in TapFrame \cup {Idle}
  /\ client \in [Clients -> [id : Ids, session : Sessions] \cup {NoId}]
  /\ up \in BOOLEAN
  /\ sessions \in 0 .. MaxSessions /\ faults \in 0 .. MaxFaults

(* An entry is of the session in which its address was heard, and goes     *)
(* with it (mac_bs.c line 416: "remove entries from etheraddr_map          *)
(* belonging to userid"): unless the slot thread added it after the id had *)
(* been given to another session, or after the user was removed, and is    *)
(* about to crash.                                                         *)
EntriesBelong ==
  up => \A a \in Addrs : map[a] # NoEntry =>
    \/ UE[map[a].userid].session = map[a].session
    \/ map[a].given /\ map[a].userid \in InUse
    \/ slot.at = "done" /\ slot.addr = a

(* A frame is queued for the session in which its address was heard,       *)
(* unless the entry was of an id given to another, or the scheduler has    *)
(* removed the user while the TAP thread had it.                           *)
QueuedWhereHeard ==
  tap.at = "adding" =>
    \/ tap.session = tap.entry.session
    \/ tap.entry.given
    \/ tap.overtaken

(* No session is ended that has not missed anything ("users which did not  *)
(* answer to any slot assignments for some time", mac_bs.c line 386):      *)
(* unless the scheduler ran while the user was being added.                *)
EndedHasMissed ==
  \A u \in InUse : UE[u].will_end => UE[u].missed

(* An address that is behind one client alone, and stays heard while the   *)
(* client keeps its session, is entered for that session in the end: or    *)
(* it stays entered for a session of another client, whose id the client   *)
(* had, for as long as that lasts.                                         *)
Relearned ==
  \A c \in Clients : \A a \in Behind[c] :
    (\A d \in Clients \ {c} : a \notin Behind[d]) =>
      (<>[](up /\ Believes(c, client[c].id)) =>
         <>[](/\ map[a] # NoEntry
              /\ map[a].given \/ map[a].session = client[c].session))
===========================================================================
