-------------------------- MODULE EtherMap_proofs -------------------------
(***************************************************************************)
(* The base station's users.  For any number of clients, ids and           *)
(* addresses: type correctness, and the safety properties of EtherMap.     *)
(* For any number of modulations, any queues, gaps and losses: those of    *)
(* McsSwitch.                                                              *)
(***************************************************************************)
EXTENDS EtherMap, McsSwitch, SequenceTheorems, WellFoundedInduction, TLAPS

(* Sessions begin with 1: a user that is not there is of none.             *)
LEMMA InUseHasSession ==
  ASSUME TypeOK
  PROVE  /\ \A u \in Ids : u \in InUse <=> UE[u].session # 0
         /\ \A u \in InUse : UE[u] \in User
         /\ \A u \in Ids : UE[u].session \in 0 .. MaxSessions
<1>1. \A u \in Ids : UE[u] \in User \/ UE[u] = NoUE
  BY DEF TypeOK
<1>2. \A x \in User : x.session \in 1 .. MaxSessions /\ x.session # 0
  BY EtherMapAssumption DEF User, Sessions
<1>3. NoUE.session = 0 /\ 0 \in 0 .. MaxSessions
  BY EtherMapAssumption DEF NoUE
<1>4. NoUE \notin User
  BY <1>2, <1>3
<1>5. \A u \in Ids : u \in InUse <=> UE[u] # NoUE
  BY DEF InUse
<1>6. \A u \in Ids : u \in InUse <=> UE[u] \in User
  BY <1>1, <1>4, <1>5
<1>7. 1 .. MaxSessions \subseteq 0 .. MaxSessions
  BY EtherMapAssumption
<1>8. \A u \in InUse : u \in Ids
  BY DEF InUse
<1> QED
  BY <1>1, <1>2, <1>3, <1>5, <1>6, <1>7, <1>8

(* What a run makes of a user.                                             *)
LEMMA RanType ==
  ASSUME TypeOK, NEW served, NEW u \in InUse
  PROVE  /\ Ran(u, served) \in User
         /\ Ran(u, served).session = UE[u].session
         /\ Ran(u, served).silent = UE[u].silent
         /\ Ran(u, served).missed = (UE[u].missed \/ u = adding)
         /\ Ran(u, served).will_end = (UE[u].will_end \/ UE[u].silent)
<1>1. UE[u] \in [session : Sessions, silent : BOOLEAN, will_end : BOOLEAN,
                 queued : BOOLEAN, missed : BOOLEAN]
  BY InUseHasSession DEF User
<1>2. CASE UE[u].silent /\ u \in served
  BY <1>1, <1>2 DEF Ran, AfterRun, DetectInactive, User
<1>3. CASE UE[u].silent /\ u \notin served
  BY <1>1, <1>3 DEF Ran, AfterRun, DetectInactive, User
<1>4. CASE ~UE[u].silent /\ u \in served
  BY <1>1, <1>4 DEF Ran, AfterRun, DetectInactive, User
<1>5. CASE ~UE[u].silent /\ u \notin served
  BY <1>1, <1>5 DEF Ran, AfterRun, DetectInactive, User
<1> QED
  BY <1>2, <1>3, <1>4, <1>5

---------------------------------------------------------------------------
(* Type correctness. *)

LEMMA IdsNotZero == 0 \notin Ids /\ Idle \notin TapFrame /\ Idle \notin DataMessage
<1>1. 0 \notin Ids
  BY EtherMapAssumption
<1>2. Idle.userid = 0
  BY DEF Idle
<1> QED
  BY <1>1, <1>2 DEF TapFrame, DataMessage

LEMMA RunSchedulerType ==
  ASSUME TypeOK, NEW served \in SUBSET InUse, RunScheduler(served)
  PROVE  TypeOK'
<1> USE DEF RunScheduler
<1>1. UE' \in [Ids -> User \cup {NoUE}]
  BY RanType
<1>2. map' \in [Addrs -> Entry \cup {NoEntry}]
  BY DEF RemoveEntries, TypeOK
<1>3. tap' \in TapFrame \cup {Idle}
  <2>1. CASE tap.userid \in Gone(served)
    <3>1. tap \in TapFrame
      BY <2>1, IdsNotZero DEF TypeOK, Gone, InUse, Idle
    <3> QED
      BY <3>1, <2>1 DEF TapFrame
  <2>2. CASE tap.userid \notin Gone(served)
    BY <2>2 DEF TypeOK
  <2> QED
    BY <2>1, <2>2
<1> QED
  BY <1>1, <1>2, <1>3 DEF TypeOK

LEMMA CreateUeType ==
  ASSUME TypeOK, NEW c \in Clients, CreateUe(c)
  PROVE  TypeOK'
<1>1. PICK id \in Ids \ InUse :
        /\ UE' = [UE EXCEPT ![id] = [session |-> sessions + 1, silent |-> TRUE,
                     will_end |-> FALSE, queued |-> FALSE, missed |-> FALSE]]
        /\ adding' = id
        /\ last_added' = [id |-> id, client |-> c]
  BY DEF CreateUe
<1>2. sessions + 1 \in Sessions /\ sessions' \in 0 .. MaxSessions
  BY EtherMapAssumption DEF CreateUe, TypeOK, Sessions
<1>3. UE' \in [Ids -> User \cup {NoUE}]
  BY <1>1, <1>2 DEF TypeOK, User
<1> QED
  BY <1>1, <1>2, <1>3 DEF CreateUe, TypeOK

LEMMA ClientType ==
  ASSUME TypeOK, NEW c \in Clients, AnswerAgain(c) \/ EndSession(c)
  PROVE  TypeOK'
<1>1. CASE AnswerAgain(c)
  <2>1. last_added.id \in Ids /\ UE[last_added.id].session \in Sessions
    BY <1>1, InUseHasSession DEF AnswerAgain, InUse, User
  <2> QED
    BY <2>1, <1>1 DEF AnswerAgain, TypeOK
<1>2. CASE EndSession(c)
  BY <1>2, EtherMapAssumption DEF EndSession, TypeOK
<1> QED
  BY <1>1, <1>2

LEMMA InitUeType ==
  ASSUME TypeOK, InitUe
  PROVE  TypeOK'
<1>1. CASE adding \in InUse
  <2>1. UE[adding] \in User /\ adding \in Ids
    BY <1>1, InUseHasSession DEF InUse
  <2>2. [UE[adding] EXCEPT !.silent = FALSE] \in User /\ UE[adding].session \in Sessions
    BY <2>1 DEF User
  <2>3. UE' = [UE EXCEPT ![adding].silent = FALSE] /\ up' = TRUE
    BY <1>1 DEF InitUe
  <2>4. UE' \in [Ids -> User \cup {NoUE}]
    BY <2>1, <2>2, <2>3 DEF TypeOK
  <2>5. last_added.client \in Clients \/ client' = client
    BY <1>1 DEF InitUe, Answer, TypeOK
  <2>6. client' \in [Clients -> [id : Ids, session : Sessions] \cup {NoId}]
    BY <1>1, <2>1, <2>2 DEF InitUe, Answer, TypeOK
  <2> QED
    BY <2>3, <2>4, <2>6 DEF InitUe, TypeOK
<1>2. CASE adding \notin InUse
  BY <1>2 DEF InitUe, TypeOK
<1> QED
  BY <1>1, <1>2

LEMMA UnheardType ==
  ASSUME TypeOK, NEW u \in Ids, Unheard(u)
  PROVE  TypeOK'
<1>1. UE[u] \in User
  BY InUseHasSession DEF Unheard
<1>2. [UE[u] EXCEPT !.silent = TRUE, !.missed = TRUE] \in User
  BY <1>1 DEF User
<1>3. UE' \in [Ids -> User \cup {NoUE}]
  BY <1>2 DEF Unheard, TypeOK
<1>4. faults' \in 0 .. MaxFaults
  BY EtherMapAssumption DEF Unheard, TypeOK
<1> QED
  BY <1>3, <1>4 DEF Unheard, TypeOK

LEMMA SlotThreadType ==
  ASSUME TypeOK, SlotThread
  PROVE  TypeOK'
<1>0. slot \in DataMessage
  BY DEF SlotThread, SearchSrc, AddEntry, RxChannelEnd, TypeOK, Idle
<1>1. CASE SearchSrc
  BY <1>0, <1>1 DEF SearchSrc, TypeOK, DataMessage
<1>2. CASE AddEntry
  <2>1. slot.userid \in Ids /\ slot.session \in Sessions /\ slot.addr \in Addrs
    BY <1>0 DEF DataMessage
  <2>2. slot' \in DataMessage
    BY <1>0, <1>2 DEF AddEntry, DataMessage
  <2>3. [userid |-> slot.userid, session |-> slot.session,
         given |-> UE[slot.userid].session # slot.session] \in Entry
    BY <2>1 DEF Entry
  <2>4. map' \in [Addrs -> Entry \cup {NoEntry}]
    BY <1>2, <2>1, <2>3 DEF AddEntry, TypeOK
  <2> QED
    BY <1>2, <2>2, <2>4 DEF AddEntry, TypeOK
<1>3. CASE RxChannelEnd
  <2>1. up' \in BOOLEAN /\ slot' = Idle
    BY <1>3 DEF RxChannelEnd
  <2>2. UE' \in [Ids -> User \cup {NoUE}]
    <3>1. CASE slot.userid \in InUse
      <4>1. UE[slot.userid] \in User /\ [UE[slot.userid] EXCEPT !.silent = FALSE] \in User
        BY <3>1, InUseHasSession DEF User
      <4>2. UE' = [UE EXCEPT ![slot.userid].silent = FALSE]
        BY <1>3, <3>1 DEF RxChannelEnd
      <4> QED
        BY <4>1, <4>2 DEF TypeOK
    <3>2. CASE slot.userid \notin InUse
      BY <1>3, <3>2 DEF RxChannelEnd, TypeOK
    <3> QED
      BY <3>1, <3>2
  <2> QED
    BY <1>3, <2>1, <2>2 DEF RxChannelEnd, TypeOK
<1> QED
  BY <1>1, <1>2, <1>3 DEF SlotThread

LEMMA RxSlotType ==
  ASSUME TypeOK, NEW c \in Clients, NEW a \in Behind[c], RxSlot(c, a)
  PROVE  TypeOK'
<1>1. a \in Addrs
  BY EtherMapAssumption
<1>2. client[c] \in [id : Ids, session : Sessions]
  BY IdsNotZero DEF RxSlot, TypeOK, InUse, NoId
<1>3. slot' \in DataMessage
  BY <1>1, <1>2 DEF RxSlot, DataMessage
<1> QED
  BY <1>3 DEF RxSlot, TypeOK

LEMMA TapType ==
  ASSUME TypeOK, TapCheck \/ TapAdd \/ \E a \in Addrs : TapFind(a)
  PROVE  TypeOK'
<1>1. CASE TapCheck
  <2>1. tap \in TapFrame
    BY <1>1 DEF TapCheck, TypeOK, Idle
  <2>2. tap.userid \in Ids /\ UE[tap.userid].session \in 0 .. MaxSessions
    BY <2>1, InUseHasSession DEF TapFrame
  <2>3. tap' \in TapFrame \cup {Idle}
    BY <1>1, <2>1, <2>2 DEF TapCheck, TapFrame
  <2> QED
    BY <1>1, <2>3 DEF TapCheck, TypeOK
<1>2. CASE TapAdd
  BY <1>2 DEF TapAdd, TypeOK
<1>3. ASSUME NEW a \in Addrs, TapFind(a) PROVE TypeOK'
  <2>1. map[a] \in Entry /\ map[a].userid \in Ids /\ 0 \in 0 .. MaxSessions
    BY <1>3, EtherMapAssumption DEF TapFind, TypeOK, Entry
  <2>2. tap' \in TapFrame
    BY <1>3, <2>1 DEF TapFind, TapFrame
  <2> QED
    BY <1>3, <2>2 DEF TapFind, TypeOK
<1> QED
  BY <1>1, <1>2, <1>3

LEMMA NextType == TypeOK /\ [Next]_vars => TypeOK'
<1> SUFFICES ASSUME TypeOK, [Next]_vars PROVE TypeOK'
  OBVIOUS
<1>1. CASE UNCHANGED vars
  BY <1>1 DEF vars, TypeOK
<1>2. CASE Next
  BY <1>2, RunSchedulerType, CreateUeType, ClientType, InitUeType, UnheardType,
     SlotThreadType, RxSlotType, TapType DEF Next
<1> QED
  BY <1>1, <1>2

LEMMA InitType == Init => TypeOK
BY EtherMapAssumption DEF Init, TypeOK, Idle, NoUE, NoEntry, NoId

(* Every reachable state is well typed.                                    *)
THEOREM TypeCorrect == Spec => []TypeOK
BY InitType, NextType, PTL DEF Spec

---------------------------------------------------------------------------
(* The inductive invariant.  An entry of another session than its user's   *)
(* was given, and its user exists or the slot thread is about to crash;    *)
(* the same holds of the entry that the TAP thread has found, unless it    *)
(* was overtaken; and who is silent has missed something, or is the user   *)
(* that is being added.                                                    *)
EntryInv ==
  up => \A a \in Addrs : map[a] # NoEntry =>
    \/ UE[map[a].userid].session = map[a].session
    \/ /\ map[a].given
       /\ \/ map[a].userid \in InUse
          \/ slot.at = "done" /\ slot.addr = a /\ slot.userid = map[a].userid
TapInv ==
  /\ tap.at = "found" =>
       /\ tap.userid = tap.entry.userid
       /\ \/ UE[tap.userid].session = tap.entry.session
          \/ tap.entry.given
          \/ tap.overtaken
  /\ QueuedWhereHeard
MissedInv ==
  \A u \in InUse : /\ UE[u].silent => UE[u].missed \/ u = adding
                   /\ UE[u].will_end => UE[u].missed
IInv == TypeOK /\ EntryInv /\ TapInv /\ MissedInv

LEMMA InUseIff == TypeOK => \A u \in Ids : u \in InUse <=> UE[u].session # 0
BY InUseHasSession

(* Steps that create and remove no user.                                   *)
LEMMA UsersKept ==
  ASSUME TypeOK,
         \/ InitUe \/ SlotThread \/ TapCheck \/ TapAdd
         \/ \E c \in Clients : AnswerAgain(c) \/ EndSession(c)
         \/ \E c \in Clients : \E a \in Behind[c] : RxSlot(c, a)
         \/ \E u \in Ids : Unheard(u)
         \/ \E a \in Addrs : TapFind(a)
  PROVE  /\ \A u \in Ids : UE'[u].session = UE[u].session
         /\ InUse' = InUse
<1>0. \A u \in InUse : UE[u] \in User /\ u \in Ids
  BY InUseHasSession DEF InUse
<1>1. \/ UE' = UE
      \/ \E u \in InUse : \/ UE' = [UE EXCEPT ![u].silent = FALSE]
                          \/ UE' = [UE EXCEPT ![u].silent = TRUE, ![u].missed = TRUE]
  BY DEF InitUe, SlotThread, SearchSrc, AddEntry, RxChannelEnd, TapCheck, TapAdd,
     AnswerAgain, EndSession, RxSlot, Unheard, TapFind
<1>2. ASSUME NEW u \in InUse,
             \/ UE' = [UE EXCEPT ![u].silent = FALSE]
             \/ UE' = [UE EXCEPT ![u].silent = TRUE, ![u].missed = TRUE]
      PROVE  \A w \in Ids : UE'[w].session = UE[w].session
  <2>1. UE[u] \in User /\ u \in Ids
    BY <1>0
  <2>2. UE'[u].session = UE[u].session
    BY <1>2, <2>1 DEF User, TypeOK
  <2>3. \A w \in Ids : w # u => UE'[w] = UE[w]
    BY <1>2 DEF TypeOK
  <2> QED
    BY <2>2, <2>3
<1>3. \A u \in Ids : UE'[u].session = UE[u].session
  BY <1>1, <1>2
<1>4. TypeOK'
  BY InitUeType, SlotThreadType, TapType, ClientType, RxSlotType, UnheardType
<1>5. \A u \in Ids : u \in InUse <=> UE[u].session # 0
  BY InUseHasSession
<1>6. (TypeOK => \A u \in Ids : u \in InUse <=> UE[u].session # 0)'
  BY InUseIff, PTL
<1>7. InUse \subseteq Ids /\ InUse' \subseteq Ids
  BY DEF InUse
<1> QED
  BY <1>3, <1>4, <1>5, <1>6, <1>7

---------------------------------------------------------------------------
(* Entries. *)

(* A user that is created has the id of none: what there is in its name    *)
(* was given.                                                              *)
LEMMA CreateUeUsers ==
  ASSUME TypeOK, NEW c \in Clients, CreateUe(c)
  PROVE  \E id \in Ids \ InUse :
           /\ adding' = id
           /\ InUse' = InUse \cup {id}
           /\ UE'[id] = [session |-> sessions + 1, silent |-> TRUE,
                         will_end |-> FALSE, queued |-> FALSE, missed |-> FALSE]
           /\ \A u \in Ids \ {id} : UE'[u] = UE[u]
<1>1. PICK id \in Ids \ InUse :
        /\ UE' = [UE EXCEPT ![id] = [session |-> sessions + 1, silent |-> TRUE,
                     will_end |-> FALSE, queued |-> FALSE, missed |-> FALSE]]
        /\ adding' = id
  BY DEF CreateUe
<1>2. UE'[id] = [session |-> sessions + 1, silent |-> TRUE,
                 will_end |-> FALSE, queued |-> FALSE, missed |-> FALSE]
  BY <1>1 DEF TypeOK
<1>3. \A u \in Ids \ {id} : UE'[u] = UE[u]
  BY <1>1 DEF TypeOK
<1>4. UE'[id].session # 0
  BY <1>2, EtherMapAssumption DEF TypeOK
<1>5. UE'[id] # NoUE
  BY <1>4 DEF NoUE
<1>6. InUse' = InUse \cup {id}
  BY <1>3, <1>5 DEF InUse
<1> QED
  BY <1>1, <1>2, <1>3, <1>6

(* The users that a run leaves.                                            *)
LEMMA RunUsers ==
  ASSUME TypeOK, NEW served \in SUBSET InUse, RunScheduler(served)
  PROVE  /\ InUse' = InUse \ Gone(served)
         /\ \A u \in InUse' : UE'[u] = Ran(u, served) /\ UE'[u].session = UE[u].session
         /\ \A u \in Ids \ InUse' : UE'[u].session = 0
<1>1. \A u \in Ids : UE'[u] = IF u \in InUse \ Gone(served) THEN Ran(u, served) ELSE NoUE
  BY DEF RunScheduler
<1>2. \A u \in InUse : Ran(u, served) \in User /\ Ran(u, served).session = UE[u].session
  BY RanType
<1>3. NoUE \notin User
  BY EtherMapAssumption DEF NoUE, User, Sessions
<1>4. InUse' = InUse \ Gone(served)
  BY <1>1, <1>2, <1>3 DEF InUse
<1> QED
  BY <1>1, <1>2, <1>4 DEF InUse, NoUE

LEMMA EntrySessions ==
  ASSUME TypeOK, NEW a \in Addrs, map[a] # NoEntry
  PROVE  map[a] \in Entry /\ map[a].userid \in Ids /\ map[a].session # 0
BY EtherMapAssumption DEF TypeOK, Entry, Sessions

(* Steps that change neither the entries nor the message in hand, and end  *)
(* no user.                                                                *)
LEMMA EntryKept ==
  ASSUME TypeOK, EntryInv, up' => up,
         map' = map,
         slot.at = "done" => slot' = slot,
         \A u \in InUse : UE'[u].session = UE[u].session,
         InUse \subseteq InUse'
  PROVE  EntryInv'
<1> SUFFICES ASSUME up', NEW a \in Addrs, map[a] # NoEntry
             PROVE  \/ UE'[map[a].userid].session = map[a].session
                    \/ /\ map[a].given
                       /\ \/ map[a].userid \in InUse'
                          \/ slot'.at = "done" /\ slot'.addr = a
                             /\ slot'.userid = map[a].userid
  BY DEF EntryInv
<1>1. map[a].userid \in Ids /\ map[a].session # 0
  BY EntrySessions
<1>2. map[a].userid \notin InUse => UE[map[a].userid].session # map[a].session
  BY <1>1, InUseHasSession
<1> QED
  BY <1>1, <1>2 DEF EntryInv

LEMMA AddEntryEntry ==
  ASSUME TypeOK, EntryInv, AddEntry
  PROVE  EntryInv'
<1>1. slot \in DataMessage
  BY DEF AddEntry, TypeOK, Idle
<1>2. slot.addr \in Addrs /\ slot.userid \in Ids /\ slot'.at = "done"
      /\ slot'.addr = slot.addr /\ slot'.userid = slot.userid
  BY <1>1 DEF AddEntry, DataMessage
<1>3. /\ map'[slot.addr] = [userid |-> slot.userid, session |-> slot.session,
                            given |-> UE[slot.userid].session # slot.session]
      /\ \A a \in Addrs \ {slot.addr} : map'[a] = map[a]
  BY <1>2 DEF AddEntry, TypeOK
<1>4. UE' = UE /\ InUse' = InUse /\ up' = up /\ slot.at # "done"
  BY DEF AddEntry, InUse
<1>5. UE[slot.userid].session = map'[slot.addr].session \/ map'[slot.addr].given
  <2>1. /\ map'[slot.addr].session = slot.session
        /\ map'[slot.addr].given = (UE[slot.userid].session # slot.session)
    BY <1>3
  <2> QED
    BY <2>1
<1>6. map'[slot.addr].userid = slot.userid
  BY <1>3
<1> SUFFICES ASSUME up', NEW a \in Addrs, map'[a] # NoEntry
             PROVE  \/ UE'[map'[a].userid].session = map'[a].session
                    \/ /\ map'[a].given
                       /\ \/ map'[a].userid \in InUse'
                          \/ slot'.at = "done" /\ slot'.addr = a
                             /\ slot'.userid = map'[a].userid
  BY DEF EntryInv
<1>7. CASE a = slot.addr
  BY <1>2, <1>4, <1>5, <1>6, <1>7
<1>8. CASE a # slot.addr
  BY <1>3, <1>4, <1>8 DEF EntryInv
<1> QED
  BY <1>7, <1>8

LEMMA RxChannelEndEntry ==
  ASSUME TypeOK, EntryInv, RxChannelEnd
  PROVE  EntryInv'
<1> SUFFICES ASSUME up', NEW a \in Addrs, map[a] # NoEntry
             PROVE  \/ UE'[map[a].userid].session = map[a].session
                    \/ map[a].given /\ map[a].userid \in InUse'
  BY DEF EntryInv, RxChannelEnd
<1>1. map[a].userid \in Ids
  BY EntrySessions
<1>2. slot.userid \in InUse /\ up
  BY DEF RxChannelEnd
<1>3. UE'[map[a].userid].session = UE[map[a].userid].session /\ InUse' = InUse
  BY <1>1, UsersKept DEF SlotThread
<1> QED
  BY <1>2, <1>3 DEF EntryInv

LEMMA RunSchedulerEntry ==
  ASSUME TypeOK, EntryInv, NEW served \in SUBSET InUse, RunScheduler(served)
  PROVE  EntryInv'
<1> SUFFICES ASSUME NEW a \in Addrs, map'[a] # NoEntry
             PROVE  \/ UE'[map'[a].userid].session = map'[a].session
                    \/ /\ map'[a].given
                       /\ \/ map'[a].userid \in InUse'
                          \/ slot'.at = "done" /\ slot'.addr = a
                             /\ slot'.userid = map'[a].userid
  BY DEF EntryInv
<1>1. map'[a] = map[a] /\ map[a].userid \notin Gone(served)
  BY DEF RunScheduler, RemoveEntries
<1>2. map[a].userid \in Ids /\ map[a].session # 0
  BY <1>1, EntrySessions
<1>3. up /\ slot' = slot
  BY DEF RunScheduler
<1>4. CASE map[a].userid \in InUse
  BY <1>1, <1>3, <1>4, RunUsers DEF EntryInv
<1>5. CASE map[a].userid \notin InUse
  BY <1>1, <1>2, <1>3, <1>5, InUseHasSession DEF EntryInv
<1> QED
  BY <1>4, <1>5

LEMMA NextEntry ==
  ASSUME TypeOK, EntryInv, [Next]_vars
  PROVE  EntryInv'
<1>1. CASE UNCHANGED vars
  BY <1>1 DEF vars, EntryInv, InUse
<1>2. CASE \E c \in Clients : CreateUe(c)
  <2>1. up' = up /\ map' = map /\ slot' = slot
    BY <1>2 DEF CreateUe
  <2>2. (\A u \in InUse : UE'[u].session = UE[u].session) /\ InUse \subseteq InUse'
    BY <1>2, CreateUeUsers DEF InUse
  <2> QED
    BY <2>1, <2>2, EntryKept
<1>3. CASE \E served \in SUBSET InUse : RunScheduler(served)
  BY <1>3, RunSchedulerEntry
<1>4. CASE AddEntry
  BY <1>4, AddEntryEntry
<1>5. CASE RxChannelEnd
  BY <1>5, RxChannelEndEntry
<1>6. CASE \/ InitUe \/ SearchSrc \/ TapCheck \/ TapAdd
           \/ \E c \in Clients : AnswerAgain(c) \/ EndSession(c)
           \/ \E c \in Clients : \E a \in Behind[c] : RxSlot(c, a)
           \/ \E u \in Ids : Unheard(u)
           \/ \E a \in Addrs : TapFind(a)
  <2>1. map' = map
    BY <1>6 DEF InitUe, SearchSrc, TapCheck, TapAdd, AnswerAgain, EndSession, RxSlot,
       Unheard, TapFind
  <2>3. up
    BY <1>6 DEF InitUe, SearchSrc, TapCheck, TapAdd, AnswerAgain, EndSession, RxSlot,
       Unheard, TapFind
  <2>4. slot.at = "done" => slot' = slot
    <3>1. Idle.at # "done"
      BY DEF Idle
    <3> QED
      BY <1>6, <3>1 DEF InitUe, SearchSrc, TapCheck, TapAdd, AnswerAgain, EndSession,
         RxSlot, Unheard, TapFind
  <2>2. (\A u \in Ids : UE'[u].session = UE[u].session) /\ InUse' = InUse
    BY <1>6, UsersKept DEF SlotThread
  <2> QED
    BY <2>1, <2>2, <2>3, <2>4, EntryKept DEF InUse
<1> QED
  BY <1>1, <1>2, <1>3, <1>4, <1>5, <1>6 DEF Next, SlotThread

---------------------------------------------------------------------------
(* The frame that the TAP thread has in hand. *)

LEMMA TapFindTap ==
  ASSUME TypeOK, EntryInv, NEW a \in Addrs, TapFind(a)
  PROVE  TapInv'
<1>1. /\ tap' = [at |-> "found", userid |-> map[a].userid, session |-> 0,
                 entry |-> map[a], overtaken |-> FALSE]
      /\ UE' = UE
      /\ up /\ slot.at # "done" /\ map[a] # NoEntry
  BY DEF TapFind, Idle
<1>2. UE[map[a].userid].session = map[a].session \/ map[a].given
  BY <1>1 DEF EntryInv
<1> QED
  BY <1>1, <1>2 DEF TapInv, QueuedWhereHeard

LEMMA TapCheckTap ==
  ASSUME TypeOK, TapInv, TapCheck
  PROVE  TapInv'
<1>1. tap \in TapFrame
  BY DEF TapCheck, TypeOK, Idle
<1>2. CASE tap.userid \in InUse
  <2>1. tap' = [tap EXCEPT !.at = "adding", !.session = UE[tap.userid].session]
    BY <1>2 DEF TapCheck
  <2>2. /\ tap'.at = "adding" /\ tap'.session = UE[tap.userid].session
        /\ tap'.entry = tap.entry /\ tap'.overtaken = tap.overtaken
    BY <1>1, <2>1 DEF TapFrame
  <2> QED
    BY <2>2 DEF TapInv, TapCheck, QueuedWhereHeard
<1>3. CASE tap.userid \notin InUse
  BY <1>3 DEF TapCheck, TapInv, QueuedWhereHeard, Idle
<1> QED
  BY <1>2, <1>3

LEMMA CreateUeTap ==
  ASSUME TypeOK, TapInv, NEW c \in Clients, CreateUe(c)
  PROVE  TapInv'
<1>1. tap' = tap
  BY DEF CreateUe
<1>2. CASE tap.at = "found"
  <2>1. tap \in TapFrame
    BY <1>2 DEF TypeOK, Idle
  <2>2. tap.userid \in Ids /\ tap.entry.session # 0
    BY <2>1, EtherMapAssumption DEF TapFrame, Entry, Sessions
  <2>3. PICK id \in Ids \ InUse : \A u \in Ids \ {id} : UE'[u] = UE[u]
    BY CreateUeUsers
  <2>4. UE[id].session = 0
    BY <2>3, InUseHasSession
  <2>5. UE[tap.userid].session = tap.entry.session
          => UE'[tap.userid].session = tap.entry.session
    BY <2>2, <2>3, <2>4
  <2> QED
    BY <1>1, <1>2, <2>5 DEF TapInv, QueuedWhereHeard
<1>3. CASE tap.at # "found"
  BY <1>1, <1>3 DEF TapInv, QueuedWhereHeard
<1> QED
  BY <1>2, <1>3

LEMMA RunSchedulerTap ==
  ASSUME TypeOK, TapInv, NEW served \in SUBSET InUse, RunScheduler(served)
  PROVE  TapInv'
<1>1. CASE tap.userid \in Gone(served)
  <2>1. tap \in TapFrame
    BY <1>1, IdsNotZero DEF TypeOK, Gone, InUse, Idle
  <2>2. tap' = [tap EXCEPT !.overtaken = TRUE]
    BY <1>1 DEF RunScheduler
  <2>3. /\ tap'.overtaken /\ tap'.at = tap.at
        /\ tap'.userid = tap.userid /\ tap'.entry = tap.entry
    BY <2>1, <2>2 DEF TapFrame
  <2> QED
    BY <2>3 DEF TapInv, QueuedWhereHeard
<1>2. CASE tap.userid \notin Gone(served)
  <2>1. tap' = tap
    BY <1>2 DEF RunScheduler
  <2>2. tap.at = "found" => tap.userid \in Ids
    BY DEF TypeOK, Idle, TapFrame
  <2>3. tap.at = "found" => UE'[tap.userid].session = UE[tap.userid].session
    BY <1>2, <2>2, RunUsers, InUseHasSession
  <2> QED
    BY <2>1, <2>3 DEF TapInv, QueuedWhereHeard
<1> QED
  BY <1>1, <1>2

LEMMA NextTap ==
  ASSUME TypeOK, EntryInv, TapInv, [Next]_vars
  PROVE  TapInv'
<1>1. CASE UNCHANGED vars
  BY <1>1 DEF vars, TapInv, QueuedWhereHeard
<1>2. CASE \E c \in Clients : CreateUe(c)
  BY <1>2, CreateUeTap
<1>3. CASE \E served \in SUBSET InUse : RunScheduler(served)
  BY <1>3, RunSchedulerTap
<1>4. CASE \E a \in Addrs : TapFind(a)
  BY <1>4, TapFindTap
<1>5. CASE TapCheck
  BY <1>5, TapCheckTap
<1>6. CASE TapAdd
  BY <1>6 DEF TapAdd, Idle, TapInv, QueuedWhereHeard
<1>7. CASE \/ InitUe \/ SlotThread
           \/ \E c \in Clients : AnswerAgain(c) \/ EndSession(c)
           \/ \E c \in Clients : \E a \in Behind[c] : RxSlot(c, a)
           \/ \E u \in Ids : Unheard(u)
  <2>1. tap' = tap
    BY <1>7 DEF InitUe, SlotThread, SearchSrc, AddEntry, RxChannelEnd, AnswerAgain,
       EndSession, RxSlot, Unheard
  <2>2. \A u \in Ids : UE'[u].session = UE[u].session
    BY <1>7, UsersKept
  <2>3. tap.at = "found" => tap.userid \in Ids
    BY DEF TypeOK, Idle, TapFrame
  <2> QED
    BY <2>1, <2>2, <2>3 DEF TapInv, QueuedWhereHeard
<1> QED
  BY <1>1, <1>2, <1>3, <1>4, <1>5, <1>6, <1>7 DEF Next

---------------------------------------------------------------------------
(* Who is silent. *)

LEMMA InitUeMissed ==
  ASSUME TypeOK, MissedInv, InitUe
  PROVE  MissedInv'
<1> SUFFICES ASSUME NEW u \in InUse'
             PROVE  /\ UE'[u].silent => UE'[u].missed
                    /\ UE'[u].will_end => UE'[u].missed
  BY DEF MissedInv
<1>1. u \in InUse /\ u \in Ids
  BY UsersKept DEF InUse
<1>2. CASE u = adding
  <2>1. UE' = [UE EXCEPT ![u].silent = FALSE] /\ UE[u] \in User
    BY <1>1, <1>2, InUseHasSession DEF InitUe
  <2>2. ~UE'[u].silent /\ UE'[u].missed = UE[u].missed /\ UE'[u].will_end = UE[u].will_end
    BY <1>1, <2>1 DEF TypeOK, User
  <2> QED
    BY <1>1, <2>2 DEF MissedInv
<1>3. CASE u # adding
  <2>1. UE'[u] = UE[u]
    BY <1>1, <1>3 DEF InitUe, TypeOK
  <2> QED
    BY <1>1, <1>3, <2>1 DEF MissedInv
<1> QED
  BY <1>2, <1>3

LEMMA UnheardMissed ==
  ASSUME TypeOK, MissedInv, NEW w \in Ids, Unheard(w)
  PROVE  MissedInv'
<1> SUFFICES ASSUME NEW u \in InUse'
             PROVE  /\ UE'[u].silent => UE'[u].missed \/ u = adding
                    /\ UE'[u].will_end => UE'[u].missed
  BY DEF MissedInv, Unheard
<1>1. u \in InUse /\ u \in Ids /\ UE[w] \in User
  BY UsersKept, InUseHasSession DEF InUse, Unheard
<1>2. UE' = [UE EXCEPT ![w].silent = TRUE, ![w].missed = TRUE]
  BY DEF Unheard
<1>3. UE'[w].missed
  BY <1>1, <1>2 DEF TypeOK, User
<1>4. u # w => UE'[u] = UE[u]
  BY <1>1, <1>2 DEF TypeOK
<1> QED
  BY <1>1, <1>3, <1>4 DEF MissedInv

LEMMA RxChannelEndMissed ==
  ASSUME TypeOK, MissedInv, RxChannelEnd
  PROVE  MissedInv'
<1> SUFFICES ASSUME NEW u \in InUse'
             PROVE  /\ UE'[u].silent => UE'[u].missed \/ u = adding
                    /\ UE'[u].will_end => UE'[u].missed
  BY DEF MissedInv, RxChannelEnd
<1>1. u \in InUse /\ u \in Ids /\ UE[u] \in User
  BY UsersKept, InUseHasSession DEF InUse, SlotThread
<1>2. UE' = UE \/ UE' = [UE EXCEPT ![slot.userid].silent = FALSE]
  BY DEF RxChannelEnd
<1>3. CASE UE'[u] = UE[u]
  BY <1>1, <1>3 DEF MissedInv
<1>4. CASE u = slot.userid /\ UE' = [UE EXCEPT ![u].silent = FALSE]
  <2>1. ~UE'[u].silent /\ UE'[u].missed = UE[u].missed /\ UE'[u].will_end = UE[u].will_end
    BY <1>1, <1>4 DEF TypeOK, User
  <2> QED
    BY <1>1, <2>1 DEF MissedInv
<1> QED
  BY <1>1, <1>2, <1>3, <1>4 DEF TypeOK

LEMMA CreateUeMissed ==
  ASSUME TypeOK, MissedInv, NEW c \in Clients, CreateUe(c)
  PROVE  MissedInv'
<1>1. PICK id \in Ids \ InUse :
        /\ adding' = id
        /\ InUse' = InUse \cup {id}
        /\ UE'[id] = [session |-> sessions + 1, silent |-> TRUE,
                      will_end |-> FALSE, queued |-> FALSE, missed |-> FALSE]
        /\ \A u \in Ids \ {id} : UE'[u] = UE[u]
  BY CreateUeUsers
<1>2. adding = 0 /\ InUse \subseteq Ids /\ 0 \notin Ids
  BY EtherMapAssumption DEF CreateUe, InUse
<1>3. ~UE'[id].will_end
  BY <1>1
<1> QED
  BY <1>1, <1>2, <1>3 DEF MissedInv

LEMMA RunSchedulerMissed ==
  ASSUME TypeOK, MissedInv, NEW served \in SUBSET InUse, RunScheduler(served)
  PROVE  MissedInv'
<1> SUFFICES ASSUME NEW u \in InUse'
             PROVE  /\ UE'[u].silent => UE'[u].missed \/ u = adding
                    /\ UE'[u].will_end => UE'[u].missed
  BY DEF MissedInv, RunScheduler
<1>1. u \in InUse /\ UE'[u] = Ran(u, served)
  BY RunUsers
<1>2. /\ UE'[u].silent = UE[u].silent
      /\ UE'[u].missed = (UE[u].missed \/ u = adding)
      /\ UE'[u].will_end = (UE[u].will_end \/ UE[u].silent)
  BY <1>1, RanType
<1>3. /\ UE[u].silent => UE[u].missed \/ u = adding
      /\ UE[u].will_end => UE[u].missed
  BY <1>1 DEF MissedInv
<1>4. UE[u].missed \/ u = adding => UE'[u].missed
  BY <1>2
<1>5. UE'[u].silent => UE'[u].missed
  BY <1>2, <1>3, <1>4
<1>6. UE'[u].will_end => UE'[u].missed
  BY <1>2, <1>3, <1>4
<1> QED
  BY <1>5, <1>6

LEMMA NextMissed ==
  ASSUME TypeOK, MissedInv, [Next]_vars
  PROVE  MissedInv'
<1>1. CASE UE' = UE /\ adding' = adding
  BY <1>1 DEF MissedInv, InUse
<1>2. CASE InitUe
  BY <1>2, InitUeMissed
<1>3. CASE \E u \in Ids : Unheard(u)
  BY <1>3, UnheardMissed
<1>4. CASE RxChannelEnd
  BY <1>4, RxChannelEndMissed
<1>5. CASE \E c \in Clients : CreateUe(c)
  BY <1>5, CreateUeMissed
<1>6. CASE \E served \in SUBSET InUse : RunScheduler(served)
  BY <1>6, RunSchedulerMissed
<1>7. CASE \/ UNCHANGED vars \/ SearchSrc \/ AddEntry \/ TapCheck \/ TapAdd
           \/ \E c \in Clients : AnswerAgain(c) \/ EndSession(c)
           \/ \E c \in Clients : \E a \in Behind[c] : RxSlot(c, a)
           \/ \E a \in Addrs : TapFind(a)
  <2>1. UE' = UE /\ adding' = adding
    BY <1>7 DEF vars, SearchSrc, AddEntry, TapCheck, TapAdd, AnswerAgain, EndSession,
       RxSlot, TapFind
  <2> QED
    BY <1>1, <2>1
<1> QED
  BY <1>2, <1>3, <1>4, <1>5, <1>6, <1>7 DEF Next, SlotThread

---------------------------------------------------------------------------
LEMMA InitInv == Init => IInv
<1> SUFFICES ASSUME Init PROVE IInv
  OBVIOUS
<1>1. TypeOK
  BY InitType
<1>2. EntryInv
  BY DEF Init, EntryInv
<1>3. TapInv
  BY DEF Init, Idle, TapInv, QueuedWhereHeard
<1>4. InUse = {}
  BY DEF Init, InUse
<1>5. MissedInv
  BY <1>4 DEF MissedInv
<1> QED
  BY <1>1, <1>2, <1>3, <1>5 DEF IInv

LEMMA NextInv == IInv /\ [Next]_vars => IInv'
BY NextType, NextEntry, NextTap, NextMissed DEF IInv

LEMMA InvHolds == IInv => EntriesBelong /\ QueuedWhereHeard /\ EndedHasMissed
BY DEF IInv, EntryInv, TapInv, MissedInv, EntriesBelong, QueuedWhereHeard, EndedHasMissed

LEMMA AlwaysInv == Spec => []IInv
BY InitInv, NextInv, PTL DEF Spec

(* mac_bs.c 286-295, 408-425: an entry is of its user's session, and goes  *)
(* with the user; what the slot thread enters for another session stays    *)
(* only while a user has that id, or the base station is about to crash.   *)
THEOREM EntriesAlwaysBelong == Spec => []EntriesBelong
BY AlwaysInv, InvHolds, PTL

(* mac_bs.c 193-212: the TAP thread queues a frame for the session that    *)
(* the address was heard in, whatever the other threads do meanwhile.      *)
THEOREM AlwaysQueuedWhereHeard == Spec => []QueuedWhereHeard
BY AlwaysInv, InvHolds, PTL

(* mac_bs.c 388-402: inactivity is detected only of users that were not    *)
(* heard, or were being added while the scheduler ran.                     *)
THEOREM OnlySilentEnded == Spec => []EndedHasMissed
BY AlwaysInv, InvHolds, PTL

---------------------------------------------------------------------------
(* Messages that are handled one after the other. *)

(* A set of natural numbers that is not empty has a least element.         *)
LEMMA Least ==
  ASSUME NEW S \in SUBSET Nat, S # {}
  PROVE  \E n \in S : \A m \in S : n <= m
<1>1. PICK n \in S : \A m \in S : ~(<<m, n>> \in OpToRel(<, Nat))
  BY NatLessThanWellFounded, WFMin
<1>2. \A m \in S : ~(m < n)
  BY <1>1 DEF OpToRel
<1> QED
  BY <1>2

(* ... and, when it is bounded, a greatest one.                            *)
LEMMA MaxOf ==
  ASSUME NEW n \in Nat, NEW S \in SUBSET (1 .. n), S # {}
  PROVE  Max(S) \in S /\ \A m \in S : m <= Max(S)
<1> DEFINE T == {n - m : m \in S}
<1>1. T \in SUBSET Nat /\ T # {}
  <2>1. \A m \in S : n - m \in Nat
    OBVIOUS
  <2> QED
    BY <2>1
<1> HIDE DEF T
<1>2. PICK k \in T : \A m \in T : k <= m
  BY <1>1, Least
<1>3. PICK x \in S : k = n - x
  BY DEF T
<1>4. \A m \in S : n - x <= n - m
  BY <1>2, <1>3 DEF T
<1>5. \A m \in S : x >= m
  BY <1>4
<1> QED
  BY <1>5 DEF Max

(* What either side makes of a message.                                    *)
Handled(at, x, msg) == IF at = "bs" THEN BsHandleMessage(x, msg)
                       ELSE UeHandleMessage(x, msg)

(* f is what handling the members of s with their indices in a set makes   *)
(* of x, least first, for every set of the first k indices: the function   *)
(* FoldLeft is made of.                                                    *)
Handles(at, f, x, s, k) ==
  f = [S \in SUBSET (1 .. k) |->
         IF S = {} THEN x ELSE Handled(at, f[S \ {Max(S)}], s[Max(S)])]

LEMMA HandlesNext ==
  ASSUME NEW at, NEW x, NEW s, NEW k \in Nat, NEW f, Handles(at, f, x, s, k)
  PROVE  \E g : Handles(at, g, x, s, k + 1)
<1> DEFINE val(S) == IF k + 1 \in S THEN Handled(at, f[S \ {k + 1}], s[k + 1]) ELSE f[S]
           g == [S \in SUBSET (1 .. k + 1) |-> val(S)]
<1>1. ASSUME NEW S \in SUBSET (1 .. k + 1)
      PROVE  val(S) = IF S = {} THEN x ELSE Handled(at, g[S \ {Max(S)}], s[Max(S)])
  <2>1. CASE k + 1 \in S
    <3>1. Max(S) = k + 1
      <4>1. k + 1 \in Nat /\ S # {} /\ S \in SUBSET (1 .. k + 1)
        BY <2>1
      <4>2. Max(S) \in S /\ \A m \in S : m <= Max(S)
        BY ONLY <4>1, MaxOf
      <4>3. Max(S) \in 1 .. k + 1 /\ k + 1 <= Max(S)
        BY ONLY <2>1, <4>2, S \in SUBSET (1 .. k + 1)
      <4> HIDE DEF g
      <4> QED
        BY <4>3
    <3>2. S \ {k + 1} \in SUBSET (1 .. k + 1) /\ k + 1 \notin S \ {k + 1}
      OBVIOUS
    <3>3. g[S \ {k + 1}] = f[S \ {k + 1}]
      BY <3>2
    <3> HIDE DEF g
    <3> QED
      BY <2>1, <3>1, <3>3
  <2>2. CASE k + 1 \notin S
    <3>1. S \in SUBSET (1 .. k)
      BY <2>2
    <3>2. f[S] = IF S = {} THEN x ELSE Handled(at, f[S \ {Max(S)}], s[Max(S)])
      BY <3>1 DEF Handles
    <3>3. CASE S = {}
      BY <2>2, <3>2, <3>3
    <3>4. CASE S # {}
      <4>1. S \ {Max(S)} \in SUBSET (1 .. k + 1) /\ k + 1 \notin S \ {Max(S)}
        BY <2>2
      <4>2. g[S \ {Max(S)}] = f[S \ {Max(S)}]
        BY <4>1
      <4> HIDE DEF g
      <4> QED
        BY <2>2, <3>2, <3>4, <4>2
    <3> QED
      BY <3>3, <3>4
  <2> QED
    BY <2>1, <2>2
<1>2. g = [S \in SUBSET (1 .. k + 1) |->
             IF S = {} THEN x ELSE Handled(at, g[S \ {Max(S)}], s[Max(S)])]
  BY <1>1
<1> HIDE DEF g
<1> QED
  BY <1>2 DEF Handles

LEMMA HandlesExists ==
  ASSUME NEW at, NEW x, NEW s, NEW k \in Nat
  PROVE  \E f : Handles(at, f, x, s, k)
<1> DEFINE Bad == {n \in Nat : ~\E f : Handles(at, f, x, s, n)}
<1>1. ASSUME Bad # {} PROVE FALSE
  <2>1. PICK n \in Bad : \A m \in Bad : n <= m
    <3>1. Bad \in SUBSET Nat
      OBVIOUS
    <3> HIDE DEF Bad
    <3> QED
      BY <1>1, <3>1, Least
  <2>2. CASE n = 0
    <3> DEFINE f == [S \in SUBSET (1 .. 0) |-> x]
    <3>1. Handles(at, f, x, s, 0)
      <4>1. \A S \in SUBSET (1 .. 0) : S = {}
        OBVIOUS
      <4> QED
        BY <4>1 DEF Handles
    <3> QED
      BY <2>2, <3>1
  <2>3. CASE n # 0
    <3>1. n - 1 \in Nat /\ n - 1 \notin Bad
      BY <2>1, <2>3
    <3>2. PICK f : Handles(at, f, x, s, n - 1)
      BY <3>1
    <3>3. \E g : Handles(at, g, x, s, (n - 1) + 1)
      BY <3>1, <3>2, HandlesNext
    <3> QED
      BY <3>3
  <2> QED
    BY <2>2, <2>3
<1> QED
  BY <1>1

(* Such a function goes through the messages one by one.                   *)
LEMMA OneByOne ==
  ASSUME NEW at, NEW x, NEW s \in Seq(Messages), NEW f,
         Handles(at, f, x, s, Len(s))
  PROVE  /\ f[1 .. 0] = x
         /\ \A j \in 1 .. Len(s) : f[1 .. j] = Handled(at, f[1 .. (j - 1)], s[j])
<1>0. Len(s) \in Nat
  OBVIOUS
<1>1. f[1 .. 0] = x
  <2>1. 1 .. 0 = {} /\ {} \in SUBSET (1 .. Len(s))
    OBVIOUS
  <2> QED
    BY <2>1 DEF Handles
<1>2. ASSUME NEW j \in 1 .. Len(s)
      PROVE  f[1 .. j] = Handled(at, f[1 .. (j - 1)], s[j])
  <2>1. j \in Nat /\ 1 .. j \in SUBSET (1 .. Len(s)) /\ 1 .. j # {}
    <3>1. j \in Nat /\ 1 \in 1 .. j /\ \A m \in 1 .. j : m \in 1 .. Len(s)
      BY <1>0
    <3> QED
      BY <3>1
  <2>2. Max(1 .. j) \in 1 .. j /\ \A m \in 1 .. j : m <= Max(1 .. j)
    BY <2>1, MaxOf
  <2>3. Max(1 .. j) = j
    BY <2>1, <2>2
  <2>4. (1 .. j) \ {j} = 1 .. (j - 1)
    BY <2>1
  <2> QED
    BY <2>1, <2>3, <2>4 DEF Handles
<1> QED
  BY <1>1, <1>2

BsIter(x, s) == CHOOSE iter : iter = [S \in SUBSET DOMAIN s |->
  IF S = {} THEN x ELSE BsHandleMessage(iter[S \ {Max(S)}], s[Max(S)])]
UeIter(x, s) == CHOOSE iter : iter = [S \in SUBSET DOMAIN s |->
  IF S = {} THEN x ELSE UeHandleMessage(iter[S \ {Max(S)}], s[Max(S)])]

(* The base station handles the messages of a slot one by one.             *)
LEMMA BsHandlesAll ==
  ASSUME NEW x, NEW s \in Seq(Messages)
  PROVE  \E f : /\ f[1 .. 0] = x
                /\ \A j \in 1 .. Len(s) : f[1 .. j] = BsHandleMessage(f[1 .. (j - 1)], s[j])
                /\ FoldLeft(BsHandleMessage, x, s) = f[1 .. Len(s)]
<1>1. FoldLeft(BsHandleMessage, x, s) = BsIter(x, s)[DOMAIN s]
  BY Zenon DEF FoldLeft, MapThenFoldSet, BsIter
<1>2. DOMAIN s = 1 .. Len(s) /\ Len(s) \in Nat
  OBVIOUS
<1>3. \A f : Handles("bs", f, x, s, Len(s)) <=>
        f = [S \in SUBSET DOMAIN s |->
              IF S = {} THEN x ELSE BsHandleMessage(f[S \ {Max(S)}], s[Max(S)])]
  BY <1>2, Zenon DEF Handles, Handled
<1>4. \E f : Handles("bs", f, x, s, Len(s))
  BY <1>2, HandlesExists
<1>5. Handles("bs", BsIter(x, s), x, s, Len(s))
  BY <1>3, <1>4 DEF BsIter
<1> QED
  BY <1>1, <1>2, <1>5, OneByOne DEF Handled

(* So does the client.                                                     *)
LEMMA UeHandlesAll ==
  ASSUME NEW x, NEW s \in Seq(Messages)
  PROVE  \E f : /\ f[1 .. 0] = x
                /\ \A j \in 1 .. Len(s) : f[1 .. j] = UeHandleMessage(f[1 .. (j - 1)], s[j])
                /\ FoldLeft(UeHandleMessage, x, s) = f[1 .. Len(s)]
<1>1. FoldLeft(UeHandleMessage, x, s) = UeIter(x, s)[DOMAIN s]
  BY Zenon DEF FoldLeft, MapThenFoldSet, UeIter
<1>2. DOMAIN s = 1 .. Len(s) /\ Len(s) \in Nat
  OBVIOUS
<1>3. \A f : Handles("ue", f, x, s, Len(s)) <=>
        f = [S \in SUBSET DOMAIN s |->
              IF S = {} THEN x ELSE UeHandleMessage(f[S \ {Max(S)}], s[Max(S)])]
  BY <1>2, Zenon DEF Handles, Handled
<1>4. \E f : Handles("ue", f, x, s, Len(s))
  BY <1>2, HandlesExists
<1>5. Handles("ue", UeIter(x, s), x, s, Len(s))
  BY <1>3, <1>4 DEF UeIter
<1> QED
  BY <1>1, <1>2, <1>5, OneByOne DEF Handled

---------------------------------------------------------------------------
(* The inductive invariant of McsSwitch: of a user u of the base station   *)
(* and a client c, which is c with the messages that it still has to send. *)

Timers == 0 .. MAX_RESPONSE_TIME + 2
McsUser == [mcs : [Directions -> Schemes], pending : [Directions -> Schemes],
            timer : [Directions -> Timers], queue : Seq(Messages)]
McsUe == [mcs : [Directions -> Schemes], queue : Seq(Messages)]

BothTyped(u, c) ==
  /\ u \in McsUser /\ Len(u.queue) < MAC_CTRL_MSG_BUF_SIZE
  /\ c \in McsUe /\ Len(c.queue) < MAC_CTRL_MSG_BUF_SIZE
  /\ \A i \in 1 .. Len(u.queue) : u.queue[i].type = "info"
  /\ \A i \in 1 .. Len(c.queue) : c.queue[i].type \in {"req", "ack"}

(* A request is made once: as long as it waits nothing else is under way   *)
(* in its direction, and no acknowledgment of another session waits.       *)
ReqInv(u, c) ==
  \A i \in 1 .. Len(c.queue) : c.queue[i].type = "req" =>
    /\ \A j \in 1 .. Len(c.queue) : c.queue[j].dir = c.queue[i].dir => j = i
    /\ \A j \in 1 .. Len(u.queue) : u.queue[j].dir # c.queue[i].dir
    /\ u.mcs[c.queue[i].dir] = 0
    /\ u.timer[c.queue[i].dir] = 0
    /\ u.pending[c.queue[i].dir] = 0

(* Orders are for the change of the moment, or for one that has expired.   *)
OrderInv(u) ==
  /\ u.pending[UL] = 0
  /\ \A i \in 1 .. Len(u.queue) :
       /\ u.queue[i].dir = DL => u.queue[i].mcs = u.pending[DL]
       /\ u.queue[i].dir = UL => u.mcs[UL] = 0 \/ u.queue[i].mcs = u.mcs[UL]

(* What is acknowledged has been done, if there still is such a change.    *)
AckInv(u, c) ==
  \A i \in 1 .. Len(c.queue) : c.queue[i].type = "ack" =>
    /\ c.queue[i].dir = DL => u.pending[DL] = 0 \/ c.mcs[DL] = u.pending[DL]
    /\ c.queue[i].dir = UL => u.mcs[UL] = 0 \/ c.mcs[UL] = u.mcs[UL]

FollowInv(u, c) ==
  /\ u.mcs[DL] # 0 => u.mcs[DL] = u.pending[DL] /\ c.mcs[DL] = u.pending[DL]
  /\ u.mcs[UL] # 0 => c.mcs[UL] = u.mcs[UL] \/ u.timer[UL] > 0

BothInv(u, c) ==
  BothTyped(u, c) /\ ReqInv(u, c) /\ OrderInv(u) /\ AckInv(u, c) /\ FollowInv(u, c)

(* What can be put into a queue is put behind what it has.                 *)
IsPutInto(q, msg, r) ==
  /\ r \in Seq(Messages) /\ Len(r) < MAC_CTRL_MSG_BUF_SIZE
  /\ \A i \in 1 .. Len(r) : \/ i \in 1 .. Len(q) /\ r[i] = q[i]
                            \/ i = Len(q) + 1 /\ r[i] = msg

LEMMA PutIs ==
  ASSUME NEW q \in Seq(Messages), NEW msg \in Messages, Len(q) < MAC_CTRL_MSG_BUF_SIZE
  PROVE  IsPutInto(q, msg, Put(q, msg))
<1>1. MAC_CTRL_MSG_BUF_SIZE \in Nat
  BY McsAssumption DEF McsAssumption
<1>2. CASE Len(q) < MAC_CTRL_MSG_BUF_SIZE - 1
  <2>1. Put(q, msg) = Append(q, msg)
    BY <1>2 DEF Put
  <2> QED
    BY <1>1, <1>2, <2>1 DEF IsPutInto
<1>3. CASE ~(Len(q) < MAC_CTRL_MSG_BUF_SIZE - 1)
  BY <1>1, <1>3 DEF Put, IsPutInto
<1> QED
  BY <1>2, <1>3

(* Messages that the client has sent or lost leave the invariant alone.    *)
Without(c, n) == [c EXCEPT !.queue = SubSeq(@, n + 1, Len(@))]

LEMMA WithoutIs ==
  ASSUME NEW c \in McsUe, NEW n \in 0 .. Len(c.queue)
  PROVE  /\ Without(c, n) \in McsUe /\ Without(c, n).mcs = c.mcs
         /\ Len(Without(c, n).queue) = Len(c.queue) - n
         /\ \A i \in 1 .. Len(c.queue) - n :
              i + n \in 1 .. Len(c.queue) /\ Without(c, n).queue[i] = c.queue[i + n]
<1>1. c.queue \in Seq(Messages) /\ Len(c.queue) \in Nat
  BY DEF McsUe
<1> DEFINE q == SubSeq(c.queue, n + 1, Len(c.queue))
<1>2. /\ q \in Seq(Messages) /\ Len(q) = Len(c.queue) - n
      /\ \A i \in 1 .. Len(c.queue) - n : i + n \in 1 .. Len(c.queue) /\ q[i] = c.queue[i + n]
  BY <1>1
<1>3. /\ Without(c, n) = [c EXCEPT !.queue = q]
      /\ Without(c, n).queue = q /\ Without(c, n).mcs = c.mcs
  BY DEF Without, McsUe
<1> HIDE DEF q
<1>4. Without(c, n) \in McsUe
  BY <1>2, <1>3 DEF McsUe
<1> QED
  BY <1>2, <1>3, <1>4

LEMMA WithoutKeeps ==
  ASSUME NEW u, NEW c, BothInv(u, c), NEW n \in 0 .. Len(c.queue)
  PROVE  BothInv(u, Without(c, n))
<1> DEFINE d == Without(c, n)
<1>1. /\ u \in McsUser /\ c \in McsUe /\ Len(c.queue) \in Nat
      /\ MAC_CTRL_MSG_BUF_SIZE \in Nat
  BY McsAssumption DEF BothInv, BothTyped, McsUe, McsAssumption
<1>2. /\ d \in McsUe /\ d.mcs = c.mcs /\ Len(d.queue) = Len(c.queue) - n
      /\ \A i \in 1 .. Len(d.queue) :
           i + n \in 1 .. Len(c.queue) /\ d.queue[i] = c.queue[i + n]
  BY <1>1, WithoutIs
<1> HIDE DEF d
<1>3. BothTyped(u, d)
  <2>1. /\ Len(u.queue) < MAC_CTRL_MSG_BUF_SIZE /\ Len(c.queue) < MAC_CTRL_MSG_BUF_SIZE
        /\ \A i \in 1 .. Len(u.queue) : u.queue[i].type = "info"
        /\ \A i \in 1 .. Len(c.queue) : c.queue[i].type \in {"req", "ack"}
    BY DEF BothInv, BothTyped
  <2>2. Len(d.queue) < MAC_CTRL_MSG_BUF_SIZE
    BY ONLY <1>1, <1>2, <2>1
  <2>3. \A i \in 1 .. Len(d.queue) : d.queue[i].type \in {"req", "ack"}
    BY ONLY <1>2, <2>1
  <2> QED
    BY <1>1, <1>2, <2>1, <2>2, <2>3 DEF BothTyped
<1>4. ReqInv(u, d)
  <2> SUFFICES ASSUME NEW i \in 1 .. Len(d.queue), d.queue[i].type = "req"
               PROVE  /\ \A j \in 1 .. Len(d.queue) : d.queue[j].dir = d.queue[i].dir => j = i
                      /\ \A j \in 1 .. Len(u.queue) : u.queue[j].dir # d.queue[i].dir
                      /\ u.mcs[d.queue[i].dir] = 0
                      /\ u.timer[d.queue[i].dir] = 0
                      /\ u.pending[d.queue[i].dir] = 0
    BY DEF ReqInv
  <2>1. i + n \in 1 .. Len(c.queue) /\ d.queue[i] = c.queue[i + n]
    BY <1>2
  <2>2. /\ \A j \in 1 .. Len(c.queue) : c.queue[j].dir = c.queue[i + n].dir => j = i + n
        /\ \A j \in 1 .. Len(u.queue) : u.queue[j].dir # c.queue[i + n].dir
        /\ u.mcs[c.queue[i + n].dir] = 0 /\ u.timer[c.queue[i + n].dir] = 0
        /\ u.pending[c.queue[i + n].dir] = 0
    BY <2>1 DEF BothInv, ReqInv
  <2>3. ASSUME NEW j \in 1 .. Len(d.queue), d.queue[j].dir = d.queue[i].dir
        PROVE  j = i
    <3>1. j + n \in 1 .. Len(c.queue) /\ d.queue[j] = c.queue[j + n]
      BY <1>2
    <3>2. j + n = i + n
      BY <2>1, <2>2, <2>3, <3>1
    <3> QED
      BY <1>1, <1>2, <3>2
  <2> QED
    BY <2>1, <2>2, <2>3
<1>5. AckInv(u, d)
  BY <1>2 DEF BothInv, AckInv
<1>6. FollowInv(u, d)
  BY <1>2 DEF BothInv, FollowInv
<1> QED
  BY <1>3, <1>4, <1>5, <1>6 DEF BothInv, d

(* mac_ue_handle_message: an order is followed and acknowledged, or, when  *)
(* the queue is full, neither.                                             *)
LEMMA OrderFollowed ==
  ASSUME NEW u, NEW c, BothInv(u, c), NEW k \in 1 .. Len(u.queue)
  PROVE  BothInv(u, UeHandleMessage(c, u.queue[k]))
<1> DEFINE msg == u.queue[k]
           dir == msg.dir
           d == UeHandleMessage(c, msg)
<1>1. /\ u \in McsUser /\ c \in McsUe /\ Len(c.queue) \in Nat
      /\ c.queue \in Seq(Messages) /\ Len(c.queue) < MAC_CTRL_MSG_BUF_SIZE
      /\ msg \in Messages /\ msg.type = "info" /\ MAC_CTRL_MSG_BUF_SIZE \in Nat
  BY McsAssumption DEF BothInv, BothTyped, McsUe, McsUser, McsAssumption
<1>2. dir \in Directions /\ msg.mcs \in Schemes /\ Ack(dir) \in Messages
  <2>1. 0 \in Schemes
    BY McsAssumption DEF McsAssumption, Schemes
  <2> QED
    BY <1>1, <2>1 DEF Messages, Ack
<1>3. CASE ~IsPut(c.queue)
  BY <1>3 DEF UeHandleMessage
<1>4. CASE IsPut(c.queue)
  <2> DEFINE q == Put(c.queue, Ack(dir))
  <2>1. /\ q = Append(c.queue, Ack(dir))
        /\ q \in Seq(Messages) /\ Len(q) = Len(c.queue) + 1
        /\ Len(q) < MAC_CTRL_MSG_BUF_SIZE
        /\ \A i \in 1 .. Len(q) : \/ i \in 1 .. Len(c.queue) /\ q[i] = c.queue[i]
                                  \/ i = Len(c.queue) + 1 /\ q[i] = Ack(dir)
    BY <1>1, <1>2, <1>4 DEF Put, IsPut
  <2>2. /\ d = [c EXCEPT !.queue = q, !.mcs[dir] = msg.mcs]
    BY <1>4 DEF UeHandleMessage
  <2>3. d \in McsUe /\ d.queue = q /\ d.mcs = [c.mcs EXCEPT ![dir] = msg.mcs]
    <3>1. [c.mcs EXCEPT ![dir] = msg.mcs] \in [Directions -> Schemes]
      BY <1>1, <1>2 DEF McsUe
    <3>2. q \in Seq(Messages)
      BY <2>1
    <3> HIDE DEF q, msg, dir, d
    <3> QED
      BY <1>1, <2>2, <3>1, <3>2 DEF McsUe
  <2>4. Ack(dir).type = "ack" /\ Ack(dir).dir = dir
    BY DEF Ack
  <2> HIDE DEF q, d
  <2>5. BothTyped(u, d)
    BY <1>1, <2>1, <2>3, <2>4 DEF BothInv, BothTyped
  <2>6. ReqInv(u, d)
    <3> SUFFICES ASSUME NEW i \in 1 .. Len(q), q[i].type = "req"
                 PROVE  /\ \A j \in 1 .. Len(q) : q[j].dir = q[i].dir => j = i
                        /\ \A j \in 1 .. Len(u.queue) : u.queue[j].dir # q[i].dir
                        /\ u.mcs[q[i].dir] = 0
                        /\ u.timer[q[i].dir] = 0
                        /\ u.pending[q[i].dir] = 0
      BY <2>3 DEF ReqInv
    <3>1. i \in 1 .. Len(c.queue) /\ q[i] = c.queue[i]
      BY <2>1, <2>4
    <3>2. /\ \A j \in 1 .. Len(c.queue) : c.queue[j].dir = c.queue[i].dir => j = i
          /\ \A j \in 1 .. Len(u.queue) : u.queue[j].dir # c.queue[i].dir
          /\ u.mcs[c.queue[i].dir] = 0 /\ u.timer[c.queue[i].dir] = 0
          /\ u.pending[c.queue[i].dir] = 0
      BY <3>1 DEF BothInv, ReqInv
    <3>3. dir # q[i].dir
      BY <3>1, <3>2
    <3>4. ASSUME NEW j \in 1 .. Len(q), q[j].dir = q[i].dir PROVE j = i
      <4>1. j \in 1 .. Len(c.queue) /\ q[j] = c.queue[j]
        BY <2>1, <2>4, <3>3, <3>4
      <4> QED
        BY <3>1, <3>2, <3>4, <4>1
    <3> QED
      BY <3>1, <3>2, <3>4
  <2>7. OrderInv(u)
    BY DEF BothInv
  <2>8. /\ dir = DL => msg.mcs = u.pending[DL]
        /\ dir = UL => u.mcs[UL] = 0 \/ msg.mcs = u.mcs[UL]
    BY <2>7 DEF OrderInv
  <2>9. /\ d.mcs[DL] = IF dir = DL THEN msg.mcs ELSE c.mcs[DL]
        /\ d.mcs[UL] = IF dir = UL THEN msg.mcs ELSE c.mcs[UL]
    BY <1>1, <2>3 DEF McsUe, Directions, DL, UL
  <2>10. AckInv(u, d)
    <3> SUFFICES ASSUME NEW i \in 1 .. Len(q), q[i].type = "ack"
                 PROVE  /\ q[i].dir = DL => u.pending[DL] = 0 \/ d.mcs[DL] = u.pending[DL]
                        /\ q[i].dir = UL => u.mcs[UL] = 0 \/ d.mcs[UL] = u.mcs[UL]
      BY <2>3 DEF AckInv
    <3>1. CASE i \in 1 .. Len(c.queue) /\ q[i] = c.queue[i]
      BY <2>8, <2>9, <3>1 DEF BothInv, AckInv
    <3>2. CASE i = Len(c.queue) + 1 /\ q[i] = Ack(dir)
      BY <2>4, <2>8, <2>9, <3>2
    <3> QED
      BY <2>1, <3>1, <3>2
  <2>11. FollowInv(u, d)
    BY <2>8, <2>9 DEF BothInv, FollowInv
  <2> QED
    BY <2>5, <2>6, <2>7, <2>10, <2>11 DEF BothInv, d
<1> QED
  BY <1>3, <1>4

(* mac_bs_handle_control_ack, for the message at the head of the queue.    *)
LEMMA AckHandled ==
  ASSUME NEW u, NEW c, BothInv(u, c), Len(c.queue) >= 1, c.queue[1].type = "ack"
  PROVE  BothInv(HandleControlAck(u, c.queue[1].dir), Without(c, 1))
<1> DEFINE dir == c.queue[1].dir
           d == Without(c, 1)
           v == HandleControlAck(u, dir)
<1>1. /\ u \in McsUser /\ c \in McsUe /\ Len(c.queue) \in Nat
      /\ 1 \in 1 .. Len(c.queue) /\ c.queue \in Seq(Messages)
  BY DEF BothInv, BothTyped, McsUe
<1>2. BothInv(u, d)
  BY <1>1, WithoutKeeps
<1>3. /\ Len(d.queue) = Len(c.queue) - 1 /\ d.mcs = c.mcs
      /\ \A i \in 1 .. Len(d.queue) : i + 1 \in 1 .. Len(c.queue) /\ d.queue[i] = c.queue[i + 1]
  <2>1. 1 \in 0 .. Len(c.queue)
    BY <1>1
  <2>2. /\ d.mcs = c.mcs /\ Len(d.queue) = Len(c.queue) - 1
        /\ \A i \in 1 .. Len(c.queue) - 1 :
             i + 1 \in 1 .. Len(c.queue) /\ d.queue[i] = c.queue[i + 1]
    BY ONLY <1>1, <2>1, WithoutIs DEF d
  <2> QED
    BY ONLY <2>2
<1>4. dir \in Directions
  <2>1. c.queue[1] \in Messages
    BY <1>1
  <2> QED
    BY <2>1 DEF Messages
<1>5. \A i \in 1 .. Len(c.queue) : c.queue[i].type = "req" => c.queue[i].dir # dir
  BY <1>1 DEF BothInv, ReqInv
<1>6. \A i \in 1 .. Len(d.queue) : d.queue[i].type = "req" => d.queue[i].dir # dir
  BY <1>3, <1>5
<1>7. /\ dir = DL => u.pending[DL] = 0 \/ c.mcs[DL] = u.pending[DL]
      /\ dir = UL => u.mcs[UL] = 0 \/ c.mcs[UL] = u.mcs[UL]
  BY <1>1 DEF BothInv, AckInv
<1> HIDE DEF d
<1>8. /\ v \in McsUser /\ v.queue = u.queue /\ v.pending = u.pending
      /\ v.mcs = [u.mcs EXCEPT ![dir] = IF dir = DL THEN u.pending[DL] ELSE u.mcs[dir]]
      /\ v.timer = [u.timer EXCEPT ![dir] = 0]
  <2>1. 0 \in Timers /\ u.pending[DL] \in Schemes /\ u.mcs[dir] \in Schemes
    BY <1>1, <1>4, McsAssumption DEF Timers, McsUser, Directions, McsAssumption
  <2> QED
    BY <1>1, <1>4, <2>1 DEF HandleControlAck, McsUser
<1> HIDE DEF v
<1>9. /\ v.mcs[DL] = IF dir = DL THEN u.pending[DL] ELSE u.mcs[DL]
      /\ v.mcs[UL] = u.mcs[UL]
      /\ \A e \in Directions : e # dir => v.mcs[e] = u.mcs[e] /\ v.timer[e] = u.timer[e]
      /\ v.timer[UL] = IF dir = UL THEN 0 ELSE u.timer[UL]
  BY <1>1, <1>4, <1>8 DEF McsUser, Directions, DL, UL
<1>10. BothTyped(v, d)
  BY <1>2, <1>8 DEF BothInv, BothTyped
<1>11. ReqInv(v, d)
  <2> SUFFICES ASSUME NEW i \in 1 .. Len(d.queue), d.queue[i].type = "req"
               PROVE  /\ \A j \in 1 .. Len(d.queue) : d.queue[j].dir = d.queue[i].dir => j = i
                      /\ \A j \in 1 .. Len(v.queue) : v.queue[j].dir # d.queue[i].dir
                      /\ v.mcs[d.queue[i].dir] = 0
                      /\ v.timer[d.queue[i].dir] = 0
                      /\ v.pending[d.queue[i].dir] = 0
    BY DEF ReqInv
  <2>1. d.queue[i].dir # dir /\ d.queue[i].dir \in Directions
    <3>1. d.queue[i] \in Messages
      BY <1>1, <1>3
    <3> QED
      BY <1>6, <3>1 DEF Messages
  <2> QED
    BY <1>2, <1>8, <1>9, <2>1 DEF BothInv, ReqInv
<1>12. OrderInv(v)
  BY <1>2, <1>8, <1>9 DEF BothInv, OrderInv
<1>13. AckInv(v, d)
  BY <1>2, <1>8, <1>9 DEF BothInv, AckInv
<1>14. FollowInv(v, d)
  BY <1>2, <1>3, <1>7, <1>8, <1>9 DEF BothInv, FollowInv
<1> QED
  BY <1>10, <1>11, <1>12, <1>13, <1>14 DEF BothInv, v, d

(* mac_bs_set_mcs, for the request at the head of the queue.               *)
LEMMA ReqHandled ==
  ASSUME NEW u, NEW c, BothInv(u, c), Len(c.queue) >= 1, c.queue[1].type = "req"
  PROVE  BothInv(SetMcs(u, c.queue[1].dir, c.queue[1].mcs), Without(c, 1))
<1> DEFINE dir == c.queue[1].dir
           mcs == c.queue[1].mcs
           d == Without(c, 1)
           v == SetMcs(u, dir, mcs)
           q == Put(u.queue, Info(dir, mcs))
<1>1. /\ u \in McsUser /\ c \in McsUe /\ Len(c.queue) \in Nat
      /\ 1 \in 1 .. Len(c.queue) /\ c.queue \in Seq(Messages)
      /\ u.queue \in Seq(Messages) /\ Len(u.queue) < MAC_CTRL_MSG_BUF_SIZE
  BY DEF BothInv, BothTyped, McsUe, McsUser
<1>2. BothInv(u, d)
  BY <1>1, WithoutKeeps
<1>3. /\ Len(d.queue) = Len(c.queue) - 1 /\ d.mcs = c.mcs
      /\ \A i \in 1 .. Len(d.queue) : i + 1 \in 1 .. Len(c.queue) /\ d.queue[i] = c.queue[i + 1]
  <2>1. 1 \in 0 .. Len(c.queue)
    BY <1>1
  <2>2. /\ d.mcs = c.mcs /\ Len(d.queue) = Len(c.queue) - 1
        /\ \A i \in 1 .. Len(c.queue) - 1 :
             i + 1 \in 1 .. Len(c.queue) /\ d.queue[i] = c.queue[i + 1]
    BY ONLY <1>1, <2>1, WithoutIs DEF d
  <2> QED
    BY ONLY <2>2
<1>4. dir \in Directions /\ mcs \in Schemes
  <2>1. c.queue[1] \in Messages
    BY <1>1
  <2> QED
    BY <2>1 DEF Messages
<1>5. /\ \A j \in 1 .. Len(c.queue) : c.queue[j].dir = dir => j = 1
      /\ \A j \in 1 .. Len(u.queue) : u.queue[j].dir # dir
      /\ u.mcs[dir] = 0 /\ u.timer[dir] = 0 /\ u.pending[dir] = 0
  BY <1>1 DEF BothInv, ReqInv
<1>6. \A j \in 1 .. Len(d.queue) : d.queue[j].dir # dir /\ d.queue[j].dir \in Directions
  <2> TAKE j \in 1 .. Len(d.queue)
  <2>1. j + 1 \in 1 .. Len(c.queue) /\ d.queue[j] = c.queue[j + 1] /\ j + 1 # 1
    BY <1>3
  <2>2. c.queue[j + 1] \in Messages
    BY <1>1, <2>1
  <2> QED
    BY <1>5, <2>1, <2>2 DEF Messages
<1>7. CASE ~IsPut(u.queue)
  BY <1>2, <1>7 DEF SetMcs
<1>8. CASE IsPut(u.queue)
  <2>0. Info(dir, mcs) \in Messages
    BY <1>4 DEF Info, Messages
  <2>1. /\ q \in Seq(Messages) /\ Len(q) < MAC_CTRL_MSG_BUF_SIZE
        /\ \A i \in 1 .. Len(q) : \/ i \in 1 .. Len(u.queue) /\ q[i] = u.queue[i]
                                  \/ i = Len(u.queue) + 1 /\ q[i] = Info(dir, mcs)
    <3>1. IsPutInto(u.queue, Info(dir, mcs), q)
      BY <1>1, <2>0, PutIs
    <3> QED
      BY ONLY <3>1 DEF IsPutInto
  <2>2. Info(dir, mcs).type = "info" /\ Info(dir, mcs).dir = dir /\ Info(dir, mcs).mcs = mcs
    BY DEF Info
  <2> DEFINE p == [u.pending EXCEPT ![dir] = IF dir = DL THEN mcs ELSE u.mcs[UL]]
             m == [u.mcs EXCEPT ![dir] = IF dir = DL THEN u.mcs[dir] ELSE mcs]
             t == [u.timer EXCEPT ![dir] = MAX_RESPONSE_TIME + 2]
  <2>3. p \in [Directions -> Schemes] /\ m \in [Directions -> Schemes]
        /\ t \in [Directions -> Timers]
    <3>1. u.mcs[dir] \in Schemes /\ u.mcs[UL] \in Schemes
      BY <1>1, <1>4 DEF McsUser, Directions
    <3>2. MAX_RESPONSE_TIME + 2 \in Timers
      BY McsAssumption DEF McsAssumption, Timers
    <3> QED
      BY <1>1, <1>4, <3>1, <3>2 DEF McsUser
  <2>4. v = [u EXCEPT !.queue = q, !.pending = p, !.mcs = m, !.timer = t]
    BY <1>1, <1>8 DEF SetMcs, McsUser
  <2>5. /\ p[DL] = (IF dir = DL THEN mcs ELSE u.pending[DL]) /\ p[UL] = u.pending[UL]
        /\ m[DL] = u.mcs[DL] /\ m[UL] = (IF dir = UL THEN mcs ELSE u.mcs[UL])
        /\ t[UL] = (IF dir = UL THEN MAX_RESPONSE_TIME + 2 ELSE u.timer[UL])
        /\ \A e \in Directions : e # dir => /\ p[e] = u.pending[e] /\ m[e] = u.mcs[e]
                                            /\ t[e] = u.timer[e]
    BY <1>1, <1>4, <1>5 DEF McsUser, Directions, DL, UL
  <2> HIDE DEF p, m, t, q
  <2>6. v \in McsUser /\ v.queue = q /\ v.pending = p /\ v.mcs = m /\ v.timer = t
    <3> HIDE DEF v
    <3> QED
      BY <1>1, <2>1, <2>3, <2>4 DEF McsUser
  <2> HIDE DEF v, d, dir, mcs
  <2>7. BothTyped(v, d)
    BY <1>2, <2>1, <2>2, <2>6 DEF BothInv, BothTyped
  <2>8. ReqInv(v, d)
    <3> SUFFICES ASSUME NEW i \in 1 .. Len(d.queue), d.queue[i].type = "req"
                 PROVE  /\ \A j \in 1 .. Len(d.queue) : d.queue[j].dir = d.queue[i].dir => j = i
                        /\ \A j \in 1 .. Len(q) : q[j].dir # d.queue[i].dir
                        /\ m[d.queue[i].dir] = 0
                        /\ t[d.queue[i].dir] = 0
                        /\ p[d.queue[i].dir] = 0
      BY <2>6 DEF ReqInv
    <3>1. /\ \A j \in 1 .. Len(d.queue) : d.queue[j].dir = d.queue[i].dir => j = i
          /\ \A j \in 1 .. Len(u.queue) : u.queue[j].dir # d.queue[i].dir
          /\ u.mcs[d.queue[i].dir] = 0 /\ u.timer[d.queue[i].dir] = 0
          /\ u.pending[d.queue[i].dir] = 0
      BY <1>2 DEF BothInv, ReqInv
    <3>2. d.queue[i].dir # dir /\ d.queue[i].dir \in Directions
      BY <1>6
    <3>3. \A j \in 1 .. Len(q) : q[j].dir # d.queue[i].dir
      BY <2>1, <2>2, <3>1, <3>2
    <3> QED
      BY <2>5, <3>1, <3>2, <3>3
  <2>9. OrderInv(v)
    <3> SUFFICES ASSUME NEW i \in 1 .. Len(q)
                 PROVE  /\ q[i].dir = DL => q[i].mcs = p[DL]
                        /\ q[i].dir = UL => m[UL] = 0 \/ q[i].mcs = m[UL]
      BY <1>2, <2>5, <2>6 DEF BothInv, OrderInv
    <3>1. CASE i \in 1 .. Len(u.queue) /\ q[i] = u.queue[i]
      <4>1. /\ q[i].dir = DL => q[i].mcs = u.pending[DL]
            /\ q[i].dir = UL => u.mcs[UL] = 0 \/ q[i].mcs = u.mcs[UL]
            /\ q[i].dir # dir
        BY <1>2, <1>5, <3>1 DEF BothInv, OrderInv
      <4> QED
        BY <2>5, <4>1
    <3>2. CASE i = Len(u.queue) + 1 /\ q[i] = Info(dir, mcs)
      BY <2>2, <2>5, <3>2
    <3> QED
      BY <2>1, <3>1, <3>2
  <2>10. AckInv(v, d)
    BY <1>2, <1>6, <2>5, <2>6 DEF BothInv, AckInv
  <2>11. FollowInv(v, d)
    <3>1. MAX_RESPONSE_TIME + 2 > 0
      BY McsAssumption DEF McsAssumption
    <3> QED
      BY <1>2, <1>5, <2>5, <2>6, <3>1 DEF BothInv, FollowInv
  <2> QED
    BY <2>7, <2>8, <2>9, <2>10, <2>11 DEF BothInv, v, d, dir, mcs
<1> QED
  BY <1>7, <1>8

(* mac_bs_process_mcs_change: an order is repeated, or its change cancelled. *)
LEMMA ChangeProcessed ==
  ASSUME NEW u, NEW c, BothInv(u, c), NEW dir \in Directions
  PROVE  BothInv(ProcessChange(u, dir), c)
<1> DEFINE v == ProcessChange(u, dir)
<1>1. /\ u \in McsUser /\ u.queue \in Seq(Messages) /\ Len(u.queue) < MAC_CTRL_MSG_BUF_SIZE
      /\ u.timer[dir] \in Timers /\ u.timer[dir] \in Nat
      /\ \A e \in Directions : u.mcs[e] \in Schemes /\ u.pending[e] \in Schemes
  <2>1. u \in McsUser /\ Len(u.queue) < MAC_CTRL_MSG_BUF_SIZE
    BY DEF BothInv, BothTyped
  <2>2. u.timer[dir] \in Timers
    BY <2>1 DEF McsUser
  <2> QED
    BY <2>1, <2>2 DEF McsUser, Timers
<1>2. DL \in Directions /\ UL \in Directions /\ DL # UL
  BY DEF Directions, DL, UL
<1>3. CASE u.timer[dir] = 0
  BY <1>3 DEF ProcessChange
<1>4. u.pending[UL] = 0
  BY DEF BothInv, OrderInv
<1>5. CASE u.timer[dir] = 1
  <2> DEFINE m == [u.mcs EXCEPT ![dir] = IF dir = UL THEN u.pending[UL] ELSE u.mcs[dir]]
             t == [u.timer EXCEPT ![dir] = 0]
  <2>1. v = [u EXCEPT !.timer = t, !.mcs = m]
    BY <1>1, <1>5 DEF ProcessChange, McsUser
  <2>2. m \in [Directions -> Schemes] /\ t \in [Directions -> Timers]
    <3>1. 0 \in Timers
      BY McsAssumption DEF McsAssumption, Timers
    <3> QED
      BY <1>1, <1>2, <3>1 DEF McsUser
  <2>3. /\ m[DL] = u.mcs[DL] /\ m[UL] = IF dir = UL THEN 0 ELSE u.mcs[UL]
        /\ t[UL] = IF dir = UL THEN 0 ELSE u.timer[UL]
        /\ \A e \in Directions : /\ u.mcs[e] = 0 => m[e] = 0
                                 /\ u.timer[e] = 0 => t[e] = 0
    BY <1>1, <1>2, <1>4 DEF McsUser, Directions
  <2> HIDE DEF m, t
  <2>4. v \in McsUser /\ v.queue = u.queue /\ v.pending = u.pending /\ v.mcs = m /\ v.timer = t
    <3> HIDE DEF v
    <3> QED
      BY <1>1, <2>1, <2>2 DEF McsUser
  <2> HIDE DEF v
  <2>5. BothTyped(v, c)
    BY <2>4 DEF BothInv, BothTyped
  <2>6. ReqInv(v, c)
    <3> SUFFICES ASSUME NEW i \in 1 .. Len(c.queue), c.queue[i].type = "req"
                 PROVE  /\ \A j \in 1 .. Len(c.queue) : c.queue[j].dir = c.queue[i].dir => j = i
                        /\ \A j \in 1 .. Len(u.queue) : u.queue[j].dir # c.queue[i].dir
                        /\ m[c.queue[i].dir] = 0
                        /\ t[c.queue[i].dir] = 0
                        /\ u.pending[c.queue[i].dir] = 0
      BY <2>4 DEF ReqInv
    <3>1. c.queue[i].dir \in Directions
      <4>1. c.queue[i] \in Messages
        BY DEF BothInv, BothTyped, McsUe
      <4> QED
        BY <4>1 DEF Messages
    <3> QED
      BY <2>3, <3>1 DEF BothInv, ReqInv
  <2>7. OrderInv(v)
    BY <2>3, <2>4 DEF BothInv, OrderInv
  <2>8. AckInv(v, c)
    BY <2>3, <2>4 DEF BothInv, AckInv
  <2>9. FollowInv(v, c)
    BY <2>3, <2>4 DEF BothInv, FollowInv
  <2> QED
    BY <2>5, <2>6, <2>7, <2>8, <2>9 DEF BothInv, v
<1>6. CASE u.timer[dir] > 1
  <2> DEFINE x == IF dir = UL THEN u.mcs[UL] ELSE u.pending[DL]
             q == Put(u.queue, Info(dir, x))
             t == [u.timer EXCEPT ![dir] = u.timer[dir] - 1]
  <2>0. Info(dir, x) \in Messages /\ Info(dir, x).type = "info"
        /\ Info(dir, x).dir = dir /\ Info(dir, x).mcs = x
    BY <1>1, <1>2 DEF Info, Messages
  <2>1. v = [u EXCEPT !.queue = q, !.timer = t]
    BY <1>1, <1>6 DEF ProcessChange, McsUser
  <2>2. /\ q \in Seq(Messages) /\ Len(q) < MAC_CTRL_MSG_BUF_SIZE
        /\ \A i \in 1 .. Len(q) : \/ i \in 1 .. Len(u.queue) /\ q[i] = u.queue[i]
                                  \/ i = Len(u.queue) + 1 /\ q[i] = Info(dir, x)
    <3>1. IsPutInto(u.queue, Info(dir, x), q)
      BY <1>1, <2>0, PutIs
    <3> QED
      BY ONLY <3>1 DEF IsPutInto
  <2>3. t \in [Directions -> Timers]
    <3>1. u.timer[dir] - 1 \in Timers
      BY <1>1, <1>6, McsAssumption DEF McsAssumption, Timers
    <3> QED
      BY <1>1, <3>1 DEF McsUser
  <2>4. /\ u.timer[UL] > 0 => t[UL] > 0
        /\ \A e \in Directions : e # dir => t[e] = u.timer[e]
    BY <1>1, <1>2, <1>6 DEF McsUser
  <2> HIDE DEF q, t, x
  <2>5. v \in McsUser /\ v.queue = q /\ v.pending = u.pending /\ v.mcs = u.mcs /\ v.timer = t
    <3> HIDE DEF v
    <3> QED
      BY <1>1, <2>1, <2>2, <2>3 DEF McsUser
  <2> HIDE DEF v
  <2>6. BothTyped(v, c)
    BY <2>0, <2>2, <2>5 DEF BothInv, BothTyped
  <2>7. ReqInv(v, c)
    <3> SUFFICES ASSUME NEW i \in 1 .. Len(c.queue), c.queue[i].type = "req"
                 PROVE  /\ \A j \in 1 .. Len(c.queue) : c.queue[j].dir = c.queue[i].dir => j = i
                        /\ \A j \in 1 .. Len(q) : q[j].dir # c.queue[i].dir
                        /\ u.mcs[c.queue[i].dir] = 0
                        /\ t[c.queue[i].dir] = 0
                        /\ u.pending[c.queue[i].dir] = 0
      BY <2>5 DEF ReqInv
    <3>1. c.queue[i].dir \in Directions
      <4>1. c.queue[i] \in Messages
        BY DEF BothInv, BothTyped, McsUe
      <4> QED
        BY <4>1 DEF Messages
    <3>2. /\ \A j \in 1 .. Len(c.queue) : c.queue[j].dir = c.queue[i].dir => j = i
          /\ \A j \in 1 .. Len(u.queue) : u.queue[j].dir # c.queue[i].dir
          /\ u.mcs[c.queue[i].dir] = 0 /\ u.timer[c.queue[i].dir] = 0
          /\ u.pending[c.queue[i].dir] = 0
      BY DEF BothInv, ReqInv
    <3>3. c.queue[i].dir # dir
      BY <1>6, <3>2
    <3>4. \A j \in 1 .. Len(q) : q[j].dir # c.queue[i].dir
      BY <2>0, <2>2, <3>2, <3>3
    <3> QED
      BY <2>4, <3>1, <3>2, <3>3, <3>4
  <2>8. OrderInv(v)
    <3> SUFFICES ASSUME NEW i \in 1 .. Len(q)
                 PROVE  /\ q[i].dir = DL => q[i].mcs = u.pending[DL]
                        /\ q[i].dir = UL => u.mcs[UL] = 0 \/ q[i].mcs = u.mcs[UL]
      BY <1>4, <2>5 DEF OrderInv
    <3>1. CASE i \in 1 .. Len(u.queue) /\ q[i] = u.queue[i]
      BY <3>1 DEF BothInv, OrderInv
    <3>2. CASE i = Len(u.queue) + 1 /\ q[i] = Info(dir, x)
      BY <1>2, <2>0, <3>2 DEF x
    <3> QED
      BY <2>2, <3>1, <3>2
  <2>9. AckInv(v, c)
    BY <2>5 DEF BothInv, AckInv
  <2>10. FollowInv(v, c)
    BY <2>4, <2>5 DEF BothInv, FollowInv
  <2> QED
    BY <2>6, <2>7, <2>8, <2>9, <2>10 DEF BothInv, v
<1> QED
  BY <1>1, <1>3, <1>5, <1>6

(* A slot's messages, one by one: those the client gets ...                *)
LEMMA OrdersFollowed ==
  ASSUME NEW u, NEW c, BothInv(u, c)
  PROVE  BothInv(u, FoldLeft(UeHandleMessage, c, u.queue))
<1>1. u.queue \in Seq(Messages) /\ Len(u.queue) \in Nat
  BY DEF BothInv, BothTyped, McsUser
<1>2. PICK f : /\ f[1 .. 0] = c
               /\ \A j \in 1 .. Len(u.queue) :
                    f[1 .. j] = UeHandleMessage(f[1 .. (j - 1)], u.queue[j])
               /\ FoldLeft(UeHandleMessage, c, u.queue) = f[1 .. Len(u.queue)]
  BY <1>1, UeHandlesAll
<1> DEFINE Bad == {j \in 0 .. Len(u.queue) : ~BothInv(u, f[1 .. j])}
<1>3. ASSUME Bad # {} PROVE FALSE
  <2>1. PICK j \in Bad : \A m \in Bad : j <= m
    <3>1. Bad \in SUBSET Nat
      BY <1>1
    <3> HIDE DEF Bad
    <3> QED
      BY <1>3, <3>1, Least
  <2>2. j \in 1 .. Len(u.queue)
    <3>1. j # 0
      BY <1>2, <2>1
    <3> QED
      BY <1>1, <2>1, <3>1
  <2>3. j - 1 \in 0 .. Len(u.queue) /\ ~(j <= j - 1)
    BY <1>1, <2>2
  <2>4. BothInv(u, f[1 .. (j - 1)])
    BY <2>1, <2>3
  <2>5. BothInv(u, UeHandleMessage(f[1 .. (j - 1)], u.queue[j]))
    BY <2>2, <2>4, OrderFollowed
  <2>6. BothInv(u, f[1 .. j])
    BY <1>2, <2>2, <2>5
  <2> QED
    BY <2>1, <2>6
<1>4. Len(u.queue) \in 0 .. Len(u.queue)
  BY <1>1
<1> QED
  BY <1>2, <1>3, <1>4

LEMMA WithoutAgain ==
  ASSUME NEW c \in McsUe, NEW j \in 1 .. Len(c.queue)
  PROVE  /\ Without(Without(c, j - 1), 1) = Without(c, j)
         /\ Without(c, j - 1).queue[1] = c.queue[j]
         /\ Len(Without(c, j - 1).queue) >= 1
<1>1. c.queue \in Seq(Messages) /\ Len(c.queue) \in Nat
  BY DEF McsUe
<1> DEFINE L == Len(c.queue)
           a == Without(c, j - 1)
           b == Without(a, 1)
           d == Without(c, j)
<1>2. L \in Nat /\ j \in 1 .. L /\ j - 1 \in 0 .. L /\ j \in 0 .. L
  BY <1>1
<1>3. /\ a \in McsUe /\ a.mcs = c.mcs /\ Len(a.queue) = L - (j - 1)
      /\ \A i \in 1 .. L - (j - 1) : a.queue[i] = c.queue[i + (j - 1)]
  BY <1>2, WithoutIs
<1>4. /\ d \in McsUe /\ d.mcs = c.mcs /\ Len(d.queue) = L - j
      /\ \A i \in 1 .. L - j : d.queue[i] = c.queue[i + j]
  BY <1>2, WithoutIs
<1> HIDE DEF L, a, d
<1>5. 1 \in 0 .. Len(a.queue) /\ Len(a.queue) \in Nat
  BY <1>2, <1>3
<1>6. /\ b \in McsUe /\ b.mcs = a.mcs /\ Len(b.queue) = Len(a.queue) - 1
      /\ \A i \in 1 .. Len(a.queue) - 1 : b.queue[i] = a.queue[i + 1]
  BY <1>3, <1>5, WithoutIs
<1> HIDE DEF b
<1>7. b.queue = d.queue
  <2>1. Len(b.queue) = Len(d.queue) /\ Len(d.queue) = L - j
    BY <1>2, <1>3, <1>4, <1>6
  <2>2. ASSUME NEW i \in 1 .. L - j PROVE b.queue[i] = d.queue[i]
    <3>1. i \in 1 .. Len(a.queue) - 1 /\ i + 1 \in 1 .. L - (j - 1)
      BY <1>2, <1>3
    <3>2. b.queue[i] = a.queue[i + 1] /\ a.queue[i + 1] = c.queue[(i + 1) + (j - 1)]
      BY <1>3, <1>6, <3>1
    <3>3. (i + 1) + (j - 1) = i + j
      BY <1>2
    <3> QED
      BY <1>4, <3>2, <3>3
  <2>3. b.queue \in Seq(Messages) /\ d.queue \in Seq(Messages)
    BY <1>4, <1>6 DEF McsUe
  <2> QED
    BY <2>1, <2>2, <2>3, SeqEqual
<1>8. b = d
  BY <1>3, <1>4, <1>6, <1>7 DEF McsUe
<1>9. a.queue[1] = c.queue[j]
  <2>1. 1 \in 1 .. L - (j - 1) /\ 1 + (j - 1) = j
    BY <1>2
  <2> QED
    BY <1>3, <2>1
<1> QED
  BY <1>2, <1>3, <1>8, <1>9 DEF a, b, d

(* ... and those the base station gets.                                    *)
LEMMA MessageHandled ==
  ASSUME NEW u, NEW c, BothInv(u, c), Len(c.queue) >= 1
  PROVE  BothInv(BsHandleMessage(u, c.queue[1]), Without(c, 1))
<1>1. c.queue[1].type \in {"req", "ack"}
  <2>1. 1 \in 1 .. Len(c.queue)
    BY DEF BothInv, BothTyped, McsUe
  <2> QED
    BY <2>1 DEF BothInv, BothTyped
<1>2. CASE c.queue[1].type = "req"
  <2>1. BsHandleMessage(u, c.queue[1]) = SetMcs(u, c.queue[1].dir, c.queue[1].mcs)
    BY <1>2 DEF BsHandleMessage
  <2> QED
    BY <1>2, <2>1, ReqHandled
<1>3. CASE c.queue[1].type = "ack"
  <2>1. BsHandleMessage(u, c.queue[1]) = HandleControlAck(u, c.queue[1].dir)
    BY <1>3 DEF BsHandleMessage
  <2> QED
    BY <1>3, <2>1, AckHandled
<1> QED
  BY <1>1, <1>2, <1>3

LEMMA MessagesHandled ==
  ASSUME NEW u, NEW c, BothInv(u, c), NEW n \in 0 .. Len(c.queue)
  PROVE  BothInv(FoldLeft(BsHandleMessage, u, SubSeq(c.queue, 1, n)), Without(c, n))
<1> DEFINE s == SubSeq(c.queue, 1, n)
<1>1. c \in McsUe /\ c.queue \in Seq(Messages) /\ Len(c.queue) \in Nat /\ n \in Nat
  BY DEF BothInv, BothTyped, McsUe
<1>2. s \in Seq(Messages) /\ Len(s) = n /\ \A j \in 1 .. n : s[j] = c.queue[j]
  BY <1>1
<1> HIDE DEF s
<1>3. PICK f : /\ f[1 .. 0] = u
               /\ \A j \in 1 .. Len(s) : f[1 .. j] = BsHandleMessage(f[1 .. (j - 1)], s[j])
               /\ FoldLeft(BsHandleMessage, u, s) = f[1 .. Len(s)]
  BY <1>2, BsHandlesAll
<1> DEFINE Bad == {j \in 0 .. n : ~BothInv(f[1 .. j], Without(c, j))}
<1>4. ASSUME Bad # {} PROVE FALSE
  <2>1. PICK j \in Bad : \A m \in Bad : j <= m
    <3>1. Bad \in SUBSET Nat
      BY <1>1
    <3> HIDE DEF Bad
    <3> QED
      BY <1>4, <3>1, Least
  <2>2. j \in 1 .. n
    <3>1. BothInv(u, Without(c, 0))
      <4>1. 0 \in 0 .. Len(c.queue)
        BY <1>1
      <4> QED
        BY <4>1, WithoutKeeps
    <3>2. j # 0
      BY <1>3, <2>1, <3>1
    <3> QED
      BY <1>1, <2>1, <3>2
  <2>3. j - 1 \in 0 .. n /\ ~(j <= j - 1) /\ j \in 1 .. Len(c.queue)
    BY <1>1, <2>2
  <2>4. BothInv(f[1 .. (j - 1)], Without(c, j - 1))
    BY <2>1, <2>3
  <2>5. /\ Without(Without(c, j - 1), 1) = Without(c, j)
        /\ Without(c, j - 1).queue[1] = s[j]
        /\ Len(Without(c, j - 1).queue) >= 1
    BY <1>1, <1>2, <2>2, <2>3, WithoutAgain
  <2>6. BothInv(BsHandleMessage(f[1 .. (j - 1)], s[j]), Without(c, j))
    BY <2>4, <2>5, MessageHandled
  <2>7. BothInv(f[1 .. j], Without(c, j))
    BY <1>2, <1>3, <2>2, <2>6
  <2> QED
    BY <2>1, <2>7
<1>5. n \in 0 .. n
  BY <1>1
<1> QED
  BY <1>2, <1>3, <1>4, <1>5 DEF s

(* The orders are in a slot, whether it is lost or not.                    *)
LEMMA OrdersSent ==
  ASSUME NEW u, NEW c, BothInv(u, c)
  PROVE  BothInv([u EXCEPT !.queue = <<>>], c)
<1> DEFINE v == [u EXCEPT !.queue = <<>>]
<1>1. u \in McsUser
  BY DEF BothInv, BothTyped
<1>2. <<>> \in Seq(Messages) /\ Len(<<>>) = 0 /\ 1 .. 0 = {}
  OBVIOUS
<1>3. /\ v \in McsUser /\ v.queue = <<>> /\ v.mcs = u.mcs
      /\ v.pending = u.pending /\ v.timer = u.timer
  BY <1>1, <1>2 DEF McsUser
<1>4. 0 < MAC_CTRL_MSG_BUF_SIZE
  BY McsAssumption DEF McsAssumption
<1> HIDE DEF v
<1>5. BothTyped(v, c)
  BY <1>2, <1>3, <1>4 DEF BothInv, BothTyped
<1>6. ReqInv(v, c)
  BY <1>2, <1>3 DEF BothInv, ReqInv
<1>7. OrderInv(v)
  BY <1>2, <1>3 DEF BothInv, OrderInv
<1>8. AckInv(v, c) /\ FollowInv(v, c)
  BY <1>3 DEF BothInv, AckInv, FollowInv
<1> QED
  BY <1>5, <1>6, <1>7, <1>8 DEF BothInv, v

McsInv ==
  /\ userid \in {2, MAX_USER - 1} /\ turn \in {"bs", "ue"}
  /\ sinceDl \in 0 .. MaxDlGap /\ sinceUl \in 0 .. MaxUlGap
  /\ lost \in BOOLEAN /\ associations \in 1 .. MaxAssociations
  /\ BothInv(user, ue)

(* A new user, and the requests of a client that starts.                   *)
LEMMA NewUserInv ==
  ASSUME NEW c \in McsUe, Len(c.queue) < MAC_CTRL_MSG_BUF_SIZE,
         \A i \in 1 .. Len(c.queue) : c.queue[i].type \in {"req", "ack"},
         \A i \in 1 .. Len(c.queue) : c.queue[i].type = "req" =>
           \A j \in 1 .. Len(c.queue) : c.queue[j].dir = c.queue[i].dir => j = i
  PROVE  BothInv(NewUser, c)
<1>1. 0 \in Schemes /\ 0 \in Timers /\ 0 < MAC_CTRL_MSG_BUF_SIZE
  BY McsAssumption DEF McsAssumption, Schemes, Timers
<1>2. /\ NewUser.queue = <<>> /\ NewUser.mcs = [d \in Directions |-> 0]
      /\ NewUser.timer = [d \in Directions |-> 0] /\ NewUser.pending = [d \in Directions |-> 0]
      /\ NewUser \in McsUser
  BY <1>1 DEF NewUser, McsUser
<1>3. <<>> \in Seq(Messages) /\ Len(<<>>) = 0 /\ 1 .. 0 = {}
  OBVIOUS
<1>4. DL \in Directions /\ UL \in Directions
  BY DEF Directions
<1>5. BothTyped(NewUser, c)
  BY <1>1, <1>2, <1>3 DEF BothTyped
<1>6. \A i \in 1 .. Len(c.queue) : c.queue[i].dir \in Directions
  <2> TAKE i \in 1 .. Len(c.queue)
  <2>1. c.queue[i] \in Messages
    BY DEF McsUe
  <2> QED
    BY <2>1 DEF Messages
<1>7. ReqInv(NewUser, c)
  BY <1>2, <1>3, <1>6 DEF ReqInv
<1>8. OrderInv(NewUser) /\ AckInv(NewUser, c) /\ FollowInv(NewUser, c)
  BY <1>2, <1>3, <1>4 DEF OrderInv, AckInv, FollowInv
<1> QED
  BY <1>5, <1>7, <1>8 DEF BothInv

LEMMA RequestsAre ==
  ASSUME NEW ul \in Schemes, NEW dl \in Schemes, NEW q, q = Requests(ul, dl)
  PROVE  /\ q \in Seq(Messages) /\ Len(q) <= 2
         /\ \A i \in 1 .. Len(q) : q[i].type = "req"
         /\ \A i, j \in 1 .. Len(q) : q[j].dir = q[i].dir => j = i
<1>1. /\ Req(UL, ul) \in Messages /\ Req(DL, dl) \in Messages
      /\ Req(UL, ul).type = "req" /\ Req(DL, dl).type = "req"
      /\ Req(UL, ul).dir = UL /\ Req(DL, dl).dir = DL /\ UL # DL
  BY DEF Req, Messages, Directions, UL, DL
<1> DEFINE s == IF ul > 0 THEN <<Req(UL, ul)>> ELSE <<>>
           t == IF dl > 0 THEN <<Req(DL, dl)>> ELSE <<>>
<1>2. q = s \o t
  BY DEF Requests
<1>3. s \in Seq(Messages) /\ Len(s) \in 0 .. 1 /\ \A i \in 1 .. Len(s) : s[i] = Req(UL, ul)
  <2>1. <<Req(UL, ul)>> \in Seq(Messages) /\ <<>> \in Seq(Messages)
    BY <1>1
  <2> QED
    BY <2>1
<1>4. t \in Seq(Messages) /\ Len(t) \in 0 .. 1 /\ \A i \in 1 .. Len(t) : t[i] = Req(DL, dl)
  <2>1. <<Req(DL, dl)>> \in Seq(Messages) /\ <<>> \in Seq(Messages)
    BY <1>1
  <2> QED
    BY <2>1
<1> HIDE DEF s, t
<1>5. /\ q \in Seq(Messages) /\ Len(q) = Len(s) + Len(t)
      /\ \A i \in 1 .. Len(q) : q[i] = IF i <= Len(s) THEN s[i] ELSE t[i - Len(s)]
  BY <1>2, <1>3, <1>4
<1>6. \A i \in 1 .. Len(q) : \/ i \in 1 .. Len(s) /\ q[i] = Req(UL, ul)
                             \/ i - Len(s) \in 1 .. Len(t) /\ q[i] = Req(DL, dl)
  BY <1>3, <1>4, <1>5
<1> QED
  BY <1>1, <1>3, <1>4, <1>5, <1>6

LEMMA McsInitial == McsInit => McsInv
<1> SUFFICES ASSUME McsInit PROVE McsInv
  OBVIOUS
<1>0. /\ MAX_USER \in Nat /\ MaxDlGap \in Nat /\ MaxUlGap \in Nat
      /\ MaxAssociations \in Nat \ {0} /\ MAC_CTRL_MSG_BUF_SIZE \in Nat
      /\ MAC_CTRL_MSG_BUF_SIZE >= 3 /\ 0 \in Schemes
  BY McsAssumption DEF McsAssumption, Schemes
<1>1. PICK ul \in Schemes, dl \in Schemes :
        ue = [mcs |-> [d \in Directions |-> 0], queue |-> Requests(ul, dl)]
  BY DEF McsInit
<1> DEFINE q == Requests(ul, dl)
<1>2. /\ q \in Seq(Messages) /\ Len(q) <= 2
      /\ \A i \in 1 .. Len(q) : q[i].type = "req"
      /\ \A i, j \in 1 .. Len(q) : q[j].dir = q[i].dir => j = i
  BY RequestsAre
<1> HIDE DEF q
<1>3. ue.queue = q /\ ue \in McsUe
  BY <1>0, <1>1, <1>2 DEF McsUe, q
<1>4. Len(ue.queue) < MAC_CTRL_MSG_BUF_SIZE
  BY <1>0, <1>2, <1>3
<1>5. BothInv(NewUser, ue)
  BY <1>2, <1>3, <1>4, NewUserInv
<1>6. /\ userid \in {2, MAX_USER - 1} /\ turn = "bs" /\ sinceDl = 0 /\ sinceUl = 0
      /\ lost = FALSE /\ associations = 1 /\ user = NewUser
  BY DEF McsInit
<1>7. 0 \in 0 .. MaxDlGap /\ 0 \in 0 .. MaxUlGap /\ 1 \in 1 .. MaxAssociations
  BY <1>0
<1> QED
  BY <1>5, <1>6, <1>7 DEF McsInv

LEMMA BsRunKeeps == ASSUME McsInv, BsRun PROVE McsInv'
<1> DEFINE u == ProcessMcsChange(user)
<1>1. DL \in Directions /\ UL \in Directions
  BY DEF Directions
<1>2. BothInv(u, ue)
  <2>1. BothInv(user, ue)
    BY DEF McsInv
  <2>2. BothInv(ProcessChange(user, DL), ue)
    BY <1>1, <2>1, ChangeProcessed
  <2>3. BothInv(ProcessChange(ProcessChange(user, DL), UL), ue)
    BY <1>1, <2>2, ChangeProcessed
  <2> QED
    BY <2>1, <2>3 DEF ProcessMcsChange
<1>3. /\ turn' = "ue" /\ userid' = userid /\ sinceUl' = sinceUl
      /\ associations' = associations
      /\ \/ /\ u.queue = <<>> \/ sinceDl < MaxDlGap
            /\ user' = u /\ ue' = ue /\ lost' = lost
            /\ sinceDl' = IF u.queue = <<>> THEN 0 ELSE sinceDl + 1
         \/ /\ user' = [u EXCEPT !.queue = <<>>] /\ sinceDl' = 0
            /\ \/ ue' = ue /\ lost' = TRUE
               \/ lost' = lost /\ ue' \in {FoldLeft(UeHandleMessage, ue, u.queue), ue}
  BY DEF BsRun
<1> HIDE DEF u
<1>4. BothInv(u, FoldLeft(UeHandleMessage, ue, u.queue))
  BY <1>2, OrdersFollowed
<1>5. BothInv(user', ue')
  BY <1>2, <1>3, <1>4, OrdersSent
<1>6. sinceDl' \in 0 .. MaxDlGap
  BY <1>3, McsAssumption DEF McsInv, McsAssumption
<1> QED
  BY <1>3, <1>5, <1>6 DEF McsInv

LEMMA SendKeeps ==
  ASSUME BothInv(user, ue), lost \in BOOLEAN, NEW n \in 0 .. Len(ue.queue),
         NEW received \in BOOLEAN, Send(n, received)
  PROVE  BothInv(user', ue') /\ lost' \in BOOLEAN
<1>1. ue' = Without(ue, n)
  BY DEF Send, Without
<1>2. BothInv(user, Without(ue, n))
  BY WithoutKeeps
<1>3. BothInv(FoldLeft(BsHandleMessage, user, SubSeq(ue.queue, 1, n)), Without(ue, n))
  BY MessagesHandled
<1>4. user' \in {user, FoldLeft(BsHandleMessage, user, SubSeq(ue.queue, 1, n))}
  BY DEF Send
<1>5. lost' \in {lost, lost \/ n > 0}
  BY DEF Send
<1> QED
  BY <1>1, <1>2, <1>3, <1>4, <1>5

LEMMA UeRunKeeps == ASSUME McsInv, UeRun PROVE McsInv'
<1>0. Len(ue.queue) \in Nat /\ MaxUlGap \in Nat /\ sinceUl \in 0 .. MaxUlGap
      /\ BothInv(user, ue) /\ lost \in BOOLEAN
  BY McsAssumption DEF McsInv, BothInv, BothTyped, McsUe, McsAssumption
<1>1. /\ turn' = "bs" /\ userid' = userid /\ sinceDl' = sinceDl
      /\ associations' = associations
  BY DEF UeRun
<1>2. sinceUl' \in 0 .. MaxUlGap
  <2>1. sinceUl' = 0 \/ (sinceUl < MaxUlGap /\ sinceUl' = sinceUl + 1)
    BY DEF UeRun
  <2> QED
    BY <1>0, <2>1
<1>3. \/ user' = user /\ ue' = ue /\ lost' = lost
      \/ \E n \in 0 .. Len(ue.queue), received \in BOOLEAN : Send(n, received)
  <2>1. CASE Send(Len(ue.queue), ue.mcs[UL] = user.mcs[UL])
    <3>1. Len(ue.queue) \in 0 .. Len(ue.queue) /\ (ue.mcs[UL] = user.mcs[UL]) \in BOOLEAN
      BY <1>0
    <3> QED
      BY <2>1, <3>1
  <2>2. CASE \E n \in {k \in {1, 2, Len(ue.queue)} : k <= Len(ue.queue)} : Send(n, TRUE)
    <3>1. \A n \in {k \in {1, 2, Len(ue.queue)} : k <= Len(ue.queue)} :
            n \in 0 .. Len(ue.queue)
      BY <1>0
    <3> QED
      BY <2>2, <3>1
  <2> QED
    BY <2>1, <2>2 DEF UeRun
<1>4. BothInv(user', ue') /\ lost' \in BOOLEAN
  BY <1>0, <1>3, SendKeeps
<1> QED
  BY <1>1, <1>2, <1>4 DEF McsInv

LEMMA AssociateKeeps == ASSUME McsInv, Associate PROVE McsInv'
<1>1. /\ associations < MaxAssociations /\ associations' = associations + 1
      /\ user' = NewUser /\ lost' = FALSE /\ sinceDl' = 0
      /\ userid' = userid /\ turn' = turn /\ sinceUl' = sinceUl
      /\ ue' = [ue EXCEPT !.mcs = [d \in Directions |-> 0]]
  BY DEF Associate
<1>2. /\ ue \in McsUe /\ Len(ue.queue) < MAC_CTRL_MSG_BUF_SIZE
      /\ \A i \in 1 .. Len(ue.queue) : ue.queue[i].type \in {"req", "ack"}
      /\ \A i \in 1 .. Len(ue.queue) : ue.queue[i].type = "req" =>
           \A j \in 1 .. Len(ue.queue) : ue.queue[j].dir = ue.queue[i].dir => j = i
  BY DEF McsInv, BothInv, BothTyped, ReqInv
<1>3. ue' \in McsUe /\ ue'.queue = ue.queue
  <2>1. 0 \in Schemes
    BY McsAssumption DEF McsAssumption, Schemes
  <2> QED
    BY <1>1, <1>2, <2>1 DEF McsUe
<1>4. BothInv(user', ue')
  <2> DEFINE c == ue'
  <2>1. /\ c \in McsUe /\ Len(c.queue) < MAC_CTRL_MSG_BUF_SIZE
        /\ \A i \in 1 .. Len(c.queue) : c.queue[i].type \in {"req", "ack"}
        /\ \A i \in 1 .. Len(c.queue) : c.queue[i].type = "req" =>
             \A j \in 1 .. Len(c.queue) : c.queue[j].dir = c.queue[i].dir => j = i
    BY <1>2, <1>3
  <2> HIDE DEF c
  <2>2. BothInv(NewUser, c)
    BY <2>1, NewUserInv
  <2> QED
    BY <1>1, <2>2 DEF c
<1>5. sinceDl' \in 0 .. MaxDlGap /\ associations' \in 1 .. MaxAssociations
  BY <1>1, McsAssumption DEF McsInv, McsAssumption
<1> QED
  BY <1>1, <1>4, <1>5 DEF McsInv

LEMMA McsKept == McsInv /\ [McsNext]_mcsVars => McsInv'
<1> SUFFICES ASSUME McsInv, [McsNext]_mcsVars PROVE McsInv'
  OBVIOUS
<1>1. CASE UNCHANGED mcsVars
  BY <1>1 DEF mcsVars, McsInv
<1> QED
  BY <1>1, BsRunKeeps, UeRunKeeps, AssociateKeeps DEF McsNext

LEMMA McsInvImplies == McsInv => McsTypeOK /\ FollowsClient
<1> SUFFICES ASSUME McsInv PROVE McsTypeOK /\ FollowsClient
  OBVIOUS
<1>1. McsTypeOK
  BY DEF McsInv, BothInv, BothTyped, McsUser, McsUe, McsTypeOK, Timers
<1>2. FollowsClient
  BY DEF McsInv, BothInv, FollowInv, FollowsClient, Agree
<1> QED
  BY <1>1, <1>2

(* The change of modulation is well typed: no timer leaves its range, and  *)
(* no queue holds more than it can (mac_bs.c 155-180, 427-467).            *)
THEOREM McsTypeCorrect == McsSpec => []McsTypeOK
<1> QED
  BY McsInitial, McsKept, McsInvImplies, PTL DEF McsSpec

(* For any number of modulations and any times, queues and losses, the     *)
(* base station sends in no modulation the client has not switched to, and *)
(* listens in another only while it can take the change back.              *)
THEOREM ClientAlwaysFollowed == McsSpec => []FollowsClient
<1> QED
  BY McsInitial, McsKept, McsInvImplies, PTL DEF McsSpec

---------------------------------------------------------------------------
(* What AgreeUnlessLost rests on: in a session in which no slot is lost,   *)
(* the acknowledgment of a new uplink modulation comes before the change   *)
(* has expired.                                                            *)

(* The order must get to the client while the client waits for a control   *)
(* slot, and the acknowledgment may wait behind a request.  (An order      *)
(* lives for 32 subframes, and control slots come every 8.)                *)
InTime ==
  /\ MAX_RESPONSE_TIME >= 2 * MaxUlGap + 1
  /\ MAX_RESPONSE_TIME >= MaxDlGap + MaxUlGap

(* The request for the uplink is the first message of all.                 *)
StartInv(u, c) ==
  \A i \in 1 .. Len(c.queue) : c.queue[i].type = "req" /\ c.queue[i].dir = UL =>
    /\ i = 1 /\ Len(c.queue) <= 2
    /\ \A j \in 1 .. Len(c.queue) : c.queue[j].type = "req"
    /\ u = NewUser /\ c.mcs[DL] = 0 /\ c.mcs[UL] = 0

(* No order is of a change that has expired: none does.                    *)
UlOrders(u) ==
  \A i \in 1 .. Len(u.queue) : u.queue[i].dir = UL => u.queue[i].mcs = u.mcs[UL]

(* A client with another downlink has acknowledged it.                     *)
DlAgrees(u, c) ==
  \/ c.mcs[DL] = u.mcs[DL]
  \/ /\ c.mcs[DL] = u.pending[DL]
     /\ \E i \in 1 .. Len(c.queue) : c.queue[i].type = "ack" /\ c.queue[i].dir = DL

(* The change of the uplink: there is none, or the order is in the queue   *)
(* and has been for at most d subframes, or the client has taken it and    *)
(* the acknowledgment is the first message in its queue, or the second.    *)
(* l is for how many subframes there has not been a control slot.          *)
Through(u, c) == u.timer[UL] = 0 /\ c.mcs[UL] = u.mcs[UL]

Ordered(u, c, d, l) ==
  /\ Len(u.queue) >= 1 /\ u.queue[1].dir = UL
  /\ Len(c.queue) <= 1 /\ \A i \in 1 .. Len(c.queue) : c.queue[i].type = "req"
  /\ c.mcs[DL] = 0 /\ u.mcs[DL] = 0
  /\ u.timer[UL] > 0 /\ u.timer[UL] >= MAX_RESPONSE_TIME + 2 - d
  /\ Len(c.queue) = 1 => u.timer[UL] >= MAX_RESPONSE_TIME + 2 - l

IsUlAck(msg) == msg.type = "ack" /\ msg.dir = UL

Told(u, c, l) ==
  /\ c.mcs[UL] = u.mcs[UL]
  /\ \/ /\ Len(c.queue) >= 1 /\ IsUlAck(c.queue[1])
        /\ u.timer[UL] >= MaxUlGap + 2 - l
     \/ /\ Len(c.queue) >= 2 /\ IsUlAck(c.queue[2]) /\ c.queue[1].type = "req"
        /\ u.timer[UL] >= 2 * MaxUlGap + 3 - l

AgreeInv(u, c, d, l) ==
  /\ UlOrders(u) /\ DlAgrees(u, c)
  /\ Through(u, c) \/ Ordered(u, c, d, l) \/ Told(u, c, l)

Waited == IF turn = "bs" THEN sinceUl ELSE sinceUl + 1

KeptInv == StartInv(user, ue) /\ (lost \/ AgreeInv(user, ue, sinceDl, Waited))

(* What the helpers do to a user. *)
LEMMA AckFields ==
  ASSUME NEW u \in McsUser, NEW dir \in Directions
  PROVE  LET v == HandleControlAck(u, dir)
         IN  /\ v.queue = u.queue /\ v.pending = u.pending
             /\ v.mcs[DL] = (IF dir = DL THEN u.pending[DL] ELSE u.mcs[DL])
             /\ v.mcs[UL] = u.mcs[UL]
             /\ v.timer[UL] = IF dir = UL THEN 0 ELSE u.timer[UL]
<1> DEFINE v == HandleControlAck(u, dir)
           m == [u.mcs EXCEPT ![dir] = IF dir = DL THEN u.pending[DL] ELSE u.mcs[dir]]
           t == [u.timer EXCEPT ![dir] = 0]
<1>1. v = [u EXCEPT !.mcs = m, !.timer = t]
  BY DEF HandleControlAck, McsUser
<1>2. /\ m[DL] = (IF dir = DL THEN u.pending[DL] ELSE u.mcs[DL])
      /\ m[UL] = u.mcs[UL]
      /\ t[UL] = IF dir = UL THEN 0 ELSE u.timer[UL]
  BY DEF McsUser, Directions, DL, UL
<1> HIDE DEF m, t, v
<1>3. v.queue = u.queue /\ v.pending = u.pending /\ v.mcs = m /\ v.timer = t
  BY <1>1 DEF McsUser
<1> QED
  BY <1>2, <1>3 DEF v

LEMMA PutKeeps ==
  ASSUME NEW q \in Seq(Messages), NEW msg \in Messages, Len(q) < MAC_CTRL_MSG_BUF_SIZE
  PROVE  /\ Len(q) >= 1 => Len(Put(q, msg)) >= 1 /\ Put(q, msg)[1] = q[1]
         /\ \A i \in 1 .. Len(Put(q, msg)) : \/ i \in 1 .. Len(q) /\ Put(q, msg)[i] = q[i]
                                             \/ Put(q, msg)[i] = msg
<1>1. Put(q, msg) = q \/ Put(q, msg) = Append(q, msg)
  BY DEF Put
<1>2. CASE Put(q, msg) = q
  BY <1>2
<1>3. CASE Put(q, msg) = Append(q, msg)
  <2> DEFINE r == Append(q, msg)
  <2>1. /\ Len(q) \in Nat /\ Len(r) = Len(q) + 1 /\ r[Len(q) + 1] = msg
        /\ \A i \in 1 .. Len(q) : r[i] = q[i]
    OBVIOUS
  <2> HIDE DEF r
  <2>2. \A i \in 1 .. Len(r) : i \in 1 .. Len(q) \/ i = Len(q) + 1
    BY <2>1
  <2>3. Len(q) >= 1 => 1 \in 1 .. Len(q)
    BY <2>1
  <2> QED
    BY <1>3, <2>1, <2>2, <2>3 DEF r
<1> QED
  BY <1>1, <1>2, <1>3

(* A request for the downlink changes nothing but the queue, and what is   *)
(* of the downlink's change.                                               *)
LEMMA DlRequested ==
  ASSUME NEW u \in McsUser, NEW mcs \in Schemes, Len(u.queue) < MAC_CTRL_MSG_BUF_SIZE
  PROVE  LET v == SetMcs(u, DL, mcs)
         IN  /\ v.mcs = u.mcs /\ v.timer[UL] = u.timer[UL]
             /\ Len(u.queue) >= 1 => Len(v.queue) >= 1 /\ v.queue[1] = u.queue[1]
             /\ UlOrders(u) => UlOrders(v)
<1> DEFINE v == SetMcs(u, DL, mcs)
           q == Put(u.queue, Info(DL, mcs))
           p == [u.pending EXCEPT ![DL] = mcs]
           t == [u.timer EXCEPT ![DL] = MAX_RESPONSE_TIME + 2]
<1>1. CASE ~IsPut(u.queue)
  BY <1>1 DEF SetMcs
<1>2. CASE IsPut(u.queue)
  <2>1. v = [u EXCEPT !.queue = q, !.pending = p, !.timer = t]
    BY <1>2 DEF SetMcs, McsUser
  <2>2. t[UL] = u.timer[UL]
    BY DEF McsUser, Directions, DL, UL
  <2>3. Info(DL, mcs) \in Messages /\ Info(DL, mcs).dir # UL /\ u.queue \in Seq(Messages)
    BY DEF Info, Messages, Directions, DL, UL, McsUser
  <2>4. /\ Len(u.queue) >= 1 => Len(q) >= 1 /\ q[1] = u.queue[1]
        /\ \A i \in 1 .. Len(q) : \/ i \in 1 .. Len(u.queue) /\ q[i] = u.queue[i]
                                  \/ q[i] = Info(DL, mcs)
    BY <2>3, PutKeeps
  <2> HIDE DEF q, p, t, v
  <2>5. v.queue = q /\ v.mcs = u.mcs /\ v.timer = t
    BY <2>1 DEF McsUser
  <2>6. UlOrders(u) => UlOrders(v)
    BY <2>3, <2>4, <2>5 DEF UlOrders
  <2> QED
    BY <2>2, <2>4, <2>5, <2>6 DEF v
<1> QED
  BY <1>1, <1>2

(* Behind the first message there is no request for the uplink.            *)
LEMMA RestStarted ==
  ASSUME NEW u, NEW v, NEW c \in McsUe, StartInv(u, c), NEW n \in 1 .. Len(c.queue)
  PROVE  StartInv(v, Without(c, n))
<1>1. Len(c.queue) \in Nat /\ n \in 0 .. Len(c.queue)
  BY DEF McsUe
<1> DEFINE d == Without(c, n)
<1>2. /\ Len(d.queue) = Len(c.queue) - n
      /\ \A i \in 1 .. Len(c.queue) - n :
           i + n \in 1 .. Len(c.queue) /\ d.queue[i] = c.queue[i + n]
  BY <1>1, WithoutIs
<1> HIDE DEF d
<1>3. ASSUME NEW i \in 1 .. Len(d.queue), d.queue[i].type = "req", d.queue[i].dir = UL
      PROVE  FALSE
  <2>1. i + n \in 1 .. Len(c.queue) /\ d.queue[i] = c.queue[i + n] /\ i + n # 1
    BY <1>1, <1>2
  <2> QED
    BY <1>3, <2>1 DEF StartInv
<1> QED
  BY <1>3 DEF StartInv, d

(* A message that the base station gets, after which there has been a slot *)
(* for the client.                                                         *)
LEMMA AckAgrees ==
  ASSUME NEW u, NEW c, BothInv(u, c), Len(c.queue) >= 1, c.queue[1].type = "ack",
         NEW d \in Nat, NEW l \in 0 .. MaxUlGap + 1, AgreeInv(u, c, d, l)
  PROVE  AgreeInv(HandleControlAck(u, c.queue[1].dir), Without(c, 1), d, 0)
<1> DEFINE dir == c.queue[1].dir
           e == Without(c, 1)
           v == HandleControlAck(u, dir)
<1>1. /\ u \in McsUser /\ c \in McsUe /\ Len(c.queue) \in Nat /\ 1 \in 1 .. Len(c.queue)
      /\ c.queue \in Seq(Messages)
  BY DEF BothInv, BothTyped, McsUe
<1>2. dir \in Directions
  <2>1. c.queue[1] \in Messages
    BY <1>1
  <2> QED
    BY <2>1 DEF Messages
<1>3. /\ v.queue = u.queue /\ v.pending = u.pending
      /\ v.mcs[DL] = (IF dir = DL THEN u.pending[DL] ELSE u.mcs[DL])
      /\ v.mcs[UL] = u.mcs[UL]
      /\ v.timer[UL] = IF dir = UL THEN 0 ELSE u.timer[UL]
  BY <1>1, <1>2, AckFields
<1>4. /\ e.mcs = c.mcs /\ Len(e.queue) = Len(c.queue) - 1
      /\ \A i \in 1 .. Len(c.queue) - 1 :
           i + 1 \in 1 .. Len(c.queue) /\ e.queue[i] = c.queue[i + 1]
  <2>1. 1 \in 0 .. Len(c.queue)
    BY <1>1
  <2> QED
    BY ONLY <1>1, <2>1, WithoutIs DEF e
<1> HIDE DEF dir, e, v
<1>5. UlOrders(v)
  BY <1>3 DEF AgreeInv, UlOrders
<1>6. DlAgrees(v, e)
  <2>1. CASE dir = DL
    <3>1. u.pending[DL] = 0 \/ c.mcs[DL] = u.pending[DL]
      BY <1>1, <2>1 DEF BothInv, AckInv, dir
    <3>2. u.mcs[DL] # 0 => u.mcs[DL] = u.pending[DL]
      BY DEF BothInv, FollowInv
    <3>3. c.mcs[DL] = u.mcs[DL] \/ c.mcs[DL] = u.pending[DL]
      BY DEF AgreeInv, DlAgrees
    <3>4. c.mcs[DL] = u.pending[DL]
      BY <3>1, <3>2, <3>3
    <3> QED
      BY <1>3, <1>4, <2>1, <3>4 DEF DlAgrees
  <2>2. CASE dir # DL
    <3>1. CASE c.mcs[DL] = u.mcs[DL]
      BY <1>3, <1>4, <2>2, <3>1 DEF DlAgrees
    <3>2. CASE /\ c.mcs[DL] = u.pending[DL]
               /\ \E i \in 1 .. Len(c.queue) : c.queue[i].type = "ack" /\ c.queue[i].dir = DL
      <4>1. PICK i \in 1 .. Len(c.queue) : c.queue[i].type = "ack" /\ c.queue[i].dir = DL
        BY <3>2
      <4>2. i # 1
        BY <2>2, <4>1 DEF dir
      <4>3. i - 1 \in 1 .. Len(c.queue) - 1 /\ (i - 1) + 1 = i
        BY <1>1, <4>1, <4>2
      <4>4. i - 1 \in 1 .. Len(e.queue) /\ e.queue[i - 1] = c.queue[i]
        BY <1>4, <4>3
      <4> QED
        BY <1>3, <1>4, <3>2, <4>1, <4>4 DEF DlAgrees
    <3> QED
      BY <3>1, <3>2 DEF AgreeInv, DlAgrees
  <2> QED
    BY <2>1, <2>2
<1>7. Through(v, e)
  <2>1. CASE Through(u, c)
    BY <1>3, <1>4, <2>1 DEF Through
  <2>2. CASE Ordered(u, c, d, l)
    BY <1>1, <2>2 DEF Ordered
  <2>3. CASE Told(u, c, l)
    <3>1. IsUlAck(c.queue[1])
      BY <2>3 DEF Told
    <3>2. dir = UL
      BY <3>1 DEF IsUlAck, dir
    <3> QED
      BY <1>3, <1>4, <2>3, <3>2 DEF Told, Through
  <2> QED
    BY <2>1, <2>2, <2>3 DEF AgreeInv
<1> QED
  BY <1>5, <1>6, <1>7 DEF AgreeInv, dir, e, v

LEMMA DlReqAgrees ==
  ASSUME NEW u, NEW c, BothInv(u, c), Len(c.queue) >= 1, c.queue[1].type = "req",
         c.queue[1].dir = DL, NEW d \in Nat, NEW l \in 0 .. MaxUlGap + 1, AgreeInv(u, c, d, l)
  PROVE  AgreeInv(SetMcs(u, DL, c.queue[1].mcs), Without(c, 1), d, 0)
<1> DEFINE mcs == c.queue[1].mcs
           e == Without(c, 1)
           v == SetMcs(u, DL, mcs)
<1>0. MaxUlGap \in Nat /\ MAX_RESPONSE_TIME \in Nat
  BY McsAssumption DEF McsAssumption
<1>1. /\ u \in McsUser /\ c \in McsUe /\ Len(c.queue) \in Nat /\ 1 \in 1 .. Len(c.queue)
      /\ c.queue \in Seq(Messages) /\ Len(u.queue) < MAC_CTRL_MSG_BUF_SIZE
  BY DEF BothInv, BothTyped, McsUe
<1>2. mcs \in Schemes
  <2>1. c.queue[1] \in Messages
    BY <1>1
  <2> QED
    BY <2>1 DEF Messages
<1>3. /\ v.mcs = u.mcs /\ v.timer[UL] = u.timer[UL]
      /\ Len(u.queue) >= 1 => Len(v.queue) >= 1 /\ v.queue[1] = u.queue[1]
      /\ UlOrders(u) => UlOrders(v)
  BY <1>1, <1>2, DlRequested
<1>4. /\ e.mcs = c.mcs /\ Len(e.queue) = Len(c.queue) - 1
      /\ \A i \in 1 .. Len(c.queue) - 1 :
           i + 1 \in 1 .. Len(c.queue) /\ e.queue[i] = c.queue[i + 1]
  <2>1. 1 \in 0 .. Len(c.queue)
    BY <1>1
  <2> QED
    BY ONLY <1>1, <2>1, WithoutIs DEF e
<1>5. u.timer[UL] \in Nat
  BY <1>0, <1>1 DEF McsUser, Timers, Directions
<1> HIDE DEF mcs, e, v
<1>6. UlOrders(v)
  BY <1>3 DEF AgreeInv
<1>7. DlAgrees(v, e)
  <2>1. \A j \in 1 .. Len(c.queue) : c.queue[j].dir = DL => j = 1
    BY <1>1 DEF BothInv, ReqInv
  <2>2. ~\E i \in 1 .. Len(c.queue) : c.queue[i].type = "ack" /\ c.queue[i].dir = DL
    BY <2>1
  <2>3. c.mcs[DL] = u.mcs[DL]
    BY <2>2 DEF AgreeInv, DlAgrees
  <2> QED
    BY <1>3, <1>4, <2>3 DEF DlAgrees
<1>8. Through(v, e) \/ Ordered(v, e, d, 0) \/ Told(v, e, 0)
  <2>1. CASE Through(u, c)
    BY <1>3, <1>4, <2>1 DEF Through
  <2>2. CASE Ordered(u, c, d, l)
    <3>1. /\ Len(u.queue) >= 1 /\ u.queue[1].dir = UL /\ Len(c.queue) <= 1
          /\ c.mcs[DL] = 0 /\ u.mcs[DL] = 0
          /\ u.timer[UL] > 0 /\ u.timer[UL] >= MAX_RESPONSE_TIME + 2 - d
      BY <2>2 DEF Ordered
    <3>2. Len(c.queue) = 1
      <4>1. Len(c.queue) \in Nat /\ Len(c.queue) <= 1
        BY <1>1, <3>1
      <4>2. \A n \in Nat : n <= 1 /\ n >= 1 => n = 1
        OBVIOUS
      <4> QED
        BY ONLY <4>1, <4>2, Len(c.queue) >= 1, Zenon
    <3>3. Len(e.queue) = 0
      BY <1>4, <3>2
    <3>4. Len(e.queue) <= 1 /\ Len(e.queue) # 1 /\ 1 .. Len(e.queue) = {}
      BY <3>3
    <3>5. /\ Len(v.queue) >= 1 /\ v.queue[1].dir = UL
          /\ e.mcs[DL] = 0 /\ v.mcs[DL] = 0
          /\ v.timer[UL] > 0 /\ v.timer[UL] >= MAX_RESPONSE_TIME + 2 - d
      BY <1>3, <1>4, <3>1
    <3>6. Ordered(v, e, d, 0)
      BY <3>4, <3>5 DEF Ordered
    <3> QED
      BY <3>6
  <2>3. CASE Told(u, c, l)
    <3>1. /\ c.mcs[UL] = u.mcs[UL] /\ Len(c.queue) >= 2 /\ IsUlAck(c.queue[2])
          /\ u.timer[UL] >= 2 * MaxUlGap + 3 - l
      BY <2>3 DEF Told, IsUlAck
    <3>2. 1 \in 1 .. Len(c.queue) - 1 /\ 1 + 1 = 2
      BY <1>1, <3>1
    <3>3. Len(e.queue) >= 1 /\ e.queue[1] = c.queue[2]
      BY <1>1, <1>4, <3>1, <3>2
    <3>4. u.timer[UL] >= MaxUlGap + 2 - 0
      BY <1>0, <1>5, <3>1
    <3> QED
      BY <1>3, <1>4, <3>1, <3>3, <3>4 DEF Told
  <2> QED
    BY <2>1, <2>2, <2>3 DEF AgreeInv
<1> QED
  BY <1>6, <1>7, <1>8 DEF AgreeInv, mcs, e, v

(* The request for the uplink: everything else is as it was at the start,  *)
(* and the order is made.                                                  *)
LEMMA UlReqAgrees ==
  ASSUME NEW u, NEW c, BothInv(u, c), Len(c.queue) >= 1, c.queue[1].type = "req",
         c.queue[1].dir = UL, NEW d \in Nat, StartInv(u, c)
  PROVE  AgreeInv(SetMcs(u, UL, c.queue[1].mcs), Without(c, 1), d, 0)
<1> DEFINE mcs == c.queue[1].mcs
           e == Without(c, 1)
           v == SetMcs(u, UL, mcs)
           q == <<Info(UL, mcs)>>
<1>0. /\ MaxUlGap \in Nat /\ MAX_RESPONSE_TIME \in Nat
      /\ MAC_CTRL_MSG_BUF_SIZE \in Nat /\ MAC_CTRL_MSG_BUF_SIZE >= 3
  BY McsAssumption DEF McsAssumption
<1>1. /\ c \in McsUe /\ Len(c.queue) \in Nat /\ 1 \in 1 .. Len(c.queue)
      /\ c.queue \in Seq(Messages)
  BY DEF BothInv, BothTyped, McsUe
<1>2. /\ Len(c.queue) <= 2 /\ u = NewUser /\ c.mcs[DL] = 0
      /\ \A j \in 1 .. Len(c.queue) : c.queue[j].type = "req"
  BY <1>1 DEF StartInv
<1>3. /\ v.queue = q /\ v.mcs[UL] = mcs /\ v.mcs[DL] = 0
      /\ v.timer[UL] = MAX_RESPONSE_TIME + 2
  <2>1. /\ u.queue = <<>> /\ u.mcs = [x \in Directions |-> 0]
        /\ u.pending = [x \in Directions |-> 0] /\ u.timer = [x \in Directions |-> 0]
        /\ u = [mcs |-> [x \in Directions |-> 0], pending |-> [x \in Directions |-> 0],
                timer |-> [x \in Directions |-> 0], queue |-> <<>>]
    BY <1>2 DEF NewUser
  <2>2. IsPut(u.queue) /\ Put(u.queue, Info(UL, mcs)) = q
    <3>1. Len(<<>>) = 0 /\ 0 < MAC_CTRL_MSG_BUF_SIZE - 1
      BY <1>0
    <3>2. IsPut(u.queue)
      BY <2>1, <3>1 DEF IsPut
    <3>3. Put(u.queue, Info(UL, mcs)) = Append(<<>>, Info(UL, mcs))
      BY <2>1, <3>1 DEF Put
    <3> HIDE DEF mcs
    <3>4. Append(<<>>, Info(UL, mcs)) = q
      OBVIOUS
    <3> QED
      BY <3>2, <3>3, <3>4
  <2> DEFINE p == [u.pending EXCEPT ![UL] = u.mcs[UL]]
             m == [u.mcs EXCEPT ![UL] = mcs]
             t == [u.timer EXCEPT ![UL] = MAX_RESPONSE_TIME + 2]
  <2>3. v = [u EXCEPT !.queue = q, !.pending = p, !.mcs = m, !.timer = t]
    <3>1. UL # DL
      BY DEF UL, DL
    <3> QED
      BY <2>1, <2>2, <3>1 DEF SetMcs
  <2>4. m[UL] = mcs /\ m[DL] = 0 /\ t[UL] = MAX_RESPONSE_TIME + 2
    BY <2>1 DEF Directions, UL, DL
  <2> HIDE DEF p, m, t, q, v
  <2>5. v.queue = q /\ v.mcs = m /\ v.timer = t
    BY <2>1, <2>3
  <2> QED
    BY <2>4, <2>5
<1>4. Info(UL, mcs).dir = UL /\ Info(UL, mcs).mcs = mcs
  BY DEF Info
<1>5. Len(q) = 1 /\ q[1] = Info(UL, mcs) /\ \A i \in 1 .. Len(q) : q[i] = Info(UL, mcs)
  <2> HIDE DEF mcs
  <2> QED
    OBVIOUS
<1>6. /\ e.mcs = c.mcs /\ Len(e.queue) = Len(c.queue) - 1
      /\ \A i \in 1 .. Len(c.queue) - 1 :
           i + 1 \in 1 .. Len(c.queue) /\ e.queue[i] = c.queue[i + 1]
  <2>1. 1 \in 0 .. Len(c.queue)
    BY <1>1
  <2> QED
    BY ONLY <1>1, <2>1, WithoutIs DEF e
<1> HIDE DEF mcs, e, v, q
<1>7. Ordered(v, e, d, 0)
  <2>1. Len(e.queue) <= 1 /\ \A i \in 1 .. Len(e.queue) : e.queue[i].type = "req"
    BY <1>1, <1>2, <1>6
  <2>2. /\ MAX_RESPONSE_TIME + 2 > 0 /\ MAX_RESPONSE_TIME + 2 >= MAX_RESPONSE_TIME + 2 - d
        /\ MAX_RESPONSE_TIME + 2 >= MAX_RESPONSE_TIME + 2 - 0
    BY <1>0
  <2> QED
    BY <1>2, <1>3, <1>4, <1>5, <1>6, <2>1, <2>2 DEF Ordered
<1>8. UlOrders(v)
  BY <1>3, <1>4, <1>5 DEF UlOrders
<1>9. DlAgrees(v, e)
  BY <1>2, <1>3, <1>6 DEF DlAgrees
<1> QED
  BY <1>7, <1>8, <1>9 DEF AgreeInv, mcs, e, v

LEMMA MessageAgrees ==
  ASSUME NEW u, NEW c, BothInv(u, c), Len(c.queue) >= 1, StartInv(u, c),
         NEW d \in Nat, NEW l \in 0 .. MaxUlGap + 1, AgreeInv(u, c, d, l)
  PROVE  AgreeInv(BsHandleMessage(u, c.queue[1]), Without(c, 1), d, 0)
<1>1. /\ 1 \in 1 .. Len(c.queue) /\ c.queue \in Seq(Messages)
      /\ c.queue[1].type \in {"req", "ack"}
  <2>1. 1 \in 1 .. Len(c.queue) /\ c.queue \in Seq(Messages)
    BY DEF BothInv, BothTyped, McsUe
  <2> QED
    BY <2>1 DEF BothInv, BothTyped
<1>2. c.queue[1].dir \in {UL, DL}
  <2>1. c.queue[1] \in Messages
    BY <1>1
  <2> QED
    BY <2>1 DEF Messages, Directions
<1>3. CASE c.queue[1].type = "ack"
  BY <1>3, AckAgrees DEF BsHandleMessage
<1>4. CASE c.queue[1].type = "req" /\ c.queue[1].dir = UL
  BY <1>4, UlReqAgrees DEF BsHandleMessage
<1>5. CASE c.queue[1].type = "req" /\ c.queue[1].dir = DL
  BY <1>5, DlReqAgrees DEF BsHandleMessage
<1> QED
  BY <1>1, <1>2, <1>3, <1>4, <1>5

(* When the client has nothing to send it does not matter how long it has  *)
(* waited.                                                                 *)
LEMMA NothingWaits ==
  ASSUME NEW u, NEW c, NEW d, NEW l, NEW m, AgreeInv(u, c, d, l), Len(c.queue) = 0
  PROVE  AgreeInv(u, c, d, m)
<1>1. ~Told(u, c, l)
  BY DEF Told
<1>2. Ordered(u, c, d, l) => Ordered(u, c, d, m)
  BY DEF Ordered
<1> QED
  BY <1>1, <1>2 DEF AgreeInv

LEMMA MessagesAgree ==
  ASSUME NEW u, NEW c, BothInv(u, c), StartInv(u, c), NEW n \in 1 .. Len(c.queue),
         NEW d \in Nat, NEW l \in 0 .. MaxUlGap + 1, AgreeInv(u, c, d, l)
  PROVE  AgreeInv(FoldLeft(BsHandleMessage, u, SubSeq(c.queue, 1, n)), Without(c, n), d, 0)
<1> DEFINE s == SubSeq(c.queue, 1, n)
<1>1. /\ c \in McsUe /\ c.queue \in Seq(Messages) /\ Len(c.queue) \in Nat /\ n \in Nat
      /\ MaxUlGap \in Nat
  BY McsAssumption DEF BothInv, BothTyped, McsUe, McsAssumption
<1>2. s \in Seq(Messages) /\ Len(s) = n /\ \A j \in 1 .. n : s[j] = c.queue[j]
  BY <1>1
<1> HIDE DEF s
<1>3. PICK f : /\ f[1 .. 0] = u
               /\ \A j \in 1 .. Len(s) : f[1 .. j] = BsHandleMessage(f[1 .. (j - 1)], s[j])
               /\ FoldLeft(BsHandleMessage, u, s) = f[1 .. Len(s)]
  BY <1>2, BsHandlesAll
<1> DEFINE Holds(j, k) == /\ BothInv(f[1 .. j], Without(c, j))
                          /\ StartInv(f[1 .. j], Without(c, j))
                          /\ AgreeInv(f[1 .. j], Without(c, j), d, k)
           Bad == {j \in 1 .. n : ~Holds(j, 0)}
<1>4. ASSUME NEW j \in 1 .. n, NEW k \in 0 .. MaxUlGap + 1, Holds(j - 1, k)
      PROVE  Holds(j, 0)
  <2>1. j \in 1 .. Len(c.queue)
    BY <1>1
  <2>2. /\ Without(Without(c, j - 1), 1) = Without(c, j)
        /\ Without(c, j - 1).queue[1] = s[j]
        /\ Len(Without(c, j - 1).queue) >= 1
    BY <1>1, <1>2, <2>1, WithoutAgain
  <2>3. f[1 .. j] = BsHandleMessage(f[1 .. (j - 1)], s[j])
    BY <1>2, <1>3
  <2>4. BothInv(f[1 .. j], Without(c, j))
    BY <1>4, <2>2, <2>3, MessageHandled
  <2>5. StartInv(f[1 .. j], Without(c, j))
    BY <1>1, <2>1, RestStarted
  <2>6. AgreeInv(f[1 .. j], Without(c, j), d, 0)
    BY <1>4, <2>2, <2>3, MessageAgrees
  <2> QED
    BY <2>4, <2>5, <2>6
<1>5. Holds(0, l)
  <2>1. Without(c, 0) = c
    <3>1. SubSeq(c.queue, 0 + 1, Len(c.queue)) = c.queue
      <4>1. SubSeq(c.queue, 1, Len(c.queue)) = c.queue
        BY <1>1
      <4> QED
        BY <4>1
    <3>2. Without(c, 0) = [c EXCEPT !.queue = c.queue]
      BY <1>1, <3>1 DEF Without, McsUe
    <3> QED
      BY <1>1, <3>2 DEF McsUe
  <2> QED
    BY <1>3, <2>1
<1> HIDE DEF Holds
<1>6. ASSUME Bad # {} PROVE FALSE
  <2>1. PICK j \in Bad : \A m \in Bad : j <= m
    <3>1. Bad \in SUBSET Nat
      BY <1>1
    <3> HIDE DEF Bad
    <3> QED
      BY <1>6, <3>1, Least
  <2>2. j \in 1 .. n /\ ~Holds(j, 0) /\ ~(j <= j - 1)
    BY <1>1, <2>1
  <2>3. 0 \in 0 .. MaxUlGap + 1
    BY <1>1
  <2>4. CASE j = 1
    BY <1>4, <1>5, <2>2, <2>4
  <2>5. CASE j # 1
    <3>1. j - 1 \in 1 .. n
      BY <1>1, <2>2, <2>5
    <3>2. Holds(j - 1, 0)
      BY <2>1, <2>2, <3>1
    <3> QED
      BY <1>4, <2>2, <2>3, <3>2
  <2> QED
    BY <2>4, <2>5
<1>7. Holds(n, 0)
  BY <1>1, <1>6
<1> QED
  BY <1>2, <1>3, <1>7 DEF Holds, s

(* An order that the client gets: the first of all for the uplink is taken *)
(* in time.                                                                *)
TakenInv(u, c, l) ==
  UlOrders(u) /\ DlAgrees(u, c) /\ (Through(u, c) \/ Told(u, c, l))

LEMMA OrderTaken ==
  ASSUME NEW u, NEW c, BothInv(u, c), NEW k \in 1 .. Len(u.queue), InTime,
         NEW d \in 0 .. MaxDlGap + 1, NEW l \in 1 .. MaxUlGap + 1,
         TakenInv(u, c, l) \/ (k = 1 /\ AgreeInv(u, c, d, l))
  PROVE  TakenInv(u, UeHandleMessage(c, u.queue[k]), l)
<1> DEFINE msg == u.queue[k]
           dir == msg.dir
           e == UeHandleMessage(c, msg)
           q == Append(c.queue, Ack(dir))
<1>0. /\ MaxUlGap \in Nat /\ MAX_RESPONSE_TIME \in Nat /\ MaxDlGap \in Nat
      /\ MAC_CTRL_MSG_BUF_SIZE \in Nat /\ MAC_CTRL_MSG_BUF_SIZE >= 3
  BY McsAssumption DEF McsAssumption
<1>1. /\ u \in McsUser /\ c \in McsUe /\ c.queue \in Seq(Messages) /\ Len(c.queue) \in Nat
      /\ u.queue \in Seq(Messages) /\ OrderInv(u) /\ u.timer[UL] \in Nat
  <2>1. u \in McsUser /\ c \in McsUe /\ OrderInv(u)
    BY DEF BothInv, BothTyped
  <2>2. u.timer[UL] \in Nat
    BY <1>0, <2>1 DEF McsUser, Timers, Directions
  <2> QED
    BY <2>1, <2>2 DEF McsUser, McsUe
<1>2. msg \in Messages /\ dir \in Directions /\ msg.mcs \in Schemes
  <2>1. msg \in Messages
    BY <1>1
  <2> QED
    BY <2>1 DEF Messages
<1>3. UlOrders(u) /\ DlAgrees(u, c)
  BY DEF TakenInv, AgreeInv
<1>4. /\ dir = DL => msg.mcs = u.pending[DL]
      /\ dir = UL => msg.mcs = u.mcs[UL]
  BY <1>1, <1>3 DEF OrderInv, UlOrders
<1>5. CASE ~IsPut(c.queue)
  <2>1. e = c
    BY <1>5 DEF UeHandleMessage
  <2>2. ~Ordered(u, c, d, l)
    <3>1. ASSUME Len(c.queue) <= 1 PROVE FALSE
      BY <1>0, <1>1, <1>5, <3>1 DEF IsPut
    <3> QED
      BY <3>1 DEF Ordered
  <2>3. TakenInv(u, c, l)
    BY <2>2 DEF TakenInv, AgreeInv
  <2> QED
    BY <2>1, <2>3
<1>6. CASE IsPut(c.queue)
  <2>1. e = [c EXCEPT !.queue = q, !.mcs[dir] = msg.mcs]
    BY <1>6 DEF UeHandleMessage, Put, IsPut
  <2>2. /\ Len(q) = Len(c.queue) + 1 /\ q[Len(c.queue) + 1] = Ack(dir)
        /\ \A i \in 1 .. Len(c.queue) : q[i] = c.queue[i]
    BY <1>1
  <2>3. Ack(dir).type = "ack" /\ Ack(dir).dir = dir
    BY DEF Ack
  <2> HIDE DEF q, dir, msg, e
  <2> SUFFICES TakenInv(u, e, l)
    BY DEF e, msg
  <2>4. /\ e.queue = q
        /\ e.mcs[DL] = IF dir = DL THEN msg.mcs ELSE c.mcs[DL]
        /\ e.mcs[UL] = IF dir = UL THEN msg.mcs ELSE c.mcs[UL]
    <3>1. e.queue = q /\ e.mcs = [c.mcs EXCEPT ![dir] = msg.mcs]
      BY <1>1, <2>1 DEF McsUe
    <3> QED
      BY <1>1, <1>2, <3>1 DEF McsUe, Directions, DL, UL
  <2>5. Len(c.queue) + 1 \in 1 .. Len(q) /\ \A i \in 1 .. Len(c.queue) : i \in 1 .. Len(q)
    BY <1>1, <2>2
  <2>6. DlAgrees(u, e)
    <3>1. CASE dir = DL
      BY <1>4, <2>2, <2>3, <2>4, <2>5, <3>1 DEF DlAgrees
    <3>2. CASE dir # DL
      BY <1>3, <2>2, <2>4, <2>5, <3>2 DEF DlAgrees
    <3> QED
      BY <3>1, <3>2
  <2>7. CASE TakenInv(u, c, l)
    <3>1. e.mcs[UL] = u.mcs[UL]
      BY <1>4, <2>4, <2>7 DEF TakenInv, Through, Told
    <3>2. CASE Through(u, c)
      BY <1>3, <2>6, <3>1, <3>2 DEF TakenInv, Through
    <3>3. CASE Told(u, c, l)
      <4>1. /\ Len(c.queue) >= 1 => Len(q) >= 1 /\ q[1] = c.queue[1]
            /\ Len(c.queue) >= 2 => Len(q) >= 2 /\ q[2] = c.queue[2]
        BY <1>1, <2>2
      <4>2. Told(u, e, l)
        BY <2>4, <3>1, <3>3, <4>1 DEF Told
      <4> QED
        BY <1>3, <2>6, <4>2 DEF TakenInv
    <3> QED
      BY <2>7, <3>2, <3>3 DEF TakenInv
  <2>8. CASE ~TakenInv(u, c, l)
    <3>1. k = 1 /\ Ordered(u, c, d, l)
      BY <1>3, <2>8 DEF TakenInv, AgreeInv
    <3>2. dir = UL /\ e.mcs[UL] = u.mcs[UL]
      BY <1>4, <2>4, <3>1 DEF Ordered, dir, msg
    <3>3. /\ Len(c.queue) <= 1 /\ \A i \in 1 .. Len(c.queue) : c.queue[i].type = "req"
          /\ u.timer[UL] >= MAX_RESPONSE_TIME + 2 - d
          /\ Len(c.queue) = 1 => u.timer[UL] >= MAX_RESPONSE_TIME + 2 - l
      BY <3>1 DEF Ordered
    <3>4. CASE Len(c.queue) = 0
      <4>1. Len(q) >= 1 /\ IsUlAck(q[1])
        BY <2>2, <2>3, <3>2, <3>4 DEF IsUlAck
      <4>2. u.timer[UL] >= MaxUlGap + 2 - l
        BY <1>0, <1>1, <3>3 DEF InTime
      <4> QED
        BY <1>3, <2>4, <2>6, <3>2, <4>1, <4>2 DEF TakenInv, Told
    <3>5. CASE Len(c.queue) = 1
      <4>1. /\ Len(q) >= 2 /\ IsUlAck(q[2]) /\ q[1].type = "req"
        BY <2>2, <2>3, <3>2, <3>3, <3>5 DEF IsUlAck
      <4>2. u.timer[UL] >= 2 * MaxUlGap + 3 - l
        BY <1>0, <1>1, <3>3, <3>5 DEF InTime
      <4> QED
        BY <1>3, <2>4, <2>6, <3>2, <4>1, <4>2 DEF TakenInv, Told
    <3>6. Len(c.queue) = 0 \/ Len(c.queue) = 1
      <4>1. \A m \in Nat : m <= 1 => m = 0 \/ m = 1
        OBVIOUS
      <4> QED
        BY ONLY <1>1, <3>3, <4>1, Zenon
    <3> QED
      BY <3>4, <3>5, <3>6
  <2> QED
    BY <2>7, <2>8
<1> QED
  BY <1>5, <1>6

NoUlReq(c) ==
  \A i \in 1 .. Len(c.queue) : ~(c.queue[i].type = "req" /\ c.queue[i].dir = UL)

LEMMA OnlyAcks ==
  ASSUME NEW c \in McsUe, NEW msg \in Messages, NoUlReq(c)
  PROVE  NoUlReq(UeHandleMessage(c, msg))
<1> DEFINE e == UeHandleMessage(c, msg)
           q == Append(c.queue, Ack(msg.dir))
<1>1. CASE ~IsPut(c.queue)
  BY <1>1 DEF UeHandleMessage
<1>2. CASE IsPut(c.queue)
  <2>1. e = [c EXCEPT !.queue = q, !.mcs[msg.dir] = msg.mcs]
    BY <1>2 DEF UeHandleMessage, Put, IsPut
  <2>2. c.queue \in Seq(Messages) /\ Len(c.queue) \in Nat
    BY DEF McsUe
  <2>3. /\ Len(q) = Len(c.queue) + 1 /\ q[Len(c.queue) + 1] = Ack(msg.dir)
        /\ \A i \in 1 .. Len(c.queue) : q[i] = c.queue[i]
    BY <2>2
  <2>4. Ack(msg.dir).type # "req"
    BY DEF Ack
  <2> HIDE DEF q, e
  <2>5. e.queue = q
    BY <2>1 DEF McsUe
  <2>6. \A i \in 1 .. Len(q) : i \in 1 .. Len(c.queue) \/ i = Len(c.queue) + 1
    BY <2>2, <2>3
  <2> QED
    BY <2>3, <2>4, <2>5, <2>6 DEF NoUlReq, e
<1> QED
  BY <1>1, <1>2

(* All the orders of a slot.                                               *)
LEMMA OrdersTaken ==
  ASSUME NEW u, NEW c, BothInv(u, c), NoUlReq(c), Len(u.queue) >= 1, InTime,
         NEW d \in 0 .. MaxDlGap + 1, NEW l \in 1 .. MaxUlGap + 1
  PROVE  LET e == FoldLeft(UeHandleMessage, c, u.queue)
         IN  NoUlReq(e) /\ (AgreeInv(u, c, d, l) => TakenInv(u, e, l))
<1>1. u.queue \in Seq(Messages) /\ Len(u.queue) \in Nat
  BY DEF BothInv, BothTyped, McsUser
<1>2. PICK f : /\ f[1 .. 0] = c
               /\ \A j \in 1 .. Len(u.queue) :
                    f[1 .. j] = UeHandleMessage(f[1 .. (j - 1)], u.queue[j])
               /\ FoldLeft(UeHandleMessage, c, u.queue) = f[1 .. Len(u.queue)]
  BY <1>1, UeHandlesAll
<1> DEFINE Safe(j) == BothInv(u, f[1 .. j]) /\ NoUlReq(f[1 .. j])
           Taken(j) == AgreeInv(u, c, d, l) => TakenInv(u, f[1 .. j], l)
           Bad == {j \in 1 .. Len(u.queue) : ~(Safe(j) /\ Taken(j))}
<1>3. ASSUME NEW j \in 1 .. Len(u.queue), Safe(j - 1), j = 1 \/ Taken(j - 1)
      PROVE  Safe(j) /\ Taken(j)
  <2>1. f[1 .. j] = UeHandleMessage(f[1 .. (j - 1)], u.queue[j])
    BY <1>2
  <2>2. u.queue[j] \in Messages /\ f[1 .. (j - 1)] \in McsUe
    BY <1>1, <1>3 DEF BothInv, BothTyped
  <2>3. BothInv(u, f[1 .. j])
    BY <1>3, <2>1, OrderFollowed
  <2>4. NoUlReq(f[1 .. j])
    BY <1>3, <2>1, <2>2, OnlyAcks
  <2>5. ASSUME AgreeInv(u, c, d, l) PROVE TakenInv(u, f[1 .. j], l)
    <3>1. \/ TakenInv(u, f[1 .. (j - 1)], l)
          \/ j = 1 /\ AgreeInv(u, f[1 .. (j - 1)], d, l)
      <4>1. CASE j = 1
        <5>1. f[1 .. (j - 1)] = c
          BY <1>2, <4>1
        <5> QED
          BY <2>5, <4>1, <5>1
      <4> QED
        BY <1>3, <2>5, <4>1
    <3> QED
      BY <1>3, <2>1, <3>1, OrderTaken
  <2> QED
    BY <2>3, <2>4, <2>5
<1>4. Safe(0)
  BY <1>2
<1> HIDE DEF Safe, Taken
<1>5. ASSUME Bad # {} PROVE FALSE
  <2>1. PICK j \in Bad : \A m \in Bad : j <= m
    <3>1. Bad \in SUBSET Nat
      BY <1>1
    <3> HIDE DEF Bad
    <3> QED
      BY <1>5, <3>1, Least
  <2>2. j \in 1 .. Len(u.queue) /\ ~(Safe(j) /\ Taken(j)) /\ ~(j <= j - 1)
    BY <1>1, <2>1
  <2>3. CASE j = 1
    BY <1>3, <1>4, <2>2, <2>3
  <2>4. CASE j # 1
    <3>1. j - 1 \in 1 .. Len(u.queue)
      BY <1>1, <2>2, <2>4
    <3>2. Safe(j - 1) /\ Taken(j - 1)
      BY <2>1, <2>2, <3>1
    <3> QED
      BY <1>3, <2>2, <3>2
  <2> QED
    BY <2>3, <2>4
<1>6. Len(u.queue) \in 1 .. Len(u.queue)
  BY <1>1
<1>7. Safe(Len(u.queue)) /\ Taken(Len(u.queue))
  BY <1>5, <1>6
<1> QED
  BY <1>2, <1>7 DEF Safe, Taken

(* One direction of mac_bs_process_mcs_change, in each of its cases.        *)
LEMMA ProcessFields ==
  ASSUME NEW u \in McsUser, NEW dir \in Directions
  PROVE  LET v == ProcessChange(u, dir)
             x == IF dir = UL THEN u.mcs[UL] ELSE u.pending[DL]
         IN  /\ u.timer[dir] = 0 => v = u
             /\ u.timer[dir] = 1 =>
                  /\ v.queue = u.queue /\ v.pending = u.pending
                  /\ v.timer = [u.timer EXCEPT ![dir] = 0]
                  /\ v.mcs = [u.mcs EXCEPT ![dir] = IF dir = UL THEN u.pending[UL] ELSE @]
             /\ u.timer[dir] > 1 =>
                  /\ v.queue = Put(u.queue, Info(dir, x)) /\ v.pending = u.pending
                  /\ v.timer = [u.timer EXCEPT ![dir] = @ - 1] /\ v.mcs = u.mcs
<1> DEFINE v == ProcessChange(u, dir)
           x == IF dir = UL THEN u.mcs[UL] ELSE u.pending[DL]
           q == Put(u.queue, Info(dir, x))
           m == [u.mcs EXCEPT ![dir] = IF dir = UL THEN u.pending[UL] ELSE u.mcs[dir]]
           t0 == [u.timer EXCEPT ![dir] = 0]
           t1 == [u.timer EXCEPT ![dir] = u.timer[dir] - 1]
<1>0. u.timer[dir] \in Nat
  BY McsAssumption DEF McsUser, Timers, McsAssumption
<1>1. u.timer[dir] = 0 => v = u
  BY DEF ProcessChange
<1>2. u.timer[dir] = 1 => v = [u EXCEPT !.timer = t0, !.mcs = m]
  BY DEF ProcessChange, McsUser
<1>3. u.timer[dir] > 1 => v = [u EXCEPT !.queue = q, !.timer = t1]
  BY <1>0 DEF ProcessChange, McsUser
<1>4. /\ m = [u.mcs EXCEPT ![dir] = IF dir = UL THEN u.pending[UL] ELSE @]
      /\ t1 = [u.timer EXCEPT ![dir] = @ - 1]
  BY DEF McsUser
<1> HIDE DEF v, q, m, t0, t1
<1>5. /\ u.timer[dir] = 1 => /\ v.queue = u.queue /\ v.pending = u.pending
                             /\ v.timer = t0 /\ v.mcs = m
      /\ u.timer[dir] > 1 => /\ v.queue = q /\ v.pending = u.pending
                             /\ v.timer = t1 /\ v.mcs = u.mcs
  BY <1>2, <1>3 DEF McsUser
<1> QED
  BY <1>1, <1>4, <1>5 DEF v, q, t0

(* mac_bs_process_mcs_change: the downlink's change is of no matter, and   *)
(* the uplink's gets one subframe older, and does not expire.              *)
LEMMA DlProcessed ==
  ASSUME NEW u, NEW c, BothInv(u, c), NEW d, NEW l, AgreeInv(u, c, d, l)
  PROVE  AgreeInv(ProcessChange(u, DL), c, d, l)
<1> DEFINE v == ProcessChange(u, DL)
           q == Put(u.queue, Info(DL, u.pending[DL]))
           t0 == [u.timer EXCEPT ![DL] = 0]
           t1 == [u.timer EXCEPT ![DL] = u.timer[DL] - 1]
           m == [u.mcs EXCEPT ![DL] = u.mcs[DL]]
<1>1. /\ u \in McsUser /\ u.queue \in Seq(Messages) /\ Len(u.queue) < MAC_CTRL_MSG_BUF_SIZE
      /\ u.timer[DL] \in Nat /\ u.pending[DL] \in Schemes
  <2>1. u \in McsUser /\ Len(u.queue) < MAC_CTRL_MSG_BUF_SIZE
    BY DEF BothInv, BothTyped
  <2> QED
    BY <2>1 DEF McsUser, Timers, Directions
<1>2. UL # DL
  BY DEF UL, DL
<1>3. Info(DL, u.pending[DL]) \in Messages /\ Info(DL, u.pending[DL]).dir # UL
  BY <1>1, <1>2 DEF Info, Messages, Directions
<1>4. /\ Len(u.queue) >= 1 => Len(q) >= 1 /\ q[1] = u.queue[1]
      /\ \A i \in 1 .. Len(q) : \/ i \in 1 .. Len(u.queue) /\ q[i] = u.queue[i]
                                \/ q[i] = Info(DL, u.pending[DL])
  BY <1>1, <1>3, PutKeeps
<1>5. t0[UL] = u.timer[UL] /\ t1[UL] = u.timer[UL] /\ m = u.mcs
  BY <1>1, <1>2 DEF McsUser, Directions
<1>6. /\ u.timer[DL] = 0 => v = u
      /\ u.timer[DL] = 1 => /\ v.queue = u.queue /\ v.pending = u.pending
                            /\ v.timer = t0 /\ v.mcs = m
      /\ u.timer[DL] > 1 => /\ v.queue = q /\ v.pending = u.pending
                            /\ v.timer = t1 /\ v.mcs = u.mcs
  <2>1. DL \in Directions
    BY DEF Directions
  <2> QED
    BY <1>1, <1>2, <2>1, ProcessFields
<1> HIDE DEF q, t0, t1, m, v
<1>7. /\ v.mcs = u.mcs /\ v.pending = u.pending /\ v.timer[UL] = u.timer[UL]
      /\ v.queue \in {u.queue, q}
  <2>1. u.timer[DL] = 0 \/ u.timer[DL] = 1 \/ u.timer[DL] > 1
    BY <1>1
  <2> QED
    BY <1>5, <1>6, <2>1
<1>8. UlOrders(v)
  BY <1>3, <1>4, <1>7 DEF AgreeInv, UlOrders
<1>9. Len(u.queue) >= 1 => Len(v.queue) >= 1 /\ v.queue[1] = u.queue[1]
  BY <1>4, <1>7
<1>10. DlAgrees(v, c)
  BY <1>7 DEF AgreeInv, DlAgrees
<1>11. Through(v, c) \/ Ordered(v, c, d, l) \/ Told(v, c, l)
  <2>1. CASE Through(u, c)
    BY <1>7, <2>1 DEF Through
  <2>2. CASE Ordered(u, c, d, l)
    BY <1>7, <1>9, <2>2 DEF Ordered
  <2>3. CASE Told(u, c, l)
    BY <1>7, <2>3 DEF Told
  <2> QED
    BY <2>1, <2>2, <2>3 DEF AgreeInv
<1> QED
  BY <1>8, <1>10, <1>11 DEF AgreeInv, v

LEMMA UlProcessed ==
  ASSUME NEW u, NEW c, BothInv(u, c), InTime, NEW d \in 0 .. MaxDlGap,
         NEW l \in 0 .. MaxUlGap, AgreeInv(u, c, d, l)
  PROVE  /\ AgreeInv(u, c, d + 1, l + 1)
         /\ AgreeInv(ProcessChange(u, UL), c, d + 1, l + 1)
<1> DEFINE v == ProcessChange(u, UL)
           q == Put(u.queue, Info(UL, u.mcs[UL]))
           t == [u.timer EXCEPT ![UL] = u.timer[UL] - 1]
<1>0. MaxUlGap \in Nat /\ MAX_RESPONSE_TIME \in Nat /\ MaxDlGap \in Nat
  BY McsAssumption DEF McsAssumption
<1>1. /\ u \in McsUser /\ u.queue \in Seq(Messages) /\ Len(u.queue) < MAC_CTRL_MSG_BUF_SIZE
      /\ u.timer[UL] \in Nat /\ u.mcs[UL] \in Schemes
  <2>1. u \in McsUser /\ Len(u.queue) < MAC_CTRL_MSG_BUF_SIZE
    BY DEF BothInv, BothTyped
  <2> QED
    BY <2>1 DEF McsUser, Timers, Directions
<1>2. AgreeInv(u, c, d + 1, l + 1)
  <2>1. Ordered(u, c, d, l) => Ordered(u, c, d + 1, l + 1)
    BY <1>0, <1>1 DEF Ordered
  <2>2. Told(u, c, l) => Told(u, c, l + 1)
    <3>1. /\ u.timer[UL] >= MaxUlGap + 2 - l => u.timer[UL] >= MaxUlGap + 2 - (l + 1)
          /\ u.timer[UL] >= 2 * MaxUlGap + 3 - l
               => u.timer[UL] >= 2 * MaxUlGap + 3 - (l + 1)
      BY <1>0, <1>1
    <3> QED
      BY <3>1 DEF Told
  <2> QED
    BY <2>1, <2>2 DEF AgreeInv
<1>3. CASE u.timer[UL] = 0
  BY <1>2, <1>3 DEF ProcessChange
<1>4. CASE u.timer[UL] # 0
  <2>1. u.timer[UL] > 1
    <3>1. CASE Ordered(u, c, d, l)
      <4>1. u.timer[UL] >= MAX_RESPONSE_TIME + 2 - d
        BY <3>1 DEF Ordered
      <4> QED
        BY <1>0, <1>1, <4>1 DEF InTime
    <3>2. CASE Told(u, c, l)
      <4>1. u.timer[UL] >= MaxUlGap + 2 - l \/ u.timer[UL] >= 2 * MaxUlGap + 3 - l
        BY <3>2 DEF Told
      <4> QED
        BY <1>0, <1>1, <4>1
    <3> QED
      BY <1>4, <3>1, <3>2 DEF AgreeInv, Through
  <2>2. v = [u EXCEPT !.queue = q, !.timer = t]
    BY <1>1, <2>1 DEF ProcessChange, McsUser
  <2>3. t[UL] = u.timer[UL] - 1
    BY <1>1 DEF McsUser, Directions
  <2>4. Info(UL, u.mcs[UL]) \in Messages /\ Info(UL, u.mcs[UL]).mcs = u.mcs[UL]
    BY <1>1 DEF Info, Messages, Directions
  <2>5. /\ Len(u.queue) >= 1 => Len(q) >= 1 /\ q[1] = u.queue[1]
        /\ \A i \in 1 .. Len(q) : \/ i \in 1 .. Len(u.queue) /\ q[i] = u.queue[i]
                                  \/ q[i] = Info(UL, u.mcs[UL])
    BY <1>1, <2>4, PutKeeps
  <2> HIDE DEF q, t, v
  <2>6. v.mcs = u.mcs /\ v.pending = u.pending /\ v.timer[UL] = u.timer[UL] - 1 /\ v.queue = q
    BY <1>1, <2>2, <2>3 DEF McsUser
  <2>7. UlOrders(v)
    BY <2>4, <2>5, <2>6 DEF AgreeInv, UlOrders
  <2>8. DlAgrees(v, c)
    BY <2>6 DEF AgreeInv, DlAgrees
  <2>9. Ordered(v, c, d + 1, l + 1) \/ Told(v, c, l + 1)
    <3>1. CASE Ordered(u, c, d, l)
      <4>1. /\ u.timer[UL] >= MAX_RESPONSE_TIME + 2 - d
            /\ Len(c.queue) = 1 => u.timer[UL] >= MAX_RESPONSE_TIME + 2 - l
        BY <3>1 DEF Ordered
      <4>2. /\ v.timer[UL] > 0 /\ v.timer[UL] >= MAX_RESPONSE_TIME + 2 - (d + 1)
            /\ Len(c.queue) = 1 => v.timer[UL] >= MAX_RESPONSE_TIME + 2 - (l + 1)
        BY <1>0, <1>1, <2>1, <2>6, <4>1
      <4> QED
        BY <2>5, <2>6, <3>1, <4>2 DEF Ordered
    <3>2. CASE Told(u, c, l)
      <4>1. /\ u.timer[UL] >= MaxUlGap + 2 - l => v.timer[UL] >= MaxUlGap + 2 - (l + 1)
            /\ u.timer[UL] >= 2 * MaxUlGap + 3 - l
                 => v.timer[UL] >= 2 * MaxUlGap + 3 - (l + 1)
        BY <1>0, <1>1, <2>6
      <4> QED
        BY <2>6, <3>2, <4>1 DEF Told
    <3> QED
      BY <1>4, <3>1, <3>2 DEF AgreeInv, Through
  <2> QED
    BY <1>2, <2>7, <2>8, <2>9 DEF AgreeInv, v
<1> QED
  BY <1>3, <1>4

LEMMA NewUserProcessed == ProcessMcsChange(NewUser) = NewUser
<1>1. \A dir \in Directions : NewUser.timer[dir] = 0
  BY DEF NewUser
<1>2. \A dir \in Directions : ProcessChange(NewUser, dir) = NewUser
  BY <1>1 DEF ProcessChange
<1> QED
  BY <1>2 DEF ProcessMcsChange, Directions

LEMMA SubframeProcessed ==
  ASSUME NEW u, NEW c, BothInv(u, c), InTime, NEW d \in 0 .. MaxDlGap,
         NEW l \in 0 .. MaxUlGap, AgreeInv(u, c, d, l)
  PROVE  AgreeInv(ProcessMcsChange(u), c, d + 1, l + 1)
<1>1. BothInv(ProcessChange(u, DL), c) /\ AgreeInv(ProcessChange(u, DL), c, d, l)
  <2>1. DL \in Directions
    BY DEF Directions
  <2> QED
    BY <2>1, ChangeProcessed, DlProcessed
<1> QED
  BY <1>1, UlProcessed DEF ProcessMcsChange

LEMMA BsRunAgrees ==
  ASSUME InTime, McsInv, KeptInv, BsRun PROVE KeptInv'
<1> DEFINE u == ProcessMcsChange(user)
           e == FoldLeft(UeHandleMessage, ue, u.queue)
<1>0. /\ MaxUlGap \in Nat /\ MaxDlGap \in Nat
      /\ sinceDl \in 0 .. MaxDlGap /\ sinceUl \in 0 .. MaxUlGap
      /\ lost \in BOOLEAN /\ BothInv(user, ue)
  BY McsAssumption DEF McsInv, McsAssumption
<1>1. /\ DL \in Directions /\ UL \in Directions
  BY DEF Directions
<1>2. BothInv(u, ue)
  <2>1. BothInv(ProcessChange(user, DL), ue)
    BY <1>0, <1>1, ChangeProcessed
  <2>2. BothInv(ProcessChange(ProcessChange(user, DL), UL), ue)
    BY <1>1, <2>1, ChangeProcessed
  <2> QED
    BY <1>0, <2>2 DEF ProcessMcsChange
<1>3. /\ turn = "bs" /\ turn' = "ue" /\ sinceUl' = sinceUl
      /\ \/ /\ u.queue = <<>> \/ sinceDl < MaxDlGap
            /\ user' = u /\ ue' = ue /\ lost' = lost
            /\ sinceDl' = IF u.queue = <<>> THEN 0 ELSE sinceDl + 1
         \/ /\ u.queue # <<>> /\ user' = [u EXCEPT !.queue = <<>>] /\ sinceDl' = 0
            /\ \/ ue' = ue /\ lost' = TRUE
               \/ lost' = lost /\ ue' = IF ue.mcs[DL] = u.mcs[DL] THEN e ELSE ue
  BY DEF BsRun
<1>4. Waited = sinceUl /\ Waited' = sinceUl + 1
  BY <1>3 DEF Waited
<1>5. user = NewUser => u = NewUser /\ u.queue = <<>>
  BY NewUserProcessed DEF NewUser
<1>6. u \in McsUser /\ u.queue \in Seq(Messages) /\ Len(u.queue) \in Nat
  BY <1>2 DEF BothInv, BothTyped, McsUser
<1>7. ~lost => AgreeInv(u, ue, sinceDl + 1, sinceUl + 1)
  BY <1>0, <1>4, SubframeProcessed DEF KeptInv
<1> HIDE DEF u, e
<1>8. CASE user' = u /\ ue' = ue /\ lost' = lost
           /\ sinceDl' = IF u.queue = <<>> THEN 0 ELSE sinceDl + 1
  <2>1. StartInv(user', ue')
    BY <1>5, <1>8 DEF KeptInv, StartInv
  <2>2. ASSUME ~lost PROVE AgreeInv(u, ue, sinceDl', sinceUl + 1)
    <3>1. CASE u.queue = <<>>
      <4>1. Len(u.queue) = 0
        BY <3>1
      <4>2. ~Ordered(u, ue, sinceDl + 1, sinceUl + 1)
        BY <4>1 DEF Ordered
      <4> QED
        BY <1>7, <2>2, <4>2 DEF AgreeInv
    <3>2. CASE u.queue # <<>>
      BY <1>7, <1>8, <2>2, <3>2
    <3> QED
      BY <3>1, <3>2
  <2> QED
    BY <1>0, <1>4, <1>8, <2>1, <2>2 DEF KeptInv
<1>9. CASE u.queue # <<>> /\ user' = [u EXCEPT !.queue = <<>>] /\ sinceDl' = 0
           /\ \/ ue' = ue /\ lost' = TRUE
              \/ lost' = lost /\ ue' = IF ue.mcs[DL] = u.mcs[DL] THEN e ELSE ue
  <2>1. NoUlReq(ue)
    BY <1>5, <1>9 DEF KeptInv, StartInv, NoUlReq
  <2>2. Len(u.queue) >= 1
    BY <1>6, <1>9
  <2>3. sinceDl + 1 \in 0 .. MaxDlGap + 1 /\ sinceUl + 1 \in 1 .. MaxUlGap + 1
    BY <1>0
  <2>4. /\ NoUlReq(e)
        /\ AgreeInv(u, ue, sinceDl + 1, sinceUl + 1) => TakenInv(u, e, sinceUl + 1)
    BY <1>2, <2>1, <2>2, <2>3, OrdersTaken DEF e
  <2>5. StartInv(user', ue')
    BY <1>9, <2>1, <2>4 DEF NoUlReq, StartInv
  <2>6. ASSUME ~lost, ~lost' PROVE AgreeInv(user', ue', sinceDl', sinceUl + 1)
    <3>1. TakenInv(u, ue', sinceUl + 1)
      <4>1. CASE ue.mcs[DL] = u.mcs[DL]
        BY <1>7, <1>9, <2>4, <2>6, <4>1
      <4>2. CASE ue.mcs[DL] # u.mcs[DL]
        <5>1. ~Ordered(u, ue, sinceDl + 1, sinceUl + 1)
          BY <4>2 DEF Ordered
        <5>2. ue' = ue
          BY <1>9, <2>6, <4>2
        <5> QED
          BY <1>7, <2>6, <5>1, <5>2 DEF TakenInv, AgreeInv
      <4> QED
        BY <4>1, <4>2
    <3> DEFINE v == [u EXCEPT !.queue = <<>>]
               c == ue'
    <3>2. v.queue = <<>> /\ v.mcs = u.mcs /\ v.pending = u.pending /\ v.timer = u.timer
      BY <1>6 DEF McsUser
    <3>3. Len(<<>>) = 0 /\ 1 .. 0 = {}
      OBVIOUS
    <3> HIDE DEF v, c
    <3>4. TakenInv(u, c, sinceUl + 1)
      BY <3>1 DEF c
    <3>5. UlOrders(v)
      BY <3>2, <3>3 DEF UlOrders
    <3>6. DlAgrees(v, c) /\ (Through(v, c) \/ Told(v, c, sinceUl + 1))
      BY <3>2, <3>4 DEF TakenInv, DlAgrees, Through, Told
    <3>7. AgreeInv(v, c, sinceDl', sinceUl + 1)
      BY <3>5, <3>6 DEF AgreeInv
    <3> QED
      BY <1>9, <3>7 DEF v, c
  <2> QED
    BY <1>0, <1>4, <1>9, <2>5, <2>6 DEF KeptInv
<1> QED
  BY <1>3, <1>8, <1>9

LEMMA NothingHandled ==
  ASSUME NEW x, NEW s \in Seq(Messages), Len(s) = 0
  PROVE  FoldLeft(BsHandleMessage, x, s) = x
<1>1. PICK f : /\ f[1 .. 0] = x
               /\ \A j \in 1 .. Len(s) : f[1 .. j] = BsHandleMessage(f[1 .. (j - 1)], s[j])
               /\ FoldLeft(BsHandleMessage, x, s) = f[1 .. Len(s)]
  BY BsHandlesAll
<1> QED
  BY <1>1

LEMMA SendAgrees ==
  ASSUME InTime, McsInv, KeptInv, NEW n \in 0 .. Len(ue.queue), NEW received \in BOOLEAN,
         Send(n, received), NEW l \in 0 .. MaxUlGap + 1, l = Waited, NEW m,
         received \/ (n = Len(ue.queue) /\ ue.mcs[UL] # user.mcs[UL]),
         (m = 0 /\ (n = 0 => Len(ue.queue) = 0)) \/ (m = l /\ n = Len(ue.queue))
  PROVE  /\ StartInv(user', ue')
         /\ lost' \/ AgreeInv(user', ue', sinceDl, m)
<1>0. /\ MaxUlGap \in Nat /\ MaxDlGap \in Nat /\ sinceDl \in Nat
      /\ lost \in BOOLEAN /\ BothInv(user, ue)
  BY McsAssumption DEF McsInv, McsAssumption
<1>1. user \in McsUser /\ ue \in McsUe /\ Len(ue.queue) \in Nat /\ ue.queue \in Seq(Messages)
  BY <1>0 DEF BothInv, BothTyped, McsUe
<1> DEFINE w == FoldLeft(BsHandleMessage, user, SubSeq(ue.queue, 1, n))
           e == Without(ue, n)
<1>2. /\ ue' = e
      /\ \/ user' = user /\ lost' = (lost \/ n > 0)
         \/ user' = (IF received THEN w ELSE user) /\ lost' = lost
  BY DEF Send, Without
<1>3. e.mcs = ue.mcs /\ Len(e.queue) = Len(ue.queue) - n
  BY <1>1, WithoutIs
<1>4. CASE n = 0
  <2>1. Len(ue.queue) = 0
    BY <1>4
  <2>2. SubSeq(ue.queue, 1, n) = <<>> /\ ue.queue = <<>>
    BY <1>1, <1>4, <2>1
  <2>3. e = ue
    <3>1. SubSeq(ue.queue, n + 1, Len(ue.queue)) = ue.queue
      <4>1. SubSeq(ue.queue, 1, Len(ue.queue)) = ue.queue
        BY <1>1
      <4> QED
        BY <1>4, <4>1
    <3>2. e = [ue EXCEPT !.queue = ue.queue]
      BY <1>1, <3>1 DEF Without, McsUe
    <3> QED
      BY <1>1, <3>2 DEF McsUe
  <2>4. w = user
    <3>1. <<>> \in Seq(Messages) /\ Len(<<>>) = 0
      OBVIOUS
    <3> QED
      BY <2>2, <3>1, NothingHandled
  <2> HIDE DEF w, e
  <2>5. user' = user /\ ue' = ue /\ lost' = lost
    BY <1>0, <1>2, <1>4, <2>3, <2>4
  <2>6. ~lost => AgreeInv(user, ue, sinceDl, m)
    BY <1>0, <2>1, NothingWaits DEF KeptInv
  <2> QED
    BY <2>5, <2>6 DEF KeptInv
<1>5. CASE n # 0
  <2>1. n \in 1 .. Len(ue.queue)
    BY <1>1, <1>5
  <2>2. StartInv(user', ue')
    <3>1. \A v : StartInv(v, e)
      BY <1>1, <2>1, RestStarted DEF KeptInv
    <3> HIDE DEF e
    <3> QED
      BY <1>2, <3>1
  <2>3. ASSUME ~lost, ~lost' PROVE AgreeInv(user', ue', sinceDl, m)
    <3>1. AgreeInv(user, ue, sinceDl, l)
      BY <2>3 DEF KeptInv
    <3>2. user' = IF received THEN w ELSE user
      BY <1>2, <2>1, <2>3
    <3>3. CASE received
      <4>1. AgreeInv(w, e, sinceDl, 0)
        BY <1>0, <2>1, <3>1, MessagesAgree DEF KeptInv
      <4>2. n = Len(ue.queue) => Len(e.queue) = 0
        BY <1>1, <1>3
      <4> HIDE DEF w, e
      <4>3. AgreeInv(w, e, sinceDl, m)
        BY <4>1, <4>2, NothingWaits
      <4> QED
        BY <1>2, <3>2, <3>3, <4>3
    <3>4. CASE ~received
      <4>1. n = Len(ue.queue) /\ ue.mcs[UL] # user.mcs[UL] /\ Len(e.queue) = 0
        BY <1>1, <1>3, <3>4
      <4> HIDE DEF w, e
      <4>2. Ordered(user, ue, sinceDl, l)
        BY <3>1, <4>1 DEF AgreeInv, Through, Told
      <4>3. Ordered(user, e, sinceDl, m)
        <5>1. Len(e.queue) <= 1 /\ Len(e.queue) # 1 /\ 1 .. Len(e.queue) = {}
          BY <4>1
        <5> QED
          BY <1>3, <4>2, <5>1 DEF Ordered
      <4>4. DlAgrees(user, e) /\ UlOrders(user)
        BY <1>3, <3>1, <4>2 DEF AgreeInv, DlAgrees, Ordered
      <4>5. AgreeInv(user, e, sinceDl, m)
        BY <4>3, <4>4 DEF AgreeInv
      <4> QED
        BY <1>2, <3>2, <3>4, <4>5
    <3> QED
      BY <3>3, <3>4
  <2>4. lost => lost'
    BY <1>2
  <2> QED
    BY <2>2, <2>3, <2>4
<1> QED
  BY <1>4, <1>5

LEMMA UeRunAgrees ==
  ASSUME InTime, McsInv, KeptInv, UeRun PROVE KeptInv'
<1>0. /\ MaxUlGap \in Nat /\ sinceUl \in 0 .. MaxUlGap /\ Len(ue.queue) \in Nat
      /\ lost \in BOOLEAN
  BY McsAssumption DEF McsInv, McsAssumption, BothInv, BothTyped, McsUe
<1>1. turn = "ue" /\ turn' = "bs" /\ sinceDl' = sinceDl
  BY DEF UeRun
<1>2. Waited = sinceUl + 1 /\ Waited' = sinceUl' /\ sinceUl + 1 \in 0 .. MaxUlGap + 1
  BY <1>0, <1>1 DEF Waited
<1>3. CASE sinceUl' = sinceUl + 1 /\ UNCHANGED <<user, ue, lost>>
  BY <1>1, <1>2, <1>3 DEF KeptInv
<1>4. CASE sinceUl' = sinceUl + 1 /\ Send(Len(ue.queue), ue.mcs[UL] = user.mcs[UL])
  <2> DEFINE received == ue.mcs[UL] = user.mcs[UL]
  <2>1. /\ Len(ue.queue) \in 0 .. Len(ue.queue) /\ received \in BOOLEAN
        /\ Send(Len(ue.queue), received)
        /\ received \/ (Len(ue.queue) = Len(ue.queue) /\ ue.mcs[UL] # user.mcs[UL])
    BY <1>0, <1>4
  <2> HIDE DEF received
  <2>2. StartInv(user', ue') /\ (lost' \/ AgreeInv(user', ue', sinceDl, sinceUl + 1))
    BY <1>2, <2>1, SendAgrees
  <2> QED
    BY <1>1, <1>2, <1>4, <2>2 DEF KeptInv
<1>5. CASE /\ sinceUl' = 0
           /\ \E n \in {k \in {1, 2, Len(ue.queue)} : k <= Len(ue.queue)} : Send(n, TRUE)
  <2>1. PICK n \in {k \in {1, 2, Len(ue.queue)} : k <= Len(ue.queue)} : Send(n, TRUE)
    BY <1>5
  <2>2. n \in 0 .. Len(ue.queue) /\ (n = 0 => Len(ue.queue) = 0)
    BY <1>0
  <2>3. StartInv(user', ue') /\ (lost' \/ AgreeInv(user', ue', sinceDl, 0))
    <3>1. TRUE \in BOOLEAN
      OBVIOUS
    <3> QED
      BY <1>2, <2>1, <2>2, <3>1, SendAgrees
  <2> QED
    BY <1>1, <1>2, <1>5, <2>3 DEF KeptInv
<1>6. CASE sinceUl' = 0 /\ ue.queue = <<>> /\ UNCHANGED <<user, ue, lost>>
  <2>1. Len(ue.queue) = 0
    BY <1>6
  <2>2. lost \/ AgreeInv(user, ue, sinceDl, 0)
    BY <2>1, NothingWaits DEF KeptInv
  <2> QED
    BY <1>1, <1>2, <1>6, <2>2 DEF KeptInv
<1> QED
  BY <1>3, <1>4, <1>5, <1>6 DEF UeRun

LEMMA AssociateAgrees ==
  ASSUME McsInv, KeptInv, Associate PROVE KeptInv'
<1>1. /\ user' = NewUser /\ lost' = FALSE
      /\ ue' = [ue EXCEPT !.mcs = [d \in Directions |-> 0]]
  BY DEF Associate
<1>2. ue \in McsUe
  BY DEF McsInv, BothInv, BothTyped
<1> DEFINE u == user'
           c == ue'
<1>3. /\ c.queue = ue.queue /\ c.mcs[DL] = 0 /\ c.mcs[UL] = 0
      /\ u = NewUser /\ u.queue = <<>> /\ u.mcs[DL] = 0 /\ u.mcs[UL] = 0 /\ u.timer[UL] = 0
  BY <1>1, <1>2 DEF McsUe, NewUser, Directions
<1> HIDE DEF u, c
<1>4. StartInv(u, c)
  BY <1>3 DEF KeptInv, StartInv
<1>5. UlOrders(u)
  <2>1. Len(<<>>) = 0 /\ 1 .. 0 = {}
    OBVIOUS
  <2> QED
    BY <1>3, <2>1 DEF UlOrders
<1>6. DlAgrees(u, c) /\ Through(u, c)
  BY <1>3 DEF DlAgrees, Through
<1>7. AgreeInv(u, c, sinceDl', Waited')
  BY <1>5, <1>6 DEF AgreeInv
<1> QED
  BY <1>4, <1>7 DEF KeptInv, u, c

(* The request for the uplink is put before that for the downlink.         *)
LEMMA UlRequestedFirst ==
  ASSUME NEW ul \in Schemes, NEW dl \in Schemes, NEW i \in 1 .. Len(Requests(ul, dl)),
         Requests(ul, dl)[i].dir = UL
  PROVE  i = 1
<1> DEFINE s == IF ul > 0 THEN <<Req(UL, ul)>> ELSE <<>>
           t == IF dl > 0 THEN <<Req(DL, dl)>> ELSE <<>>
           q == s \o t
<1>1. Req(UL, ul) \in Messages /\ Req(DL, dl) \in Messages /\ Req(DL, dl).dir # UL
  BY DEF Req, Messages, Directions, UL, DL
<1>2. s \in Seq(Messages) /\ Len(s) \in 0 .. 1
  <2>1. <<Req(UL, ul)>> \in Seq(Messages) /\ <<>> \in Seq(Messages)
    BY <1>1
  <2> QED
    BY <2>1
<1>3. t \in Seq(Messages) /\ Len(t) \in 0 .. 1 /\ \A j \in 1 .. Len(t) : t[j] = Req(DL, dl)
  <2>1. <<Req(DL, dl)>> \in Seq(Messages) /\ <<>> \in Seq(Messages)
    BY <1>1
  <2> QED
    BY <2>1
<1>4. q = Requests(ul, dl)
  BY DEF Requests
<1> HIDE DEF s, t
<1>5. /\ Len(q) = Len(s) + Len(t)
      /\ \A j \in 1 .. Len(q) : q[j] = IF j <= Len(s) THEN s[j] ELSE t[j - Len(s)]
  BY <1>2, <1>3
<1> HIDE DEF q
<1>6. i \in 1 .. Len(q) /\ q[i].dir = UL
  BY <1>4
<1>7. i <= Len(s)
  <2>1. ASSUME ~(i <= Len(s)) PROVE FALSE
    <3>1. i - Len(s) \in 1 .. Len(t) /\ q[i] = t[i - Len(s)]
      BY <1>2, <1>3, <1>5, <1>6, <2>1
    <3> QED
      BY <1>1, <1>3, <1>6, <3>1
  <2> QED
    BY <2>1
<1>8. Len(s) <= 1 /\ Len(s) \in Nat
  <2>1. \A n \in 0 .. 1 : n <= 1 /\ n \in Nat
    OBVIOUS
  <2> QED
    BY ONLY <1>2, <2>1, Zenon
<1>9. i >= 1 /\ i \in Int
  BY ONLY i \in 1 .. Len(Requests(ul, dl))
<1> QED
  BY ONLY <1>7, <1>8, <1>9

LEMMA KeptInitially == McsInit => KeptInv
<1> SUFFICES ASSUME McsInit PROVE KeptInv
  OBVIOUS
<1>1. PICK ul \in Schemes, dl \in Schemes :
        ue = [mcs |-> [d \in Directions |-> 0], queue |-> Requests(ul, dl)]
  BY DEF McsInit
<1>2. user = NewUser
  BY DEF McsInit
<1> DEFINE q == Requests(ul, dl)
<1>3. Len(q) <= 2 /\ \A i \in 1 .. Len(q) : q[i].type = "req"
  BY RequestsAre
<1>4. \A i \in 1 .. Len(q) : q[i].dir = UL => i = 1
  BY UlRequestedFirst
<1> HIDE DEF q
<1>5. ue.queue = q /\ ue.mcs[DL] = 0 /\ ue.mcs[UL] = 0
  BY <1>1 DEF Directions, q
<1>6. StartInv(user, ue)
  BY <1>2, <1>3, <1>4, <1>5 DEF StartInv
<1>7. /\ user.queue = <<>> /\ user.mcs[DL] = 0 /\ user.mcs[UL] = 0 /\ user.timer[UL] = 0
  BY <1>2 DEF NewUser, Directions
<1>8. UlOrders(user)
  <2>1. Len(<<>>) = 0 /\ 1 .. 0 = {}
    OBVIOUS
  <2> QED
    BY <1>7, <2>1 DEF UlOrders
<1>9. DlAgrees(user, ue) /\ Through(user, ue)
  BY <1>5, <1>7 DEF DlAgrees, Through
<1> QED
  BY <1>6, <1>8, <1>9 DEF KeptInv, AgreeInv

LEMMA KeptKept == InTime /\ McsInv /\ KeptInv /\ [McsNext]_mcsVars => KeptInv'
<1> SUFFICES ASSUME InTime, McsInv, KeptInv, [McsNext]_mcsVars PROVE KeptInv'
  OBVIOUS
<1>1. CASE UNCHANGED mcsVars
  BY <1>1 DEF mcsVars, KeptInv, Waited
<1> QED
  BY <1>1, BsRunAgrees, UeRunAgrees, AssociateAgrees DEF McsNext

LEMMA KeptAgrees == McsInv /\ KeptInv => AgreeUnlessLost
<1> SUFFICES ASSUME KeptInv, Settled, ~lost PROVE Agree(DL) /\ Agree(UL)
  BY DEF AgreeUnlessLost, Directions
<1>1. Len(ue.queue) = 0 /\ user.timer[UL] = 0 /\ Len(user.queue) = 0
  BY DEF Settled, Directions
<1>2. /\ DlAgrees(user, ue)
      /\ \/ Through(user, ue) \/ Ordered(user, ue, sinceDl, Waited)
         \/ Told(user, ue, Waited)
  BY DEF KeptInv, AgreeInv
<1>3. Agree(DL)
  BY <1>1, <1>2 DEF DlAgrees, Agree
<1>4. Agree(UL)
  BY <1>1, <1>2 DEF Through, Ordered, Told, Agree
<1> QED
  BY <1>3, <1>4

(* mac_bs.c 431-469: with the times of InTime a change that no lost slot   *)
(* disturbs is acknowledged before it expires, and when it has come to its *)
(* end both sides use the same modulations.                                *)
THEOREM AlwaysAgree == ASSUME InTime PROVE McsSpec => []AgreeUnlessLost
<1>1. McsInit => McsInv /\ KeptInv
  BY McsInitial, KeptInitially
<1>2. (McsInv /\ KeptInv) /\ [McsNext]_mcsVars => (McsInv /\ KeptInv)'
  BY McsKept, KeptKept
<1>3. McsInv /\ KeptInv => AgreeUnlessLost
  BY KeptAgrees
<1> QED
  BY <1>1, <1>2, <1>3, PTL DEF McsSpec
===========================================================================
