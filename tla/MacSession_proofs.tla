-------------------------- MODULE MacSession_proofs -------------------------
(***************************************************************************)
(* For any number of clients and ids and any timers: type correctness;     *)
(* that only clients with one random id share a session; that users are    *)
(* told before they are removed; and that a client takes no second user    *)
(* for one attempt.                                                        *)
(***************************************************************************)
EXTENDS MacSession, TLAPS, WellFoundedInduction

(* The least of a set of numbers is what CHOOSE says.                      *)
LEMMA Least ==
  ASSUME NEW S \in SUBSET Nat, S # {}
  PROVE  /\ (CHOOSE i \in S : \A j \in S : i <= j) \in S
         /\ \A j \in S : (CHOOSE i \in S : \A k \in S : i <= k) <= j
<1>1. PICK i \in S : \A j \in S : ~(<<j, i>> \in OpToRel(<, Nat))
  BY NatLessThanWellFounded, WFMin
<1>2. \A j \in S : ~(j < i)
  BY <1>1 DEF OpToRel
<1>3. \A j \in S : i <= j
  BY <1>2
<1> QED
  BY <1>3

LEMMA IdFacts ==
  /\ NoId \notin Ids /\ NoId \notin RachIds /\ 0 \notin Ids
  /\ NoUE \notin User
BY SessionAssumption DEF NoId, Ids, NoUE, User

LEMMA InUseUser ==
  ASSUME TypeOK, NEW u \in InUse
  PROVE  u \in Ids /\ UE[u] \in User /\ UE[u].session \in 1 .. MaxSessions
<1>1. u \in Ids /\ UE[u] \in User
  BY DEF InUse, TypeOK
<1> QED
  BY <1>1 DEF User

---------------------------------------------------------------------------
(* The base station's run. *)

LEMMA PutType ==
  ASSUME NEW user \in User
  PROVE  Put(user) \in User /\ Put(user).session = user.session
<1>1. CASE user.queue < MAC_CTRL_MSG_BUF_SIZE
  <2>1. user.queue + 1 \in 0 .. MAC_CTRL_MSG_BUF_SIZE
    BY <1>1, SessionAssumption DEF User
  <2> QED
    BY <1>1, <2>1 DEF Put, User
<1>2. CASE ~(user.queue < MAC_CTRL_MSG_BUF_SIZE)
  BY <1>2 DEF Put
<1> QED
  BY <1>1, <1>2

LEMMA OlderType ==
  ASSUME NEW age \in 0 .. TMR_USER_INACTIVE + 1
  PROVE  Older(age) \in 0 .. TMR_USER_INACTIVE + 1
BY SessionAssumption DEF Older

LEMMA AfterRunType ==
  ASSUME NEW user \in User, NEW served, NEW other
  PROVE  \/ AfterRun(user, served, other) = NoUE
         \/ /\ AfterRun(user, served, other) \in User
            /\ AfterRun(user, served, other).session = user.session
<1> DEFINE d == DetectInactive(user)
           left == IF served THEN MapSlot(d) ELSE d
           older == [left EXCEPT !.age = Older(@)]
<1>1. Put(user) \in User /\ Put(user).session = user.session
  BY PutType
<1>2. d \in User /\ d.session = user.session
  BY <1>1 DEF DetectInactive, User
<1> HIDE DEF d
<1>3. left \in User /\ left.session = user.session
  <2>1. 0 \in 0 .. MAC_CTRL_MSG_BUF_SIZE
    BY SessionAssumption
  <2>2. MapSlot(d) \in User /\ MapSlot(d).session = d.session
    BY <1>2, <2>1 DEF MapSlot, User
  <2> QED
    BY <1>2, <2>2
<1> HIDE DEF left
<1>4. Older(left.age) \in 0 .. TMR_USER_INACTIVE + 1
  BY <1>3, OlderType DEF User
<1>5. older \in User /\ older.session = user.session
  BY <1>3, <1>4 DEF User
<1> HIDE DEF older
<1>6. Put(older) \in User /\ Put(older).session = user.session
  BY <1>5, PutType
<1>7. \/ AfterRun(user, served, other) = NoUE
      \/ AfterRun(user, served, other) = Put(older)
      \/ AfterRun(user, served, other) = older
  BY DEF AfterRun, older, left, d
<1> QED
  BY <1>5, <1>6, <1>7

LEMMA BsRunStep ==
  ASSUME TypeOK, BsRun
  PROVE  /\ TypeOK'
         /\ \A u \in Ids : UE'[u] # NoUE =>
              UE[u] # NoUE /\ UE'[u].session = UE[u].session
         /\ row'.responses = broadcast_ctrl_queue
         /\ broadcast_ctrl_queue' = <<>>
         /\ UNCHANGED <<last_added, ue, owners>>
<1>1. PICK dl \in SUBSET {u \in InUse : DetectInactive(UE[u]).queue > 0},
           brcst, ra \in BOOLEAN, other \in InUse \cup {NoId} :
        /\ broadcast_ctrl_queue # <<>> => brcst
        /\ row' = [dl |-> dl, brcst |-> brcst, responses |-> broadcast_ctrl_queue,
                   ended |-> {u \in dl : DetectInactive(UE[u]).ending},
                   users |-> InUse, ra |-> ra]
        /\ ra_open' = ra
        /\ UE' = [u \in Ids |-> IF UE[u] = NoUE THEN NoUE
                                 ELSE AfterRun(UE[u], u \in dl, u = other)]
  BY DEF BsRun
<1>2. \A u \in Ids : UE[u] # NoUE => UE[u] \in User
  BY DEF TypeOK
<1>3. \A u \in Ids :
        \/ UE'[u] = NoUE
        \/ UE[u] # NoUE /\ UE'[u] \in User /\ UE'[u].session = UE[u].session
  <2> SUFFICES ASSUME NEW u \in Ids, UE[u] # NoUE
               PROVE  \/ UE'[u] = NoUE
                      \/ UE'[u] \in User /\ UE'[u].session = UE[u].session
    BY <1>1
  <2>1. UE'[u] = AfterRun(UE[u], u \in dl, u = other)
    BY <1>1
  <2>2. UE[u] \in User
    BY <1>2
  <2> QED
    BY <2>1, <2>2, AfterRunType
<1>4. UE' \in [Ids -> User \cup {NoUE}]
  BY <1>1, <1>3
<1>5. /\ row'.dl \cup row'.users \subseteq Ids /\ row'.ended \subseteq row'.dl
      /\ row'.responses = broadcast_ctrl_queue
      /\ ra_open' \in BOOLEAN
  BY <1>1 DEF InUse
<1>6. broadcast_ctrl_queue' = <<>> /\ UNCHANGED <<last_added, ue, owners>> /\ turn' = 1
  BY DEF BsRun
<1>7. <<>> \in Seq(Responses) /\ Len(<<>>) <= MAC_CTRL_MSG_BUF_SIZE /\ 1 \in 0 .. NumClients
  BY SessionAssumption
<1>8. TypeOK'
  BY <1>4, <1>5, <1>6, <1>7 DEF TypeOK
<1> QED
  BY <1>3, <1>5, <1>6, <1>8

---------------------------------------------------------------------------
(* The inductive invariant: of every session all who know a random id for  *)
(* it know the same, be it a response on its way, a client that has taken  *)
(* one, or the base station that would repeat it.                          *)
Held(responses, s, r) ==
  \E i \in DOMAIN responses : responses[i].session = s /\ responses[i].rach = r
Taken(s, r) ==
  \E c \in Clients : ue[c].is_associated /\ ue[c].session = s /\ ue[c].rachuserid = r
Repeatable(s, r) ==
  last_added.id \in InUse /\ UE[last_added.id].session = s /\ last_added.rach = r
Claimed(s, r) ==
  \/ Held(broadcast_ctrl_queue, s, r) \/ Held(row.responses, s, r)
  \/ Taken(s, r) \/ Repeatable(s, r)

RachInv == \A s \in 1 .. MaxSessions : \A r1, r2 \in RachIds \cup {NoId} :
             Claimed(s, r1) /\ Claimed(s, r2) => r1 = r2
CountInv ==
  /\ \A s \in 1 .. MaxSessions : \A r \in RachIds \cup {NoId} :
       Claimed(s, r) => s <= Len(owners)
  /\ \A u \in InUse : UE[u].session <= Len(owners)
ClientInv == \A c \in Clients :
  /\ ue[c].rach_try_cnt # 0 => ue[c].rachuserid \in RachIds
  /\ ue[c].is_associated => ue[c].session # 0

IInv == TypeOK /\ RachInv /\ CountInv /\ ClientInv

---------------------------------------------------------------------------
(* A client's subframe. *)

Good(client) ==
  /\ client \in Client
  /\ client.rach_try_cnt # 0 => client.rachuserid \in RachIds
  /\ client.is_associated => client.session # 0

(* A client that is associated was so before, or has taken a response.     *)
Follows(after, before) ==
  /\ Good(after)
  /\ after.is_associated =>
       \/ /\ before.is_associated
          /\ after.session = before.session /\ after.rachuserid = before.rachuserid
       \/ Held(row.responses, after.session, after.rachuserid)

LEMMA FollowsChain ==
  ASSUME NEW a, NEW b, NEW c, Follows(b, a), Follows(c, b)
  PROVE  Follows(c, a)
<1>1. Good(c)
  BY DEF Follows
<1>2. ASSUME c.is_associated,
             ~Held(row.responses, c.session, c.rachuserid)
      PROVE  /\ a.is_associated
             /\ c.session = a.session /\ c.rachuserid = a.rachuserid
  <2>1. b.is_associated /\ c.session = b.session /\ c.rachuserid = b.rachuserid
    BY <1>2 DEF Follows
  <2> QED
    BY <1>2, <2>1 DEF Follows
<1> QED
  BY <1>1, <1>2 DEF Follows

(* What leaves the fields alone that matter.                               *)
LEMMA FollowsIfAlike ==
  ASSUME NEW a, NEW b, Good(a), b \in Client,
         b.rach_try_cnt = a.rach_try_cnt, b.rachuserid = a.rachuserid,
         b.is_associated => a.is_associated /\ b.session = a.session
  PROVE  Follows(b, a)
BY DEF Follows, Good

LEMMA SlotNotedFollows ==
  ASSUME NEW client, Good(client)
  PROVE  Follows(SlotNoted(client), client)
<1>1. 0 \in 0 .. TMR_USER_INACTIVE + 1
  BY SessionAssumption
<1>2. client \in Client
  BY DEF Good
<1>3. [client EXCEPT !.idle = 0] \in Client
  BY <1>1, <1>2 DEF Client
<1>4. CASE client.is_associated
  <2>1. SlotNoted(client) = [client EXCEPT !.idle = 0]
    BY <1>4 DEF SlotNoted
  <2> QED
    BY <1>2, <1>3, <2>1, FollowsIfAlike DEF Client
<1>5. CASE ~client.is_associated
  BY <1>2, <1>5, FollowsIfAlike DEF SlotNoted
<1> QED
  BY <1>4, <1>5

LEMMA DissociatedFollows ==
  ASSUME NEW client, Good(client)
  PROVE  /\ Follows(Dissociated(client), client)
         /\ Follows(EndSession(client), client)
<1>1. 0 \in 0 .. TMR_USER_INACTIVE + 1 /\ 0 \in 0 .. MaxSessions
  BY SessionAssumption
<1>2. client \in Client
  BY DEF Good
<1>3. /\ Dissociated(client) \in Client /\ ~Dissociated(client).is_associated
      /\ Dissociated(client).rach_try_cnt = client.rach_try_cnt
      /\ Dissociated(client).rachuserid = client.rachuserid
  BY <1>1, <1>2 DEF Dissociated, Client
<1>4. /\ EndSession(client) \in Client /\ ~EndSession(client).is_associated
      /\ EndSession(client).rach_try_cnt = client.rach_try_cnt
      /\ EndSession(client).rachuserid = client.rachuserid
  BY <1>3 DEF EndSession, Client
<1> QED
  BY <1>3, <1>4, FollowsIfAlike

LEMMA TakeResponsesFollows ==
  ASSUME TypeOK, NEW client, Good(client)
  PROVE  Follows(TakeResponses(client), client)
<1> DEFINE usable == {i \in 1 .. Len(row.responses) :
                        Concerns(row.responses[i], client) /\ row.responses[i].id # 0}
           first == CHOOSE i \in usable : \A j \in usable : i <= j
           r == row.responses[first]
<1>0. client \in Client
  BY DEF Good
<1>1. CASE usable = {}
  <2>1. TakeResponses(client) = client
    BY <1>1 DEF TakeResponses
  <2> QED
    BY <1>0, <2>1, FollowsIfAlike
<1>2. CASE usable # {}
  <2>1. usable \subseteq Nat
    BY DEF TypeOK
  <2>2. first \in usable
    BY <1>2, <2>1, Least
  <2>3. TakeResponses(client) =
          [client EXCEPT !.is_associated = TRUE, !.rach_try_cnt = 0,
                         !.userid = r.id, !.session = r.session]
    BY <1>2 DEF TakeResponses
  <2>9. row.responses \in Seq(Responses)
    BY DEF TypeOK
  <2>10. first \in DOMAIN row.responses /\ r \in Responses
    <3> HIDE DEF first
    <3> QED
      BY <2>2, <2>9
  <2>11. Concerns(r, client) /\ r.id # 0
    BY <2>2
  <2>4. first \in DOMAIN row.responses /\ r \in Responses /\ r.id # 0
        /\ r.rach = client.rachuserid
    BY <2>10, <2>11 DEF Concerns
  <2>5. r.id \in Ids /\ r.session \in 1 .. MaxSessions
    BY <2>4 DEF Responses
  <2>6. Held(row.responses, r.session, client.rachuserid)
    BY <2>4 DEF Held
  <2>7. r.session # 0 /\ r.session \in 0 .. MaxSessions /\ 0 \in 0 .. MaxTries
    BY <2>5, SessionAssumption
  <2> HIDE DEF r, first, usable
  <2>8. /\ TakeResponses(client) \in Client
        /\ TakeResponses(client).rach_try_cnt = 0
        /\ TakeResponses(client).session = r.session
        /\ TakeResponses(client).rachuserid = client.rachuserid
    BY <1>0, <2>3, <2>5, <2>7 DEF Client
  <2> QED
    BY <2>6, <2>7, <2>8 DEF Follows, Good
<1> QED
  BY <1>1, <1>2

LEMMA AfterTimerFollows ==
  ASSUME NEW client, Good(client), NEW assigned \in BOOLEAN
  PROVE  Follows(AfterTimer(client, assigned), client)
<1>0. client \in Client
  BY DEF Good
<1>1. CASE ~client.is_associated
  <2>1. AfterTimer(client, assigned) = client
    BY <1>1 DEF AfterTimer
  <2> QED
    BY <1>0, <2>1, FollowsIfAlike
<1>2. CASE client.is_associated /\ client.idle > TMR_USER_INACTIVE
  <2>1. AfterTimer(client, assigned) = Dissociated(client)
    BY <1>2 DEF AfterTimer
  <2> QED
    BY <2>1, DissociatedFollows
<1>3. CASE client.is_associated /\ ~(client.idle > TMR_USER_INACTIVE)
  <2>1. Older(0) \in 0 .. TMR_USER_INACTIVE + 1
        /\ Older(client.idle) \in 0 .. TMR_USER_INACTIVE + 1
    BY <1>0, OlderType, SessionAssumption DEF Client
  <2>2. \E n \in 0 .. TMR_USER_INACTIVE + 1 :
          AfterTimer(client, assigned) = [client EXCEPT !.idle = n]
    BY <1>3, <2>1 DEF AfterTimer
  <2>3. PICK n \in 0 .. TMR_USER_INACTIVE + 1 :
          AfterTimer(client, assigned) = [client EXCEPT !.idle = n]
    BY <2>2
  <2>4. [client EXCEPT !.idle = n] \in Client
    BY <1>0 DEF Client
  <2> QED
    BY <1>0, <2>3, <2>4, FollowsIfAlike DEF Client
<1> QED
  BY <1>1, <1>2, <1>3

LEMMA NextRequestFollows ==
  ASSUME NEW client, Good(client), ~client.is_associated, NEW rach \in RachIds
  PROVE  /\ Good(NextRequest(client, rach))
         /\ ~NextRequest(client, rach).is_associated
<1>1. client \in Client
  BY DEF Good
<1>2. (IF client.rach_try_cnt = MaxTries THEN client.rach_try_cnt
       ELSE client.rach_try_cnt + 1) \in 0 .. MaxTries
  BY <1>1, SessionAssumption DEF Client
<1>3. /\ NextRequest(client, rach) \in Client
      /\ NextRequest(client, rach).is_associated = client.is_associated
      /\ NextRequest(client, rach).rachuserid = rach
  BY <1>1, <1>2 DEF NextRequest, Client
<1> QED
  BY <1>3 DEF Good

---------------------------------------------------------------------------
(* The base station's answer. *)

LEMMA RespondHeld ==
  ASSUME TypeOK, NEW response \in Responses, Respond(response)
  PROVE  /\ broadcast_ctrl_queue' \in Seq(Responses)
         /\ Len(broadcast_ctrl_queue') <= MAC_CTRL_MSG_BUF_SIZE
         /\ \A s, r : Held(broadcast_ctrl_queue', s, r) =>
              \/ Held(broadcast_ctrl_queue, s, r)
              \/ s = response.session /\ r = response.rach
<1> DEFINE q == broadcast_ctrl_queue
<1>0. q \in Seq(Responses) /\ Len(q) \in Nat /\ Len(q) <= MAC_CTRL_MSG_BUF_SIZE
      /\ DOMAIN q = 1 .. Len(q)
  BY DEF TypeOK
<1>1. CASE Len(q) < MAC_CTRL_MSG_BUF_SIZE
  <2>1. q' = Append(q, response)
    BY <1>1 DEF Respond
  <2>2. /\ q' \in Seq(Responses) /\ Len(q') = Len(q) + 1
        /\ DOMAIN q' = 1 .. Len(q) + 1
        /\ \A i \in 1 .. Len(q) : q'[i] = q[i]
        /\ q'[Len(q) + 1] = response
    BY <1>0, <2>1
  <2>3. Len(q') <= MAC_CTRL_MSG_BUF_SIZE
    BY <1>0, <1>1, <2>2, SessionAssumption
  <2>4. ASSUME NEW s, NEW r, Held(q', s, r)
        PROVE  Held(q, s, r) \/ (s = response.session /\ r = response.rach)
    <3>1. PICK i \in 1 .. Len(q) + 1 : q'[i].session = s /\ q'[i].rach = r
      BY <2>2, <2>4 DEF Held
    <3>2. CASE i \in 1 .. Len(q)
      BY <1>0, <2>2, <3>1, <3>2 DEF Held
    <3>3. CASE i = Len(q) + 1
      BY <2>2, <3>1, <3>3
    <3> QED
      BY <1>0, <3>2, <3>3
  <2> QED
    BY <2>2, <2>3, <2>4
<1>2. CASE ~(Len(q) < MAC_CTRL_MSG_BUF_SIZE)
  <2>1. q' = q
    BY <1>2 DEF Respond
  <2> QED
    BY <1>0, <2>1
<1> QED
  BY <1>1, <1>2

(* A response is that of the user added last, of no user, or of the one    *)
(* that is added.                                                          *)
LEMMA AddNewUeStep ==
  ASSUME TypeOK, NEW c \in Clients, NEW rach \in RachIds, NEW try,
         AddNewUe(c, rach, try)
  PROVE  /\ UE' \in [Ids -> User \cup {NoUE}]
         /\ broadcast_ctrl_queue' \in Seq(Responses)
         /\ Len(broadcast_ctrl_queue') <= MAC_CTRL_MSG_BUF_SIZE
         /\ \/ last_added' = last_added
            \/ last_added' \in [id : Ids, rach : RachIds]
         /\ owners' \in Seq(Clients \cup {0}) /\ Len(owners') <= MaxSessions
         /\ \/ /\ UNCHANGED <<UE, last_added, owners>>
               /\ \A s \in 1 .. MaxSessions : \A r :
                    Held(broadcast_ctrl_queue', s, r) =>
                      Held(broadcast_ctrl_queue, s, r) \/ Repeatable(s, r)
            \/ /\ Len(owners') = Len(owners) + 1
               /\ \E id \in Ids \ InUse :
                    /\ last_added' = [id |-> id, rach |-> rach]
                    /\ UE'[id].session = Len(owners) + 1
                    /\ \A u \in Ids \ {id} : UE'[u] = UE[u]
               /\ \A s, r : Held(broadcast_ctrl_queue', s, r) =>
                    \/ Held(broadcast_ctrl_queue, s, r)
                    \/ s = Len(owners) + 1 /\ r = rach
<1>0. UE \in [Ids -> User \cup {NoUE}] /\ owners \in Seq(Clients \cup {0})
      /\ Len(owners) \in Nat /\ Len(owners) <= MaxSessions
  BY DEF TypeOK
<1>1. CASE IsRepeated(rach, try) /\ UNCHANGED <<UE, last_added, owners>>
           /\ Respond([rach |-> rach, id |-> last_added.id,
                       session |-> UE[last_added.id].session])
  <2> DEFINE response == [rach |-> rach, id |-> last_added.id,
                          session |-> UE[last_added.id].session]
  <2>1. last_added.rach = rach /\ last_added # [id |-> NoId, rach |-> NoId]
    BY <1>1, IdFacts DEF IsRepeated
  <2>2. last_added.id \in Ids /\ UE[last_added.id] # NoUE
    BY <1>1, <2>1 DEF IsRepeated, TypeOK
  <2>3. last_added.id \in InUse
    BY <2>2 DEF InUse
  <2>4. UE[last_added.id].session \in 1 .. MaxSessions
    BY <2>3, InUseUser
  <2>5. response \in Responses
    BY <2>2, <2>4 DEF Responses
  <2>6. response.session = UE[last_added.id].session /\ response.rach = rach
    OBVIOUS
  <2>7. \A s, r : s = response.session /\ r = response.rach => Repeatable(s, r)
    BY <2>1, <2>3, <2>6 DEF Repeatable
  <2>8. Respond(response)
    BY <1>1
  <2> HIDE DEF response
  <2>9. /\ broadcast_ctrl_queue' \in Seq(Responses)
        /\ Len(broadcast_ctrl_queue') <= MAC_CTRL_MSG_BUF_SIZE
        /\ \A s, r : Held(broadcast_ctrl_queue', s, r) =>
             Held(broadcast_ctrl_queue, s, r) \/ Repeatable(s, r)
    BY <2>5, <2>7, <2>8, RespondHeld
  <2> QED
    BY <1>0, <1>1, <2>9
<1>2. CASE UNCHANGED <<UE, last_added, owners>>
           /\ Respond([rach |-> rach, id |-> 0, session |-> 0])
  <2> DEFINE response == [rach |-> rach, id |-> 0, session |-> 0]
  <2>1. response \in Responses /\ \A s \in 1 .. MaxSessions : s # response.session
    BY DEF Responses
  <2>2. Respond(response)
    BY <1>2
  <2> HIDE DEF response
  <2>3. /\ broadcast_ctrl_queue' \in Seq(Responses)
        /\ Len(broadcast_ctrl_queue') <= MAC_CTRL_MSG_BUF_SIZE
        /\ \A s \in 1 .. MaxSessions : \A r :
             Held(broadcast_ctrl_queue', s, r) => Held(broadcast_ctrl_queue, s, r)
    BY <2>1, <2>2, RespondHeld
  <2> QED
    BY <1>0, <1>2, <2>3
<1>3. ASSUME Len(owners) < MaxSessions, NEW id \in Ids \ InUse,
             UE' = [UE EXCEPT ![id] =
                      [session |-> Len(owners) + 1, age |-> 0, will_end |-> FALSE,
                       queue |-> 0, ending |-> FALSE]],
             last_added' = [id |-> id, rach |-> rach],
             Respond([rach |-> rach, id |-> id, session |-> Len(owners) + 1]),
             owners' = Append(owners, c)
      PROVE  /\ UE' \in [Ids -> User \cup {NoUE}]
             /\ broadcast_ctrl_queue' \in Seq(Responses)
             /\ Len(broadcast_ctrl_queue') <= MAC_CTRL_MSG_BUF_SIZE
             /\ last_added' \in [id : Ids, rach : RachIds]
             /\ owners' \in Seq(Clients \cup {0}) /\ Len(owners') <= MaxSessions
             /\ Len(owners') = Len(owners) + 1
             /\ last_added' = [id |-> id, rach |-> rach]
             /\ UE'[id].session = Len(owners) + 1
             /\ \A u \in Ids \ {id} : UE'[u] = UE[u]
             /\ \A s, r : Held(broadcast_ctrl_queue', s, r) =>
                  \/ Held(broadcast_ctrl_queue, s, r)
                  \/ s = Len(owners) + 1 /\ r = rach
  <2> DEFINE response == [rach |-> rach, id |-> id, session |-> Len(owners) + 1]
             user == [session |-> Len(owners) + 1, age |-> 0, will_end |-> FALSE,
                      queue |-> 0, ending |-> FALSE]
  <2>1. Len(owners) + 1 \in 1 .. MaxSessions
    BY <1>0, <1>3, SessionAssumption
  <2>2. response \in Responses /\ response.session = Len(owners) + 1
        /\ response.rach = rach
    BY <2>1 DEF Responses
  <2>3. 0 \in 0 .. TMR_USER_INACTIVE + 1 /\ 0 \in 0 .. MAC_CTRL_MSG_BUF_SIZE
    BY SessionAssumption
  <2>4. user \in User /\ user.session = Len(owners) + 1
    BY <2>1, <2>3 DEF User
  <2>5. Respond(response) /\ UE' = [UE EXCEPT ![id] = user]
    BY <1>3
  <2>6. Len(owners') = Len(owners) + 1 /\ owners' \in Seq(Clients \cup {0})
    BY <1>0, <1>3
  <2>7. Len(owners') <= MaxSessions
    BY <2>1, <2>6
  <2>8. last_added' \in [id : Ids, rach : RachIds]
    BY <1>3
  <2> HIDE DEF response, user
  <2>9. UE' \in [Ids -> User \cup {NoUE}] /\ UE'[id].session = Len(owners) + 1
        /\ \A u \in Ids \ {id} : UE'[u] = UE[u]
    BY <1>0, <2>4, <2>5
  <2>10. /\ broadcast_ctrl_queue' \in Seq(Responses)
         /\ Len(broadcast_ctrl_queue') <= MAC_CTRL_MSG_BUF_SIZE
         /\ \A s, r : Held(broadcast_ctrl_queue', s, r) =>
              \/ Held(broadcast_ctrl_queue, s, r)
              \/ s = Len(owners) + 1 /\ r = rach
    BY <2>2, <2>5, RespondHeld
  <2> QED
    BY <1>3, <2>6, <2>7, <2>8, <2>9, <2>10
<1>4. \/ IsRepeated(rach, try) /\ UNCHANGED <<UE, last_added, owners>>
           /\ Respond([rach |-> rach, id |-> last_added.id,
                       session |-> UE[last_added.id].session])
      \/ UNCHANGED <<UE, last_added, owners>>
           /\ Respond([rach |-> rach, id |-> 0, session |-> 0])
      \/ Len(owners) < MaxSessions /\
         \E id \in Ids \ InUse :
             /\ UE' = [UE EXCEPT ![id] =
                      [session |-> Len(owners) + 1, age |-> 0, will_end |-> FALSE,
                       queue |-> 0, ending |-> FALSE]]
             /\ last_added' = [id |-> id, rach |-> rach]
             /\ Respond([rach |-> rach, id |-> id, session |-> Len(owners) + 1])
             /\ owners' = Append(owners, c)
  BY DEF AddNewUe
<1>5. CASE Len(owners) < MaxSessions /\
         \E id \in Ids \ InUse :
             /\ UE' = [UE EXCEPT ![id] =
                      [session |-> Len(owners) + 1, age |-> 0, will_end |-> FALSE,
                       queue |-> 0, ending |-> FALSE]]
             /\ last_added' = [id |-> id, rach |-> rach]
             /\ Respond([rach |-> rach, id |-> id, session |-> Len(owners) + 1])
             /\ owners' = Append(owners, c)
  <2>1. PICK id \in Ids \ InUse :
             /\ UE' = [UE EXCEPT ![id] =
                      [session |-> Len(owners) + 1, age |-> 0, will_end |-> FALSE,
                       queue |-> 0, ending |-> FALSE]]
             /\ last_added' = [id |-> id, rach |-> rach]
             /\ Respond([rach |-> rach, id |-> id, session |-> Len(owners) + 1])
             /\ owners' = Append(owners, c)
    BY <1>5
  <2> QED
    BY <1>3, <1>5, <2>1
<1> QED
  BY <1>1, <1>2, <1>4, <1>5

---------------------------------------------------------------------------
LEMMA RxChannelStep ==
  ASSUME TypeOK, NEW id \in Ids, RxChannel(id)
  PROVE  /\ UE' \in [Ids -> User \cup {NoUE}]
         /\ \A u \in Ids : UE'[u].session = UE[u].session
         /\ InUse' = InUse
<1>0. UE \in [Ids -> User \cup {NoUE}] /\ NoUE \notin User
  BY IdFacts DEF TypeOK
<1>1. CASE UE[id] = NoUE
  <2>1. UE' = UE
    BY <1>0, <1>1 DEF RxChannel
  <2> QED
    BY <1>0, <2>1 DEF InUse
<1>2. CASE UE[id] # NoUE
  <2>1. UE[id] \in User /\ 0 \in 0 .. TMR_USER_INACTIVE + 1
    BY <1>0, <1>2, SessionAssumption
  <2>2. [UE[id] EXCEPT !.age = 0] \in User
        /\ [UE[id] EXCEPT !.age = 0].session = UE[id].session
    BY <2>1 DEF User
  <2>3. UE' = [UE EXCEPT ![id] = [UE[id] EXCEPT !.age = 0]]
    BY <1>2 DEF RxChannel
  <2>4. UE' \in [Ids -> User \cup {NoUE}]
        /\ \A u \in Ids : UE'[u].session = UE[u].session
    BY <1>0, <2>2, <2>3
  <2>5. \A u \in Ids : UE'[u] # NoUE <=> UE[u] # NoUE
    BY <1>0, <1>2, <2>2, <2>3
  <2> QED
    BY <2>4, <2>5 DEF InUse
<1> QED
  BY <1>1, <1>2

LEMMA AfterSubframeFollows ==
  ASSUME TypeOK, NEW me, Good(me), NEW dlctrl \in BOOLEAN, NEW assigned \in BOOLEAN,
         NEW decoded
  PROVE  Follows(AfterSubframe(me, dlctrl, decoded, assigned), me)
<1> DEFINE noted == IF dlctrl /\ SlotsFor(me) # {} THEN SlotNoted(me) ELSE me
           ended == IF "own" \in decoded /\ me.userid \in row.ended
                    THEN EndSession(noted) ELSE noted
           answered == IF "brcst" \in decoded THEN TakeResponses(ended) ELSE ended
           after == AfterTimer(answered, assigned)
<1>1. after = AfterSubframe(me, dlctrl, decoded, assigned)
  BY DEF AfterSubframe
<1>2. Follows(noted, me)
  BY SlotNotedFollows, FollowsIfAlike DEF Good
<1> HIDE DEF noted
<1>3. Follows(ended, noted)
  BY <1>2, DissociatedFollows, FollowsIfAlike DEF Follows, Good
<1> HIDE DEF ended
<1>4. Follows(answered, ended)
  BY <1>3, TakeResponsesFollows, FollowsIfAlike DEF Follows, Good
<1> HIDE DEF answered
<1>5. Follows(after, answered)
  BY <1>4, AfterTimerFollows DEF Follows
<1> HIDE DEF after
<1>6. Follows(after, me)
  BY <1>2, <1>3, <1>4, <1>5, FollowsChain
<1> QED
  BY <1>1, <1>6

(* What a client does to itself, and what it makes the base station do.    *)
LEMMA ClientStep ==
  ASSUME TypeOK, ClientInv, NEW c \in Clients, ClientSubframe(c)
  PROVE  /\ \E x : ue' = [ue EXCEPT ![c] = x] /\ Follows(x, ue[c])
         /\ row' \in {row, SilentRow} /\ turn' \in 0 .. NumClients
         /\ ra_open' \in BOOLEAN
         /\ \/ /\ UNCHANGED <<last_added, broadcast_ctrl_queue>>
               /\ UE' \in [Ids -> User \cup {NoUE}]
               /\ \A u \in Ids : UE'[u].session = UE[u].session
               /\ InUse' = InUse
               /\ owners' \in Seq(Clients \cup {0}) /\ Len(owners') = Len(owners)
            \/ \E rach \in RachIds, try \in Nat : AddNewUe(c, rach, try)
<1>1. PICK dlctrl \in BOOLEAN :
      \E assigned \in IF dlctrl /\ ue[c].userid \in row.users THEN BOOLEAN ELSE {FALSE},
         decoded \in SUBSET IF dlctrl THEN SlotsFor(ue[c]) ELSE {} :
        Transmit(c, AfterSubframe(ue[c], dlctrl, decoded, assigned), assigned)
  BY DEF ClientSubframe
<1>2. PICK assigned \in IF dlctrl /\ ue[c].userid \in row.users THEN BOOLEAN ELSE {FALSE},
           decoded \in SUBSET IF dlctrl THEN SlotsFor(ue[c]) ELSE {} :
        Transmit(c, AfterSubframe(ue[c], dlctrl, decoded, assigned), assigned)
  BY <1>1
<1> DEFINE me == ue[c]
           after == AfterSubframe(me, dlctrl, decoded, assigned)
<1>3. Good(me)
  BY DEF ClientInv, TypeOK, Good
<1>4. assigned \in BOOLEAN /\ (assigned => me.userid \in Ids)
  BY DEF TypeOK
<1>5. \/ /\ after.is_associated
         /\ ue' = [ue EXCEPT ![c] = after]
         /\ owners' = [s \in DOMAIN owners |-> IF owners[s] = c THEN 0 ELSE owners[s]]
         /\ UNCHANGED UE \/ (assigned /\ RxChannel(me.userid))
         /\ UNCHANGED <<broadcast_ctrl_queue, last_added, ra_open>>
      \/ /\ ~after.is_associated
         /\ ue' = [ue EXCEPT ![c] = after]
         /\ UNCHANGED bs
      \/ /\ ~after.is_associated
         /\ \E rach \in IF after.rach_try_cnt = 0 THEN RachIds
                        ELSE {after.rachuserid} :
              /\ ue' = [ue EXCEPT ![c] = NextRequest(after, rach)]
              /\ \/ UNCHANGED bs
                 \/ RxRach(c, rach, after.rach_try_cnt)
  BY <1>2 DEF Transmit
<1>10. Follows(after, me)
  BY <1>3, <1>4, AfterSubframeFollows
<1> HIDE DEF after
<1>11. row' \in {row, SilentRow} /\ turn' \in 0 .. NumClients
  BY SessionAssumption DEF ClientSubframe, Clients
<1>12. ra_open \in BOOLEAN /\ owners \in Seq(Clients \cup {0})
       /\ UE \in [Ids -> User \cup {NoUE}]
  BY DEF TypeOK
<1>13. CASE /\ ue' = [ue EXCEPT ![c] = after]
            /\ owners' = [s \in DOMAIN owners |-> IF owners[s] = c THEN 0 ELSE owners[s]]
            /\ UNCHANGED UE \/ (assigned /\ RxChannel(me.userid))
            /\ UNCHANGED <<broadcast_ctrl_queue, last_added, ra_open>>
  <2>1. owners' \in Seq(Clients \cup {0}) /\ Len(owners') = Len(owners)
    <3>1. DOMAIN owners = 1 .. Len(owners) /\ Len(owners) \in Nat
      BY <1>12
    <3>2. owners' \in [1 .. Len(owners) -> Clients \cup {0}]
      BY <1>12, <1>13, <3>1
    <3> QED
      BY <3>1, <3>2
  <2>2. /\ UE' \in [Ids -> User \cup {NoUE}]
        /\ \A u \in Ids : UE'[u].session = UE[u].session
        /\ InUse' = InUse
    BY <1>4, <1>12, <1>13, RxChannelStep DEF InUse
  <2> QED
    BY <1>10, <1>11, <1>12, <1>13, <2>1, <2>2
<1>14. CASE ue' = [ue EXCEPT ![c] = after] /\ UNCHANGED bs
  BY <1>10, <1>11, <1>12, <1>14 DEF bs, InUse
<1>15. CASE ~after.is_associated /\
            \E rach \in IF after.rach_try_cnt = 0 THEN RachIds ELSE {after.rachuserid} :
              /\ ue' = [ue EXCEPT ![c] = NextRequest(after, rach)]
              /\ UNCHANGED bs \/ RxRach(c, rach, after.rach_try_cnt)
  <2>1. PICK rach \in IF after.rach_try_cnt = 0 THEN RachIds ELSE {after.rachuserid} :
              /\ ue' = [ue EXCEPT ![c] = NextRequest(after, rach)]
              /\ UNCHANGED bs \/ RxRach(c, rach, after.rach_try_cnt)
    BY <1>15
  <2>2. rach \in RachIds /\ after.rach_try_cnt \in Nat /\ Good(after)
    BY <1>10, SessionAssumption DEF Follows, Good, Client
  <2>3. Follows(NextRequest(after, rach), me)
    BY <1>15, <2>2, NextRequestFollows DEF Follows
  <2>4. CASE UNCHANGED bs
    BY <1>11, <1>12, <2>1, <2>3, <2>4 DEF bs, InUse
  <2>5. CASE RxRach(c, rach, after.rach_try_cnt)
    BY <1>11, <2>1, <2>2, <2>3, <2>5 DEF RxRach
  <2> QED
    BY <2>1, <2>4, <2>5
<1> QED
  BY <1>5, <1>13, <1>14, <1>15

---------------------------------------------------------------------------
(* Every step. *)

LEMMA BsRunInv ==
  ASSUME IInv, BsRun
  PROVE  IInv'
<1>1. /\ TypeOK'
      /\ \A u \in Ids : UE'[u] # NoUE => UE[u] # NoUE /\ UE'[u].session = UE[u].session
      /\ row'.responses = broadcast_ctrl_queue
      /\ broadcast_ctrl_queue' = <<>>
      /\ UNCHANGED <<last_added, ue, owners>>
  BY BsRunStep DEF IInv
<1>2. InUse' \subseteq InUse /\ \A u \in InUse' : UE'[u].session = UE[u].session
  BY <1>1 DEF InUse
<1>3. \A s, r : Claimed(s, r)' => Claimed(s, r)
  <2>1. \A s, r : ~Held(broadcast_ctrl_queue', s, r)
    BY <1>1 DEF Held
  <2>2. \A s, r : Repeatable(s, r)' => Repeatable(s, r)
    BY <1>1, <1>2 DEF Repeatable
  <2>3. \A s, r : Taken(s, r)' => Taken(s, r)
    BY <1>1 DEF Taken
  <2> QED
    BY <1>1, <2>1, <2>2, <2>3 DEF Claimed
<1>4. RachInv'
  BY <1>3 DEF IInv, RachInv
<1>5. CountInv'
  BY <1>1, <1>2, <1>3 DEF IInv, CountInv
<1>6. ClientInv'
  BY <1>1 DEF IInv, ClientInv
<1> QED
  BY <1>1, <1>4, <1>5, <1>6 DEF IInv

LEMMA ClientSubframeInv ==
  ASSUME IInv, NEW c \in Clients, ClientSubframe(c)
  PROVE  IInv'
<1>0. TypeOK /\ RachInv /\ CountInv /\ ClientInv
  BY DEF IInv
<1>1. PICK x : ue' = [ue EXCEPT ![c] = x] /\ Follows(x, ue[c])
  BY <1>0, ClientStep
<1>2. row' \in {row, SilentRow} /\ turn' \in 0 .. NumClients /\ ra_open' \in BOOLEAN
  BY <1>0, ClientStep
<1>3. ue' \in [Clients -> Client] /\ ClientInv'
  BY <1>0, <1>1 DEF TypeOK, ClientInv, Follows, Good
<1>4. \A s, r : Held(row'.responses, s, r) => Held(row.responses, s, r)
  <2>1. \A s, r : ~Held(SilentRow.responses, s, r)
    BY DEF SilentRow, Held
  <2> QED
    BY <1>2, <2>1
<1>5. \A s, r : Taken(s, r)' => Taken(s, r) \/ Held(row.responses, s, r)
  <2> SUFFICES ASSUME NEW s, NEW r, NEW d \in Clients, ue'[d].is_associated,
                      ue'[d].session = s, ue'[d].rachuserid = r
               PROVE  Taken(s, r) \/ Held(row.responses, s, r)
    BY DEF Taken
  <2>1. CASE d = c
    <3>1. ue'[d] = x
      BY <1>0, <1>1, <2>1 DEF TypeOK
    <3> QED
      BY <1>1, <2>1, <3>1 DEF Follows, Taken
  <2>2. CASE d # c
    <3>1. ue'[d] = ue[d]
      BY <1>0, <1>1, <2>2 DEF TypeOK
    <3> QED
      BY <3>1 DEF Taken
  <2> QED
    BY <2>1, <2>2
<1>6. /\ row'.dl \cup row'.users \subseteq Ids /\ row'.ended \subseteq row'.dl
      /\ row'.responses \in Seq(Responses)
  <2>1. /\ SilentRow.dl \cup SilentRow.users \subseteq Ids
        /\ SilentRow.ended \subseteq SilentRow.dl
        /\ SilentRow.responses \in Seq(Responses)
    BY DEF SilentRow
  <2> QED
    BY <1>0, <1>2, <2>1 DEF TypeOK
<1>7. CASE /\ UNCHANGED <<last_added, broadcast_ctrl_queue>>
           /\ UE' \in [Ids -> User \cup {NoUE}]
           /\ \A u \in Ids : UE'[u].session = UE[u].session
           /\ InUse' = InUse
           /\ owners' \in Seq(Clients \cup {0}) /\ Len(owners') = Len(owners)
  <2>1. TypeOK'
    BY <1>0, <1>2, <1>3, <1>6, <1>7 DEF TypeOK
  <2>2. \A s, r : Repeatable(s, r)' => Repeatable(s, r)
    BY <1>7 DEF Repeatable, InUse
  <2>3. \A s, r : Claimed(s, r)' => Claimed(s, r)
    BY <1>4, <1>5, <1>7, <2>2 DEF Claimed
  <2>4. RachInv'
    BY <1>0, <2>3 DEF RachInv
  <2>5. CountInv'
    BY <1>0, <1>7, <2>3 DEF CountInv, InUse
  <2> QED
    BY <1>3, <2>1, <2>4, <2>5 DEF IInv
<1>8. ASSUME NEW rach \in RachIds, NEW try \in Nat, AddNewUe(c, rach, try)
      PROVE  IInv'
  <2>1. TypeOK'
    BY <1>0, <1>2, <1>3, <1>6, <1>8, AddNewUeStep DEF TypeOK
  <2>2. CASE /\ UNCHANGED <<UE, last_added, owners>>
             /\ \A s \in 1 .. MaxSessions : \A r :
                  Held(broadcast_ctrl_queue', s, r) =>
                    Held(broadcast_ctrl_queue, s, r) \/ Repeatable(s, r)
    <3>1. InUse' = InUse /\ \A s, r : Repeatable(s, r)' => Repeatable(s, r)
      BY <2>2 DEF Repeatable, InUse
    <3>2. \A s \in 1 .. MaxSessions : \A r : Claimed(s, r)' => Claimed(s, r)
      BY <1>4, <1>5, <2>2, <3>1 DEF Claimed
    <3>3. RachInv'
      BY <1>0, <3>2 DEF RachInv
    <3>4. CountInv'
      BY <1>0, <2>2, <3>1, <3>2 DEF CountInv
    <3> QED
      BY <1>3, <2>1, <3>3, <3>4 DEF IInv
  <2>3. CASE /\ Len(owners') = Len(owners) + 1
             /\ \E id \in Ids \ InUse :
                  /\ last_added' = [id |-> id, rach |-> rach]
                  /\ UE'[id].session = Len(owners) + 1
                  /\ \A u \in Ids \ {id} : UE'[u] = UE[u]
             /\ \A s, r : Held(broadcast_ctrl_queue', s, r) =>
                  \/ Held(broadcast_ctrl_queue, s, r)
                  \/ s = Len(owners) + 1 /\ r = rach
    <3>0. Len(owners) \in Nat
      BY <1>0 DEF TypeOK
    <3>1. PICK id \in Ids \ InUse :
            /\ last_added' = [id |-> id, rach |-> rach]
            /\ UE'[id].session = Len(owners) + 1
            /\ \A u \in Ids \ {id} : UE'[u] = UE[u]
      BY <2>3
    <3>2. \A s, r : Repeatable(s, r)' => s = Len(owners) + 1 /\ r = rach
      BY <3>1 DEF Repeatable
    <3>3. \A s, r : Claimed(s, r)' => Claimed(s, r) \/ (s = Len(owners) + 1 /\ r = rach)
      BY <1>4, <1>5, <2>3, <3>2 DEF Claimed
    <3>4. \A s \in 1 .. MaxSessions : \A r \in RachIds \cup {NoId} :
            Claimed(s, r) => s # Len(owners) + 1 /\ s <= Len(owners) + 1
      BY <1>0, <3>0 DEF CountInv
    <3>5. RachInv'
      BY <1>0, <3>3, <3>4 DEF RachInv
    <3>6. \A u \in InUse' : UE'[u].session <= Len(owners) + 1
      <4> SUFFICES ASSUME NEW u \in InUse' PROVE UE'[u].session <= Len(owners) + 1
        OBVIOUS
      <4>1. CASE u = id
        BY <3>0, <3>1, <4>1
      <4>2. CASE u # id
        <5>1. u \in Ids /\ UE'[u] = UE[u] /\ u \in InUse
          BY <3>1, <4>2 DEF InUse
        <5>2. UE[u].session \in 1 .. MaxSessions /\ UE[u].session <= Len(owners)
          BY <1>0, <5>1, InUseUser DEF CountInv
        <5> QED
          BY <3>0, <5>1, <5>2
      <4> QED
        BY <4>1, <4>2
    <3>7. CountInv'
      BY <2>3, <3>0, <3>3, <3>4, <3>6 DEF CountInv
    <3> QED
      BY <1>3, <2>1, <3>5, <3>7 DEF IInv
  <2> QED
    BY <1>0, <1>8, <2>2, <2>3, AddNewUeStep
<1> QED
  BY <1>0, <1>7, <1>8, ClientStep

LEMMA InitInv == Init => IInv
<1> SUFFICES ASSUME Init PROVE IInv
  OBVIOUS
<1>1. /\ 0 \in 0 .. NumClients /\ 0 \in 0 .. MaxTries /\ 0 \in 0 .. MaxSessions
      /\ 0 \in 0 .. TMR_USER_INACTIVE + 1
      /\ 0 <= MAC_CTRL_MSG_BUF_SIZE /\ 0 <= MaxSessions
  BY SessionAssumption
<1>2. ue \in [Clients -> Client]
  BY <1>1 DEF Init, Client
<1>3. TypeOK
  <2>1. UE \in [Ids -> User \cup {NoUE}]
    BY DEF Init
  <2>2. /\ row.dl \cup row.users \subseteq Ids /\ row.ended \subseteq row.dl
        /\ row.responses \in Seq(Responses)
    BY DEF Init, SilentRow
  <2>3. /\ broadcast_ctrl_queue \in Seq(Responses)
        /\ Len(broadcast_ctrl_queue) = 0
        /\ owners \in Seq(Clients \cup {0}) /\ Len(owners) = 0
    BY DEF Init
  <2> QED
    BY <1>1, <1>2, <2>1, <2>2, <2>3 DEF Init, TypeOK
<1>4. InUse = {}
  BY DEF Init, InUse
<1>5. \A s, r : ~Held(<<>>, s, r)
  BY DEF Held
<1>6. \A s, r : ~Claimed(s, r)
  BY <1>4, <1>5 DEF Claimed, Taken, Repeatable, Init, SilentRow
<1>7. RachInv /\ CountInv
  BY <1>4, <1>6 DEF RachInv, CountInv
<1>8. ClientInv
  BY DEF Init, ClientInv
<1> QED
  BY <1>3, <1>7, <1>8 DEF IInv

LEMMA NextInv == IInv /\ [Next]_vars => IInv'
<1> SUFFICES ASSUME IInv, [Next]_vars PROVE IInv'
  OBVIOUS
<1>1. CASE UNCHANGED vars
  BY <1>1 DEF vars, bs, IInv, TypeOK, RachInv, CountInv, ClientInv, Claimed, Taken,
     Repeatable, InUse
<1>2. CASE Next
  BY <1>2, BsRunInv, ClientSubframeInv DEF Next
<1> QED
  BY <1>1, <1>2

LEMMA TwinsShare == IInv => SharedOnlyByTwins
<1> SUFFICES ASSUME IInv, NEW c \in Clients, NEW d \in Clients, Shares(c, d)
             PROVE  ue[c].rachuserid = ue[d].rachuserid
  BY DEF SharedOnlyByTwins
<1> DEFINE s == ue[c].session
<1>1. ue[c] \in Client /\ ue[d] \in Client
  BY DEF IInv, TypeOK
<1>2. s \in 1 .. MaxSessions
  BY <1>1, SessionAssumption DEF IInv, ClientInv, Shares, Client
<1>3. Taken(s, ue[c].rachuserid) /\ Taken(s, ue[d].rachuserid)
  BY DEF Taken, Shares
<1>4. ue[c].rachuserid \in RachIds \cup {NoId} /\ ue[d].rachuserid \in RachIds \cup {NoId}
  BY <1>1 DEF Client
<1> QED
  BY <1>2, <1>3, <1>4 DEF IInv, RachInv, Claimed

(* Every reachable state is well typed; in particular no queue of control  *)
(* messages overflows (ringbuf_put in mac_bs.c and phy_bs.c).              *)
THEOREM TypeCorrect == Spec => []TypeOK
<1>1. IInv => TypeOK
  BY DEF IInv
<1> QED
  BY InitInv, NextInv, <1>1, PTL DEF Spec

(* mac_ue.c 74-88, mac_bs.c 108-151: two clients that take themselves for  *)
(* one user have drawn the same random id, whatever is lost, repeated or   *)
(* given again.                                                            *)
THEOREM AlwaysSharedByTwins == Spec => []SharedOnlyByTwins
BY InitInv, NextInv, TwinsShare, PTL DEF Spec

---------------------------------------------------------------------------
(* Users are told before they are removed.                                 *)

(* The end of the session is in the user's queue, or did not fit.          *)
Told(user) ==
  user.will_end =>
    /\ user.queue > 0
    /\ user.ending \/ user.queue = MAC_CTRL_MSG_BUF_SIZE

ToldInv == \A u \in InUse : Told(UE[u])

LEMMA PutTold ==
  ASSUME NEW user \in User, Told(user)
  PROVE  Told(Put(user))
<1>1. user.queue \in 0 .. MAC_CTRL_MSG_BUF_SIZE
  BY DEF User
<1>2. CASE user.queue < MAC_CTRL_MSG_BUF_SIZE
  <2>1. /\ Put(user).queue = user.queue + 1
        /\ Put(user).will_end = user.will_end /\ Put(user).ending = user.ending
    BY <1>2 DEF Put, User
  <2> QED
    BY <1>1, <1>2, <2>1, SessionAssumption DEF Told
<1>3. CASE ~(user.queue < MAC_CTRL_MSG_BUF_SIZE)
  BY <1>3 DEF Put
<1> QED
  BY <1>2, <1>3

LEMMA DetectTold ==
  ASSUME NEW user \in User, Told(user)
  PROVE  /\ DetectInactive(user) \in User
         /\ Told(DetectInactive(user))
         /\ DetectInactive(user).will_end =>
              \/ DetectInactive(user).ending
              \/ user.queue = MAC_CTRL_MSG_BUF_SIZE /\ ~user.ending
<1>1. user.queue \in 0 .. MAC_CTRL_MSG_BUF_SIZE
  BY DEF User
<1>2. CASE user.age > TMR_USER_INACTIVE /\ user.queue < MAC_CTRL_MSG_BUF_SIZE
  <2>1. user.queue + 1 \in 0 .. MAC_CTRL_MSG_BUF_SIZE /\ user.queue + 1 > 0
        /\ user.queue + 1 # user.queue
    BY <1>1, <1>2, SessionAssumption
  <2>2. Put(user) = [user EXCEPT !.queue = user.queue + 1]
    BY <1>2 DEF Put
  <2>3. Put(user) # user
    BY <2>1, <2>2 DEF User
  <2>4. DetectInactive(user) =
          [[user EXCEPT !.queue = user.queue + 1] EXCEPT !.will_end = TRUE, !.ending = TRUE]
    BY <1>2, <2>2, <2>3 DEF DetectInactive
  <2>5. /\ DetectInactive(user) \in User
        /\ DetectInactive(user).queue = user.queue + 1
        /\ DetectInactive(user).ending
    BY <2>1, <2>4 DEF User
  <2> QED
    BY <2>1, <2>5 DEF Told
<1>3. CASE user.age > TMR_USER_INACTIVE /\ ~(user.queue < MAC_CTRL_MSG_BUF_SIZE)
  <2>1. user.queue = MAC_CTRL_MSG_BUF_SIZE /\ user.queue > 0
    BY <1>1, <1>3, SessionAssumption
  <2>2. DetectInactive(user) = [user EXCEPT !.will_end = TRUE]
    BY <1>3 DEF DetectInactive, Put
  <2>3. /\ DetectInactive(user) \in User
        /\ DetectInactive(user).queue = user.queue
        /\ DetectInactive(user).ending = user.ending
    BY <2>2 DEF User
  <2> QED
    BY <2>1, <2>3 DEF Told
<1>4. CASE ~(user.age > TMR_USER_INACTIVE)
  BY <1>4 DEF DetectInactive, Told
<1> QED
  BY <1>2, <1>3, <1>4

(* A user is removed when a downlink slot has emptied its queue.           *)
LEMMA AfterRunTold ==
  ASSUME NEW user \in User, Told(user), NEW served \in BOOLEAN, NEW other \in BOOLEAN
  PROVE  /\ AfterRun(user, served, other) # NoUE => Told(AfterRun(user, served, other))
         /\ AfterRun(user, served, other) = NoUE =>
              /\ served
              /\ \/ DetectInactive(user).ending
                 \/ user.queue = MAC_CTRL_MSG_BUF_SIZE /\ ~user.ending
<1> DEFINE d == DetectInactive(user)
           left == IF served THEN MapSlot(d) ELSE d
           older == [left EXCEPT !.age = Older(@)]
<1>1. /\ d \in User /\ Told(d)
      /\ d.will_end => d.ending \/ (user.queue = MAC_CTRL_MSG_BUF_SIZE /\ ~user.ending)
  BY DetectTold
<1>2. AfterRun(user, served, other) =
        IF Removes(left) THEN NoUE ELSE IF other THEN Put(older) ELSE older
  BY DEF AfterRun
<1> HIDE DEF d
<1>3. left \in User /\ left.will_end = d.will_end
  <2>1. 0 \in 0 .. MAC_CTRL_MSG_BUF_SIZE
    BY SessionAssumption
  <2>2. MapSlot(d) \in User /\ MapSlot(d).will_end = d.will_end
    BY <1>1, <2>1 DEF MapSlot, User
  <2> QED
    BY <1>1, <2>2
<1>4. Removes(left) => served /\ d.will_end
  <2>1. ~served => left = d
    OBVIOUS
  <2>2. d.will_end => d.queue # 0
    BY <1>1 DEF Told, User
  <2> QED
    BY <1>3, <2>1, <2>2 DEF Removes
<1>5. ~Removes(left) => Told(left)
  <2>1. CASE served
    <3>1. left.queue = 0
      BY <1>1, <2>1 DEF MapSlot, User
    <3> QED
      BY <3>1 DEF Removes, Told
  <2>2. CASE ~served
    BY <1>1, <2>2
  <2> QED
    BY <2>1, <2>2
<1> HIDE DEF left
<1>6. Older(left.age) \in 0 .. TMR_USER_INACTIVE + 1
  BY <1>3, OlderType DEF User
<1>7. older \in User /\ (Told(left) => Told(older))
  BY <1>3, <1>6 DEF User, Told
<1> HIDE DEF older
<1>8. older # NoUE /\ Put(older) # NoUE /\ (Told(left) => Told(Put(older)))
  BY <1>7, IdFacts, PutType, PutTold
<1> QED
  BY <1>1, <1>2, <1>4, <1>5, <1>7, <1>8 DEF d

LEMMA BsRunTold ==
  ASSUME TypeOK, ToldInv, BsRun
  PROVE  /\ ToldInv'
         /\ \A u \in Ids : UE[u] # NoUE /\ UE'[u] = NoUE =>
              \/ u \in row'.ended
              \/ UE[u].queue = MAC_CTRL_MSG_BUF_SIZE /\ ~UE[u].ending
<1>1. PICK dl \in SUBSET {u \in InUse : DetectInactive(UE[u]).queue > 0},
           brcst, ra \in BOOLEAN, other \in InUse \cup {NoId} :
        /\ broadcast_ctrl_queue # <<>> => brcst
        /\ row' = [dl |-> dl, brcst |-> brcst, responses |-> broadcast_ctrl_queue,
                   ended |-> {u \in dl : DetectInactive(UE[u]).ending},
                   users |-> InUse, ra |-> ra]
        /\ ra_open' = ra
        /\ UE' = [u \in Ids |-> IF UE[u] = NoUE THEN NoUE
                                 ELSE AfterRun(UE[u], u \in dl, u = other)]
  BY DEF BsRun
<1>2. row'.ended = {u \in dl : DetectInactive(UE[u]).ending}
  BY <1>1
<1>3. ASSUME NEW u \in Ids, UE[u] # NoUE
      PROVE  /\ UE'[u] # NoUE => Told(UE'[u])
             /\ UE'[u] = NoUE =>
                  \/ u \in row'.ended
                  \/ UE[u].queue = MAC_CTRL_MSG_BUF_SIZE /\ ~UE[u].ending
  <2>1. UE'[u] = AfterRun(UE[u], u \in dl, u = other)
    BY <1>1, <1>3
  <2>2. UE[u] \in User /\ Told(UE[u])
    BY <1>3 DEF TypeOK, ToldInv, InUse
  <2>3. (u \in dl) \in BOOLEAN /\ (u = other) \in BOOLEAN
    OBVIOUS
  <2>4. /\ UE'[u] # NoUE => Told(UE'[u])
        /\ UE'[u] = NoUE =>
             /\ u \in dl
             /\ \/ DetectInactive(UE[u]).ending
                \/ UE[u].queue = MAC_CTRL_MSG_BUF_SIZE /\ ~UE[u].ending
    BY <2>1, <2>2, <2>3, AfterRunTold
  <2> QED
    BY <1>2, <2>4
<1>4. \A u \in Ids : UE[u] = NoUE => UE'[u] = NoUE
  BY <1>1
<1>5. ToldInv'
  BY <1>3, <1>4 DEF ToldInv, InUse
<1> QED
  BY <1>3, <1>5

---------------------------------------------------------------------------
(* A client takes one user per attempt.                                    *)

(* The timer of a client that is not associated stands at 0.               *)
IdleInv == \A c \in Clients : ~ue[c].is_associated => ue[c].idle = 0

(* The request that began the last session may be repeated, and the base   *)
(* station would know it again.                                            *)
Asking(c) ==
  /\ ~ue[c].is_associated /\ ue[c].rach_try_cnt # 0
  /\ last_added.rach = ue[c].rachuserid

LastInv ==
  LET last == Len(owners)
  IN  last # 0 =>
        /\ owners[last] # 0 => Asking(owners[last])
        /\ \A u \in InUse : UE[u].session = last => u = last_added.id

(* The session after that of a user has another owner.                     *)
TurnInv ==
  \A u \in InUse :
    LET s == UE[u].session
    IN  s < Len(owners) /\ owners[s] # 0 => owners[s + 1] # owners[s]

(* A client that has not been answered goes on with the request it has.    *)
LEMMA AfterSubframeWaits ==
  ASSUME TypeOK, NEW me, Good(me), ~me.is_associated => me.idle = 0,
         NEW dlctrl \in BOOLEAN, NEW assigned \in BOOLEAN, NEW decoded
  PROVE  LET after == AfterSubframe(me, dlctrl, decoded, assigned)
         IN  ~after.is_associated =>
               /\ after.idle = 0
               /\ ~me.is_associated => /\ after.rach_try_cnt = me.rach_try_cnt
                                       /\ after.rachuserid = me.rachuserid
<1> DEFINE noted == IF dlctrl /\ SlotsFor(me) # {} THEN SlotNoted(me) ELSE me
           ended == IF "own" \in decoded /\ me.userid \in row.ended
                    THEN EndSession(noted) ELSE noted
           answered == IF "brcst" \in decoded THEN TakeResponses(ended) ELSE ended
           after == AfterTimer(answered, assigned)
           Waits(x) == /\ ~x.is_associated => x.idle = 0
                       /\ ~me.is_associated => /\ x.idle = 0
                                               /\ x.rachuserid = me.rachuserid
                       /\ ~me.is_associated /\ ~x.is_associated =>
                            x.rach_try_cnt = me.rach_try_cnt
<1>0. me \in Client
  BY DEF Good
<1>1. after = AfterSubframe(me, dlctrl, decoded, assigned)
  BY DEF AfterSubframe
<1>2. noted \in Client /\ Waits(noted)
  <2>1. CASE me.is_associated
    <3>1. SlotNoted(me) = [me EXCEPT !.idle = 0]
      BY <2>1 DEF SlotNoted
    <3>2. 0 \in 0 .. TMR_USER_INACTIVE + 1
      BY SessionAssumption
    <3> QED
      BY <1>0, <2>1, <3>1, <3>2 DEF Client
  <2>2. CASE ~me.is_associated
    <3>1. SlotNoted(me) = me
      BY <2>2 DEF SlotNoted
    <3>2. noted = me
      BY <3>1
    <3> QED
      BY <1>0, <2>2, <3>2
  <2> QED
    BY <2>1, <2>2
<1> HIDE DEF noted
<1>3. ended \in Client /\ Waits(ended)
  <2>1. 0 \in 0 .. TMR_USER_INACTIVE + 1 /\ 0 \in 0 .. MaxSessions
    BY SessionAssumption
  <2>2. /\ Dissociated(noted) \in Client
        /\ Dissociated(noted).idle = 0
        /\ Dissociated(noted).rachuserid = noted.rachuserid
        /\ Dissociated(noted).rach_try_cnt = noted.rach_try_cnt
    BY <1>2, <2>1 DEF Dissociated, Client
  <2>3. /\ EndSession(noted) \in Client
        /\ EndSession(noted).idle = 0
        /\ EndSession(noted).rachuserid = noted.rachuserid
        /\ EndSession(noted).rach_try_cnt = noted.rach_try_cnt
    BY <2>2 DEF EndSession, Client
  <2>4. ~me.is_associated => ~noted.is_associated
    BY DEF noted, SlotNoted
  <2> QED
    BY <1>2, <2>3, <2>4
<1> HIDE DEF ended
<1>4. answered.idle = ended.idle /\ Waits(answered)
  <2>1. \/ TakeResponses(ended) = ended
        \/ \E id, session : TakeResponses(ended) =
             [ended EXCEPT !.is_associated = TRUE, !.rach_try_cnt = 0,
                           !.userid = id, !.session = session]
    BY DEF TakeResponses
  <2>2. CASE TakeResponses(ended) = ended
    BY <1>3, <2>2
  <2>3. CASE \E id, session : TakeResponses(ended) =
             [ended EXCEPT !.is_associated = TRUE, !.rach_try_cnt = 0,
                           !.userid = id, !.session = session]
    <3>1. /\ TakeResponses(ended).is_associated
          /\ TakeResponses(ended).idle = ended.idle
          /\ TakeResponses(ended).rachuserid = ended.rachuserid
      BY <1>3, <2>3 DEF Client
    <3> QED
      BY <1>3, <3>1
  <2> QED
    BY <2>1, <2>2, <2>3
<1>5. Good(answered)
  <2>1. Good(noted)
    BY SlotNotedFollows DEF noted, Follows
  <2>2. Good(ended)
    BY <2>1, DissociatedFollows DEF ended, Follows
  <2> QED
    BY <2>2, TakeResponsesFollows DEF Follows
<1> HIDE DEF answered
<1>6. ~after.is_associated =>
        /\ after.idle = 0
        /\ ~me.is_associated => after = answered /\ ~answered.is_associated
  <2>1. CASE ~answered.is_associated
    BY <1>4, <2>1 DEF AfterTimer
  <2>2. CASE answered.is_associated /\ answered.idle > TMR_USER_INACTIVE
    <3>1. after = Dissociated(answered)
      BY <2>2 DEF AfterTimer
    <3>2. after.idle = 0
      BY <1>5, <3>1 DEF Good, Client, Dissociated
    <3>3. me.is_associated
      BY <1>4, <2>2, SessionAssumption
    <3> QED
      BY <3>2, <3>3
  <2>3. CASE answered.is_associated /\ ~(answered.idle > TMR_USER_INACTIVE)
    BY <1>5, <2>3 DEF AfterTimer, Good, Client
  <2> QED
    BY <2>1, <2>2, <2>3
<1> HIDE DEF after
<1> QED
  BY <1>1, <1>4, <1>6

(* What a client's subframe does to the client and to the users.           *)
LEMMA ClientAfter ==
  ASSUME TypeOK, ClientInv, IdleInv, NEW c \in Clients, ClientSubframe(c)
  PROVE  \E after \in Client :
           /\ ~after.is_associated =>
                /\ after.idle = 0
                /\ ~ue[c].is_associated => /\ after.rach_try_cnt = ue[c].rach_try_cnt
                                           /\ after.rachuserid = ue[c].rachuserid
           /\ \/ /\ after.is_associated
                 /\ ue' = [ue EXCEPT ![c] = after]
                 /\ owners' = [s \in DOMAIN owners |->
                                 IF owners[s] = c THEN 0 ELSE owners[s]]
                 /\ UNCHANGED last_added
                 /\ \A u \in Ids :
                      \/ UE'[u] = UE[u]
                      \/ UE[u] # NoUE /\ UE'[u] = [UE[u] EXCEPT !.age = 0]
              \/ /\ ~after.is_associated
                 /\ ue' = [ue EXCEPT ![c] = after]
                 /\ UNCHANGED bs
              \/ /\ ~after.is_associated
                 /\ \E rach \in RachIds :
                      /\ after.rach_try_cnt # 0 => rach = after.rachuserid
                      /\ ue' = [ue EXCEPT ![c] = NextRequest(after, rach)]
                      /\ UNCHANGED bs \/ AddNewUe(c, rach, after.rach_try_cnt)
<1>1. PICK dlctrl \in BOOLEAN :
      \E assigned \in IF dlctrl /\ ue[c].userid \in row.users THEN BOOLEAN ELSE {FALSE},
         decoded \in SUBSET IF dlctrl THEN SlotsFor(ue[c]) ELSE {} :
        Transmit(c, AfterSubframe(ue[c], dlctrl, decoded, assigned), assigned)
  BY DEF ClientSubframe
<1>2. PICK assigned \in IF dlctrl /\ ue[c].userid \in row.users THEN BOOLEAN ELSE {FALSE},
           decoded \in SUBSET IF dlctrl THEN SlotsFor(ue[c]) ELSE {} :
        Transmit(c, AfterSubframe(ue[c], dlctrl, decoded, assigned), assigned)
  BY <1>1
<1> DEFINE me == ue[c]
           after == AfterSubframe(me, dlctrl, decoded, assigned)
<1>3. Good(me) /\ (~me.is_associated => me.idle = 0)
  BY DEF ClientInv, IdleInv, TypeOK, Good
<1>4. assigned \in BOOLEAN
  OBVIOUS
<1>5. Good(after)
  BY <1>3, <1>4, AfterSubframeFollows DEF Follows
<1>6. ~after.is_associated =>
        /\ after.idle = 0
        /\ ~me.is_associated => /\ after.rach_try_cnt = me.rach_try_cnt
                                /\ after.rachuserid = me.rachuserid
  BY <1>3, <1>4, AfterSubframeWaits
<1>7. Transmit(c, after, assigned)
  BY <1>2
<1>8. assigned => me.userid \in Ids
  BY DEF TypeOK
<1> HIDE DEF after
<1>9. after \in Client
  BY <1>5 DEF Good
<1>10. RxChannel(me.userid) /\ me.userid \in Ids =>
         \A u \in Ids : \/ UE'[u] = UE[u]
                        \/ UE[u] # NoUE /\ UE'[u] = [UE[u] EXCEPT !.age = 0]
  BY DEF RxChannel, TypeOK
<1>11. CASE /\ after.is_associated
            /\ ue' = [ue EXCEPT ![c] = after]
            /\ owners' = [s \in DOMAIN owners |-> IF owners[s] = c THEN 0 ELSE owners[s]]
            /\ UNCHANGED UE \/ (assigned /\ RxChannel(ue[c].userid))
            /\ UNCHANGED <<broadcast_ctrl_queue, last_added, ra_open>>
  <2>1. \A u \in Ids : \/ UE'[u] = UE[u]
                       \/ UE[u] # NoUE /\ UE'[u] = [UE[u] EXCEPT !.age = 0]
    BY <1>8, <1>10, <1>11
  <2> QED
    BY <1>9, <1>11, <2>1
<1>12. CASE /\ ~after.is_associated
            /\ ue' = [ue EXCEPT ![c] = after]
            /\ UNCHANGED bs
  BY <1>6, <1>9, <1>12
<1>13. CASE /\ ~after.is_associated
            /\ \E rach \in IF after.rach_try_cnt = 0 THEN RachIds ELSE {after.rachuserid} :
                 /\ ue' = [ue EXCEPT ![c] = NextRequest(after, rach)]
                 /\ \/ UNCHANGED bs
                    \/ RxRach(c, rach, after.rach_try_cnt)
  <2>1. PICK rach \in IF after.rach_try_cnt = 0 THEN RachIds ELSE {after.rachuserid} :
              /\ ue' = [ue EXCEPT ![c] = NextRequest(after, rach)]
              /\ \/ UNCHANGED bs
                 \/ RxRach(c, rach, after.rach_try_cnt)
    BY <1>13
  <2>2. rach \in RachIds /\ (after.rach_try_cnt # 0 => rach = after.rachuserid)
    BY <1>5 DEF Good
  <2>3. UNCHANGED bs \/ AddNewUe(c, rach, after.rach_try_cnt)
    BY <2>1 DEF RxRach
  <2> QED
    BY <1>6, <1>9, <1>13, <2>1, <2>2, <2>3
<1> QED
  BY <1>7, <1>11, <1>12, <1>13 DEF Transmit

(* Of the users a request adds at most one, in the place of none.          *)
LEMMA AddNewUeUsers ==
  ASSUME TypeOK, NEW c, NEW rach, NEW try, AddNewUe(c, rach, try)
  PROVE  \/ UNCHANGED <<UE, last_added, owners>>
         \/ /\ ~IsRepeated(rach, try)
            /\ \E id \in Ids \ InUse :
                 /\ UE'[id].session = Len(owners) + 1 /\ ~UE'[id].will_end
                 /\ \A u \in Ids \ {id} : UE'[u] = UE[u]
                 /\ last_added' = [id |-> id, rach |-> rach]
            /\ owners' = Append(owners, c)
<1>1. CASE UNCHANGED <<UE, last_added, owners>>
  BY <1>1
<1>2. ASSUME ~IsRepeated(rach, try), NEW id \in Ids \ InUse,
             UE' = [UE EXCEPT ![id] =
                      [session |-> Len(owners) + 1, age |-> 0, will_end |-> FALSE,
                       queue |-> 0, ending |-> FALSE]],
             last_added' = [id |-> id, rach |-> rach],
             owners' = Append(owners, c)
      PROVE  /\ UE'[id].session = Len(owners) + 1 /\ ~UE'[id].will_end
             /\ \A u \in Ids \ {id} : UE'[u] = UE[u]
  <2>1. UE'[id] = [session |-> Len(owners) + 1, age |-> 0, will_end |-> FALSE,
                   queue |-> 0, ending |-> FALSE]
    BY <1>2 DEF TypeOK
  <2>2. \A u \in Ids \ {id} : UE'[u] = UE[u]
    BY <1>2 DEF TypeOK
  <2> QED
    BY <2>1, <2>2
<1> QED
  BY <1>1, <1>2 DEF AddNewUe

LEMMA IdleStep ==
  ASSUME TypeOK, ClientInv, IdleInv, NEW c \in Clients, ClientSubframe(c)
  PROVE  IdleInv'
<1>1. \E x : ue' = [ue EXCEPT ![c] = x] /\ (~x.is_associated => x.idle = 0)
  <2>1. \A client \in Client : \A rach :
          /\ NextRequest(client, rach).idle = client.idle
          /\ NextRequest(client, rach).is_associated = client.is_associated
    BY DEF NextRequest, Client
  <2> QED
    BY <2>1, ClientAfter
<1> QED
  BY <1>1 DEF TypeOK, IdleInv

LEMMA ToldStep ==
  ASSUME TypeOK, ClientInv, IdleInv, ToldInv, NEW c \in Clients, ClientSubframe(c)
  PROVE  /\ ToldInv'
         /\ \A u \in Ids : UE[u] # NoUE => UE'[u] # NoUE
<1>1. \A u \in Ids :
        \/ UE'[u] = UE[u]
        \/ UE[u] # NoUE /\ UE'[u] = [UE[u] EXCEPT !.age = 0]
        \/ UE[u] = NoUE /\ ~UE'[u].will_end
  <2>1. CASE \E rach \in RachIds : \E try : AddNewUe(c, rach, try)
    BY <2>1, AddNewUeUsers DEF InUse
  <2>2. CASE UNCHANGED bs
    BY <2>2 DEF bs
  <2> QED
    BY <2>1, <2>2, ClientAfter
<1>2. \A u \in Ids : UE[u] # NoUE =>
        /\ [UE[u] EXCEPT !.age = 0] \in User
        /\ Told([UE[u] EXCEPT !.age = 0])
  <2> SUFFICES ASSUME NEW u \in Ids, UE[u] # NoUE
               PROVE  /\ [UE[u] EXCEPT !.age = 0] \in User
                      /\ Told([UE[u] EXCEPT !.age = 0])
    OBVIOUS
  <2>1. UE[u] \in User /\ Told(UE[u]) /\ 0 \in 0 .. TMR_USER_INACTIVE + 1
    BY SessionAssumption DEF TypeOK, ToldInv, InUse
  <2> QED
    BY <2>1 DEF User, Told
<1>3. \A u \in Ids : UE[u] # NoUE => UE'[u] # NoUE
  BY <1>1, <1>2, IdFacts
<1>4. \A u \in Ids : UE'[u] # NoUE => Told(UE'[u])
  BY <1>1, <1>2 DEF Told, ToldInv, InUse
<1> QED
  BY <1>3, <1>4 DEF ToldInv, InUse
(* Answers and removals: the owner of a session may be forgotten, and a    *)
(* user may go, but nothing else changes.                                  *)
Forgets ==
  /\ Len(owners') = Len(owners)
  /\ \A s \in 1 .. Len(owners) : owners'[s] \in {0, owners[s]}
  /\ InUse' \subseteq InUse
  /\ \A u \in InUse' : UE'[u].session = UE[u].session
  /\ UNCHANGED last_added

LEMMA ForgetsTurn ==
  ASSUME TypeOK, CountInv, TurnInv, LastInv, Forgets
  PROVE  /\ TurnInv'
         /\ (\A d \in Clients : Len(owners) # 0 /\ owners'[Len(owners)] = d => Asking(d)')
              => LastInv'
<1>0. Len(owners) \in Nat
  BY DEF TypeOK
<1>1. ASSUME NEW u \in InUse', UE'[u].session < Len(owners'), owners'[UE'[u].session] # 0
      PROVE  owners'[UE'[u].session + 1] # owners'[UE'[u].session]
  <2>1. u \in InUse /\ UE'[u].session = UE[u].session
    BY <1>1 DEF Forgets
  <2> DEFINE s == UE[u].session
  <2>2. s \in 1 .. MaxSessions
    BY <2>1, InUseUser
  <2>3. s < Len(owners) /\ s \in 1 .. Len(owners) /\ s + 1 \in 1 .. Len(owners)
    BY <1>0, <1>1, <2>1, <2>2, SessionAssumption DEF Forgets
  <2>4. owners'[s] = owners[s] /\ owners[s] # 0
    BY <1>1, <2>1, <2>3 DEF Forgets
  <2>5. owners'[s + 1] \in {0, owners[s + 1]}
    BY <2>3 DEF Forgets
  <2>6. owners[s + 1] # owners[s]
    BY <2>1, <2>3, <2>4 DEF TurnInv
  <2> QED
    BY <1>1, <2>1, <2>4, <2>5, <2>6
<1>2. TurnInv'
  BY <1>1 DEF TurnInv
<1>3. ASSUME \A d \in Clients :
               Len(owners) # 0 /\ owners'[Len(owners)] = d => Asking(d)'
      PROVE  LastInv'
  <2> DEFINE last == Len(owners)
  <2>1. last # 0 => owners[last] \in Clients \cup {0} /\ owners'[last] \in {0, owners[last]}
    BY <1>0 DEF TypeOK, Forgets
  <2>2. Len(owners') = last
    BY DEF Forgets
  <2>3. last # 0 => \A u \in InUse' : UE'[u].session = last => u = last_added'.id
    BY DEF LastInv, Forgets
  <2>4. \A d : Asking(d)' <=> /\ ~ue'[d].is_associated /\ ue'[d].rach_try_cnt # 0
                             /\ last_added'.rach = ue'[d].rachuserid
    BY DEF Asking
  <2>5. LastInv' <=>
          (Len(owners') # 0 =>
             /\ owners'[Len(owners')] # 0 =>
                  LET d == owners'[Len(owners')]
                  IN  /\ ~ue'[d].is_associated /\ ue'[d].rach_try_cnt # 0
                      /\ last_added'.rach = ue'[d].rachuserid
             /\ \A u \in InUse' : UE'[u].session = Len(owners') => u = last_added'.id)
    BY DEF LastInv, Asking
  <2> QED
    BY <1>3, <2>1, <2>2, <2>3, <2>4, <2>5 DEF last
<1> QED
  BY <1>2, <1>3

LEMMA LastTurnBsRun ==
  ASSUME TypeOK, CountInv, LastInv, TurnInv, BsRun
  PROVE  LastInv' /\ TurnInv'
<1>1. /\ \A u \in Ids : UE'[u] # NoUE => UE[u] # NoUE /\ UE'[u].session = UE[u].session
      /\ UNCHANGED <<last_added, ue, owners>>
  BY BsRunStep
<1>2. Forgets
  BY <1>1 DEF Forgets, InUse
<1>3. ASSUME NEW d \in Clients, Len(owners) # 0 /\ owners'[Len(owners)] = d
      PROVE  Asking(d)'
  <2>1. d # 0
    BY DEF Clients
  <2> QED
    BY <1>1, <1>3, <2>1 DEF LastInv, Asking
<1> QED
  BY <1>2, <1>3, ForgetsTurn

(* A request that is not known again is another client's, or the first of  *)
(* a new attempt.                                                          *)
LEMMA LastTurnAdds ==
  ASSUME TypeOK, CountInv, LastInv, TurnInv, NEW c \in Clients, NEW x, NEW rach, NEW try,
         Asking(c) => try # 0 /\ rach = ue[c].rachuserid, try \in Nat,
         ue' = [ue EXCEPT ![c] = x],
         ~x.is_associated, x.rach_try_cnt # 0, x.rachuserid = rach,
         ~IsRepeated(rach, try), owners' = Append(owners, c),
         NEW id \in Ids \ InUse,
         UE'[id].session = Len(owners) + 1,
         \A u \in Ids \ {id} : UE'[u] = UE[u],
         last_added' = [id |-> id, rach |-> rach]
  PROVE  LastInv' /\ TurnInv'
<1> DEFINE n == Len(owners)
<1>0. /\ n \in Nat /\ Len(owners') = n + 1 /\ owners'[n + 1] = c
      /\ \A s \in 1 .. n : owners'[s] = owners[s]
  BY DEF TypeOK
<1>1. \A u \in InUse' : u = id \/ (u \in InUse /\ UE'[u] = UE[u])
  BY DEF InUse
<1>2. \A u \in InUse : UE[u].session \in 1 .. n
  <2> SUFFICES ASSUME NEW u \in InUse PROVE UE[u].session \in 1 .. n
    OBVIOUS
  <2>1. UE[u].session \in 1 .. MaxSessions /\ UE[u].session <= n
    BY InUseUser DEF CountInv
  <2> QED
    BY <1>0, <2>1, SessionAssumption
<1>3. Asking(c)'
  BY DEF Asking, TypeOK
<1>4. LastInv'
  <2>1. \A u \in InUse' : UE'[u].session = n + 1 => u = id
    BY <1>0, <1>1, <1>2
  <2> QED
    BY <1>0, <1>3, <2>1 DEF LastInv
<1>5. ASSUME NEW u \in InUse', UE'[u].session < n + 1, owners'[UE'[u].session] # 0
      PROVE  owners'[UE'[u].session + 1] # owners'[UE'[u].session]
  <2>1. u \in InUse /\ UE'[u] = UE[u]
    BY <1>0, <1>1, <1>5
  <2> DEFINE s == UE[u].session
  <2>2. s \in 1 .. n /\ owners'[s] = owners[s] /\ owners[s] # 0
    BY <1>0, <1>2, <1>5, <2>1
  <2>3. CASE s < n
    <3>1. s + 1 \in 1 .. n
      BY <1>0, <2>2, <2>3
    <3> QED
      BY <1>0, <2>1, <2>2, <2>3, <3>1 DEF TurnInv
  <2>4. CASE s = n
    <3>1. ASSUME owners[n] = c PROVE FALSE
      <4>1. Asking(c) /\ u = last_added.id
        BY <1>0, <2>1, <2>2, <2>4, <3>1 DEF LastInv
      <4>2. UE[last_added.id] # NoUE /\ last_added.rach = rach /\ try > 0
        BY <2>1, <4>1 DEF Asking, InUse
      <4> QED
        BY <4>2 DEF IsRepeated
    <3> QED
      BY <1>0, <2>1, <2>2, <2>4, <3>1
  <2>5. s < n \/ s = n
    <3> HIDE DEF s, n
    <3> QED
      BY <1>0, <2>2
  <2> QED
    BY <2>3, <2>4, <2>5
<1>6. TurnInv'
  BY <1>0, <1>5 DEF TurnInv
<1> QED
  BY <1>4, <1>6

LEMMA LastTurnClient ==
  ASSUME IInv, IdleInv, LastInv, TurnInv, NEW c \in Clients, ClientSubframe(c)
  PROVE  LastInv' /\ TurnInv'
<1>0. TypeOK /\ ClientInv /\ CountInv /\ Len(owners) \in Nat
      /\ DOMAIN owners = 1 .. Len(owners) /\ owners \in Seq(Clients \cup {0})
      /\ ue \in [Clients -> Client]
  BY DEF IInv, TypeOK
<1>1. PICK after \in Client :
           /\ ~after.is_associated =>
                /\ after.idle = 0
                /\ ~ue[c].is_associated => /\ after.rach_try_cnt = ue[c].rach_try_cnt
                                           /\ after.rachuserid = ue[c].rachuserid
           /\ \/ /\ after.is_associated
                 /\ ue' = [ue EXCEPT ![c] = after]
                 /\ owners' = [s \in DOMAIN owners |->
                                 IF owners[s] = c THEN 0 ELSE owners[s]]
                 /\ UNCHANGED last_added
                 /\ \A u \in Ids :
                      \/ UE'[u] = UE[u]
                      \/ UE[u] # NoUE /\ UE'[u] = [UE[u] EXCEPT !.age = 0]
              \/ /\ ~after.is_associated
                 /\ ue' = [ue EXCEPT ![c] = after]
                 /\ UNCHANGED bs
              \/ /\ ~after.is_associated
                 /\ \E rach \in RachIds :
                      /\ after.rach_try_cnt # 0 => rach = after.rachuserid
                      /\ ue' = [ue EXCEPT ![c] = NextRequest(after, rach)]
                      /\ UNCHANGED bs \/ AddNewUe(c, rach, after.rach_try_cnt)
  BY <1>0, ClientAfter
<1> DEFINE last == Len(owners)
<1>2. \A d \in Clients : d # c => ue'[d] = ue[d]
  BY <1>0, <1>1
<1>3. last # 0 => owners[last] \in Clients \cup {0}
  BY <1>0
(* The client asks on with the request it has.                             *)
<1>4. ASSUME NEW x, ue' = [ue EXCEPT ![c] = x], UNCHANGED <<UE, last_added, owners>>,
             Asking(c) => /\ ~x.is_associated /\ x.rach_try_cnt # 0
                          /\ x.rachuserid = ue[c].rachuserid
      PROVE  LastInv' /\ TurnInv'
  <2>1. Forgets
    BY <1>4 DEF Forgets, InUse
  <2>2. ASSUME NEW d \in Clients, last # 0, owners'[last] = d
        PROVE  Asking(d)'
    <3>1. Asking(d)
      BY <1>3, <1>4, <2>2 DEF LastInv, Clients
    <3>2. CASE d = c
      BY <1>0, <1>4, <3>1, <3>2 DEF Asking
    <3>3. CASE d # c
      BY <1>2, <1>4, <3>1, <3>3 DEF Asking
    <3> QED
      BY <3>2, <3>3
  <2> QED
    BY <1>0, <2>1, <2>2, ForgetsTurn
<1>5. CASE /\ after.is_associated
           /\ ue' = [ue EXCEPT ![c] = after]
           /\ owners' = [s \in DOMAIN owners |-> IF owners[s] = c THEN 0 ELSE owners[s]]
           /\ UNCHANGED last_added
           /\ \A u \in Ids : \/ UE'[u] = UE[u]
                             \/ UE[u] # NoUE /\ UE'[u] = [UE[u] EXCEPT !.age = 0]
  <2>1. /\ Len(owners') = last
        /\ \A s \in 1 .. last : owners'[s] \in {0, owners[s]} /\ owners'[s] # c
    <3>1. DOMAIN owners' = 1 .. last
      BY <1>0, <1>5
    <3>2. owners' \in [1 .. last -> Clients \cup {0}]
      BY <1>0, <1>5
    <3>3. c # 0
      BY DEF Clients
    <3> QED
      BY <1>0, <1>5, <3>1, <3>2, <3>3
  <2>2. \A u \in Ids : UE[u] \in User \cup {NoUE}
    BY <1>0 DEF TypeOK
  <2>3. \A u \in Ids : UE'[u] # NoUE => UE[u] # NoUE /\ UE'[u].session = UE[u].session
    BY <1>5, <2>2 DEF User
  <2>4. Forgets
    BY <1>5, <2>1, <2>3 DEF Forgets, InUse
  <2>5. ASSUME NEW d \in Clients, last # 0, owners'[last] = d
        PROVE  Asking(d)'
    <3>1. d = owners[last] /\ d # c /\ d # 0
      BY <1>0, <2>1, <2>5 DEF Clients
    <3>2. Asking(d)
      BY <2>5, <3>1 DEF LastInv
    <3>3. ue'[d] = ue[d]
      BY <1>2, <3>1
    <3> QED
      BY <1>5, <3>1, <3>2, <3>3 DEF Asking
  <2> QED
    BY <1>0, <2>4, <2>5, ForgetsTurn
<1>6. CASE ~after.is_associated /\ ue' = [ue EXCEPT ![c] = after] /\ UNCHANGED bs
  <2>1. Asking(c) => after.rach_try_cnt # 0 /\ after.rachuserid = ue[c].rachuserid
    BY <1>1, <1>6 DEF Asking
  <2> QED
    BY <1>4, <1>6, <2>1 DEF bs
<1>7. ASSUME ~after.is_associated, NEW rach \in RachIds,
             after.rach_try_cnt # 0 => rach = after.rachuserid,
             ue' = [ue EXCEPT ![c] = NextRequest(after, rach)],
             UNCHANGED bs \/ AddNewUe(c, rach, after.rach_try_cnt)
      PROVE  LastInv' /\ TurnInv'
  <2> DEFINE x == NextRequest(after, rach)
             try == after.rach_try_cnt
  <2>1. Asking(c) => try # 0 /\ rach = ue[c].rachuserid
    BY <1>1, <1>7 DEF Asking
  <2>2. ~x.is_associated /\ x.rach_try_cnt # 0 /\ x.rachuserid = rach /\ try \in Nat
    BY <1>7, SessionAssumption DEF NextRequest, Client
  <2> HIDE DEF x
  <2>3. CASE UNCHANGED <<UE, last_added, owners>>
    BY <1>4, <1>7, <2>1, <2>2, <2>3 DEF x
  <2>4. CASE /\ ~IsRepeated(rach, try)
             /\ \E id \in Ids \ InUse :
                  /\ UE'[id].session = Len(owners) + 1 /\ ~UE'[id].will_end
                  /\ \A u \in Ids \ {id} : UE'[u] = UE[u]
                  /\ last_added' = [id |-> id, rach |-> rach]
             /\ owners' = Append(owners, c)
    <3>1. ue' = [ue EXCEPT ![c] = x]
      BY <1>7 DEF x
    <3> HIDE DEF try
    <3> QED
      BY <1>0, <2>1, <2>2, <2>4, <3>1, LastTurnAdds
  <2>5. UNCHANGED bs => UNCHANGED <<UE, last_added, owners>>
    BY DEF bs
  <2> QED
    BY <1>0, <1>7, <2>3, <2>4, <2>5, AddNewUeUsers
<1>8. CASE /\ ~after.is_associated
           /\ \E rach \in RachIds :
                /\ after.rach_try_cnt # 0 => rach = after.rachuserid
                /\ ue' = [ue EXCEPT ![c] = NextRequest(after, rach)]
                /\ UNCHANGED bs \/ AddNewUe(c, rach, after.rach_try_cnt)
  <2>1. PICK rach \in RachIds :
                /\ after.rach_try_cnt # 0 => rach = after.rachuserid
                /\ ue' = [ue EXCEPT ![c] = NextRequest(after, rach)]
                /\ UNCHANGED bs \/ AddNewUe(c, rach, after.rach_try_cnt)
    BY <1>8
  <2> QED
    BY <1>7, <1>8, <2>1
<1> QED
  BY <1>1, <1>5, <1>6, <1>8

---------------------------------------------------------------------------
(* Every step, with what has been said of users and attempts.              *)

UserInv == IInv /\ ToldInv /\ IdleInv /\ LastInv /\ TurnInv

LEMMA UserInit == Init => UserInv
<1> SUFFICES ASSUME Init PROVE UserInv
  OBVIOUS
<1>1. InUse = {} /\ Len(owners) = 0
  BY DEF Init, InUse
<1>2. IdleInv
  BY DEF Init, IdleInv
<1> QED
  BY <1>1, <1>2, InitInv DEF UserInv, ToldInv, LastInv, TurnInv

LEMMA UserNext ==
  ASSUME UserInv, [Next]_vars
  PROVE  /\ UserInv'
         /\ [\A u \in Ids : UE[u] # NoUE /\ UE'[u] = NoUE =>
               \/ u \in row'.ended
               \/ UE[u].queue = MAC_CTRL_MSG_BUF_SIZE /\ ~UE[u].ending]_vars
<1>0. /\ IInv /\ ToldInv /\ IdleInv /\ LastInv /\ TurnInv
      /\ TypeOK /\ ClientInv /\ CountInv
  BY DEF UserInv, IInv
<1>1. IInv'
  BY <1>0, NextInv
<1>2. CASE BsRun
  <2>1. IdleInv'
    BY <1>0, <1>2, BsRunStep DEF IdleInv
  <2> QED
    BY <1>0, <1>1, <1>2, <2>1, BsRunTold, LastTurnBsRun DEF UserInv
<1>3. ASSUME NEW c \in Clients, ClientSubframe(c)
      PROVE  /\ UserInv'
             /\ \A u \in Ids : UE[u] # NoUE => UE'[u] # NoUE
  BY <1>0, <1>1, <1>3, ToldStep, IdleStep, LastTurnClient DEF UserInv
<1>4. CASE UNCHANGED vars
  <2>1. ToldInv' /\ IdleInv' /\ LastInv' /\ TurnInv'
    BY <1>0, <1>4 DEF vars, bs, ToldInv, Told, IdleInv, LastInv, TurnInv, Asking, InUse
  <2> QED
    BY <1>1, <1>4, <2>1 DEF UserInv
<1> QED
  BY <1>2, <1>3, <1>4 DEF Next

LEMMA OneUser == UserInv => OneUserPerAttempt
<1> SUFFICES ASSUME UserInv, NEW c \in Clients, NEW u \in InUse, NEW v \in InUse,
                    UE[u].session < UE[v].session,
                    owners[UE[u].session] = c, owners[UE[v].session] = c
             PROVE  \E between \in UE[u].session + 1 .. UE[v].session - 1 :
                      owners[between] # c
  BY DEF OneUserPerAttempt
<1> DEFINE s == UE[u].session
           t == UE[v].session
<1>1. TypeOK /\ CountInv /\ TurnInv
  BY DEF UserInv, IInv
<1>2. s \in 1 .. MaxSessions /\ t \in 1 .. MaxSessions /\ t <= Len(owners)
      /\ Len(owners) \in Nat
  BY <1>1, InUseUser DEF CountInv, TypeOK
<1>3. s < Len(owners) /\ c # 0
  <2> HIDE DEF s, t
  <2>1. s < t
    BY DEF s, t
  <2> QED
    BY <1>2, <2>1, SessionAssumption DEF Clients
<1>4. owners[s + 1] # c
  BY <1>1, <1>3 DEF TurnInv
<1>5. s + 1 # t
  BY <1>4
<1>6. s + 1 \in s + 1 .. t - 1
  <2> HIDE DEF s, t
  <2>1. s < t
    BY DEF s, t
  <2> QED
    BY <1>2, <1>5, <2>1, SessionAssumption
<1> QED
  BY <1>4, <1>6

(* mac_bs.c 384-413 (detection of silent users, their removal): a user is  *)
(* removed only in a run whose row carries the end of its session, unless  *)
(* the queue was full when the message was due.                            *)
THEOREM UsersToldBeforeRemoved == Spec => RemovedIsTold
<1>1. UserInv /\ [Next]_vars => UserInv'
  BY UserNext
<1>2. UserInv /\ [Next]_vars =>
        [\A u \in Ids : UE[u] # NoUE /\ UE'[u] = NoUE =>
           \/ u \in row'.ended
           \/ UE[u].queue = MAC_CTRL_MSG_BUF_SIZE /\ ~UE[u].ending]_vars
  BY UserNext
<1> QED
  BY UserInit, <1>1, <1>2, PTL DEF Spec, RemovedIsTold

(* mac_bs.c 108-151, phy_ue.c 449-478: a client that repeats a request     *)
(* because the answer was lost is answered again, and takes no second id   *)
(* before the base station has added a user for another.                   *)
THEOREM AlwaysOneUserPerAttempt == Spec => []OneUserPerAttempt
<1>1. UserInv /\ [Next]_vars => UserInv'
  BY UserNext
<1> QED
  BY UserInit, <1>1, OneUser, PTL DEF Spec
=============================================================================
