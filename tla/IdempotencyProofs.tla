-------------------------- MODULE IdempotencyProofs --------------------------
(***************************************************************************)
(* Proofs about requests with an idempotency key, for any keys, operations *)
(* and bounds and any finite number of workers.                            *)
(***************************************************************************)
EXTENDS Idempotency, FiniteSetTheorems, TLAPS

-----------------------------------------------------------------------------
(***************************************************************************)
(* Types                                                                   *)
(***************************************************************************)

\* A worker that does anything does it for a key, and an answer it is about to
\* send is an answer.
LEMMA Requests ==
  ASSUME TypeOK, NEW p \in Workers
  PROVE  /\ request[p] \in Request
         /\ request[p].step # "none" => request[p].key \in Keys
         /\ request[p].step = "none" => request[p].key = Absent
         /\ request[p].step \in AfterMaking => request[p].reply \in Reply
         /\ request[p].step \in Before => request[p].reply = Absent
         /\ request[p].step \in {"none"} \cup Before \cup AfterMaking
BY DEF TypeOK, Request, Before, AfterMaking

\* Every answer a step makes up is one.
LEMMA Replies ==
  /\ Refused \in Reply
  /\ \A n \in Nat : Done(n) \in Reply
BY DEF Refused, Done, Reply

\* What the initial state is made of.
LEMMA TypeInit == Init => TypeOK
BY BoundAssumption DEF Init, TypeOK, NoRequest, Request

\* The steps of a request keep the types.
LEMMA TypeStep ==
  ASSUME TypeOK, NEW p \in Workers, Step(p)
  PROVE  TypeOK'
<1> DEFINE k == request[p].key
<1>0. /\ request[p].step # "none" => k \in Keys
      /\ request[p].step \in AfterMaking => request[p].reply \in Reply
      /\ request[p].step \in Before => request[p].reply = Absent
  BY Requests
<1>1. NoRequest \in Request
  BY DEF NoRequest, Request
<1>2. ASSUME NEW r \in Reply, k \in Keys, Send(p, r)
      PROVE  request' \in [Workers -> Request]
  BY <1>2 DEF TypeOK, Send, Goto, Request, AfterMaking, Before
<1>3. ASSUME NEW s \in Before, k \in Keys, request[p].step \in Before, Await(p, s)
      PROVE  request' \in [Workers -> Request]
  BY <1>0, <1>3 DEF TypeOK, Await, Goto, Request, AfterMaking, Before
<1>4. ASSUME Finish(p) PROVE request' \in [Workers -> Request]
  BY <1>1, <1>4 DEF TypeOK, Finish, Goto
<1>5. ASSUME NEW r \in Reply, k \in Keys
      PROVE  [records EXCEPT ![k] = [reply |-> r, fresh |-> TRUE]]
               \in [Keys -> Record \cup {Absent}]
  BY <1>5 DEF TypeOK, Record
<1>6. CASE FindKey(p)
  <2>1. ASSUME Fresh(k), k \in Keys PROVE records[k].reply \in Reply
    BY <2>1 DEF TypeOK, Fresh, Record
  <2>2. request' \in [Workers -> Request]
    BY <1>0, <1>2, <1>3, <1>6, <2>1, Replies DEF FindKey, Before
  <2> QED BY <1>6, <2>2 DEF FindKey, TypeOK
<1>7. CASE FindSession(p)
  <2>1. request' \in [Workers -> Request]
    BY <1>0, <1>2, <1>3, <1>7, Replies DEF FindSession, Before, TypeOK
  <2> QED BY <1>7, <2>1 DEF FindSession, TypeOK
<1>8. CASE InsertSession(p)
  <2>1. request' \in [Workers -> Request]
    BY <1>0, <1>2, <1>4, <1>8, Replies DEF InsertSession
  <2> QED BY <1>0, <1>8, <2>1 DEF InsertSession, TypeOK
<1>9. CASE CheckQuote(p)
  <2>1. request' \in [Workers -> Request]
    BY <1>0, <1>2, <1>3, <1>9, Replies DEF CheckQuote, Before
  <2> QED BY <1>9, <2>1 DEF CheckQuote, TypeOK
<1>10. CASE PlaceOrder(p)
  <2>1. k \in Keys /\ made[k] \in Nat /\ Done(made[k] + 1) \in Reply
    BY <1>0, <1>10, Replies DEF PlaceOrder, TypeOK
  <2>2. request' \in [Workers -> Request]
    BY <1>10, <2>1 DEF PlaceOrder, Goto, TypeOK, Request, AfterMaking
  <2> QED BY <1>10, <2>1, <2>2 DEF PlaceOrder, TypeOK
<1>11. CASE RecordOrder(p)
  <2>1. request' \in [Workers -> Request]
    BY <1>0, <1>2, <1>11, Replies DEF RecordOrder, AfterMaking
  <2> QED BY <1>11, <2>1 DEF RecordOrder, TypeOK
<1>12. CASE SendAnswer(p)
  <2>1. k \in Keys /\ request[p].reply \in Reply
    BY <1>0, <1>12 DEF SendAnswer, AfterMaking
  <2>2. answers' \in [Keys -> SUBSET Reply]
    BY <1>12, <2>1 DEF SendAnswer, TypeOK
  <2> QED BY <1>4, <1>5, <1>12, <2>1, <2>2 DEF SendAnswer, TypeOK
<1>13. CASE SendUnstored(p)
  <2>1. k \in Keys /\ request[p].reply \in Reply
    BY <1>0, <1>13 DEF SendUnstored, AfterMaking
  <2>2. answers' \in [Keys -> SUBSET Reply]
    BY <1>13, <2>1 DEF SendUnstored, TypeOK
  <2> QED BY <1>4, <1>13, <2>1, <2>2 DEF SendUnstored, Excuse, TypeOK
<1>14. CASE RequestFails(p)
  BY <1>0, <1>4, <1>14 DEF RequestFails, Excuse, TypeOK
<1> QED
  BY <1>6, <1>7, <1>8, <1>9, <1>10, <1>11, <1>12, <1>13, <1>14 DEF Step

\* Every step keeps the types.
LEMMA TypeNext == TypeOK /\ [Next]_vars => TypeOK'
<1> SUFFICES ASSUME TypeOK, [Next]_vars
             PROVE  TypeOK'
  OBVIOUS
<1>1. ASSUME NEW p \in Workers, NEW k \in Keys, Begin(p, k)
      PROVE  TypeOK'
  <2>1. [step |-> "findKey", key |-> k, reply |-> Absent] \in Request
    BY DEF Request, Before
  <2>2. request' \in [Workers -> Request]
    BY <1>1, <2>1 DEF Begin, Goto, TypeOK
  <2>3. requests' \in 0..MaxRequests
    BY <1>1, BoundAssumption DEF Begin, TypeOK
  <2>4. excuses' \in [Keys -> Nat]
    BY <1>1 DEF Begin, Excuse, TypeOK
  <2> QED BY <1>1, <2>2, <2>3, <2>4 DEF Begin, TypeOK
<1>2. ASSUME NEW k \in Keys, Expire(k)
      PROVE  TypeOK'
  <2>1. records' \in [Keys -> Record \cup {Absent}]
    <3>1. records[k] \in Record
      BY <1>2 DEF Expire, Fresh, TypeOK
    <3>2. [records[k] EXCEPT !.fresh = FALSE] \in Record
      BY <3>1 DEF Record
    <3> QED BY <1>2, <3>2 DEF Expire, TypeOK
  <2>2. expiries' \in 0..MaxExpiries
    BY <1>2, BoundAssumption DEF Expire, TypeOK
  <2> QED BY <1>2, <2>1, <2>2 DEF Expire, Excuse, TypeOK
<1>3. CASE UNCHANGED vars
  BY <1>3 DEF vars, TypeOK
<1> QED BY <1>1, <1>2, <1>3, TypeStep DEF Next

\* Every variable keeps to its type: in particular only answers below 500 are
\* ever on record.
THEOREM RequestTypesCorrect == Spec => []TypeOK
BY TypeInit, TypeNext, PTL DEF Spec

-----------------------------------------------------------------------------
(***************************************************************************)
(* Sessions: whatever is about to be answered to a request for a session,  *)
(* and whatever is on record for its key, is the one answer the key has.   *)
(***************************************************************************)

\* r is the answer of key k, and names a session only if there is one.
Answer(k, r) ==
  \/ k \in Malformed /\ r = Refused
  \/ k \notin Malformed /\ r = Done(1) /\ made[k] = 1

OnlySessionSteps(k) ==
  \A p \in InFlight(k) :
    /\ request[p].step \notin {"checkQuote", "placeOrder", "recordOrder"}
    /\ k \in Malformed => request[p].step \in {"findKey", "send"}
    /\ request[p].step = "send" => Answer(k, request[p].reply)

SessionOK(k) ==
  /\ made[k] <= 1
  /\ OnlySessionSteps(k)
  /\ records[k] # Absent => Answer(k, records[k].reply)
  /\ \A r \in answers[k] : Answer(k, r)

SessionInv ==
  \A k \in Keys : OperationOf[k] = "createSession" => SessionOK(k)

\* The invariant says of what was answered what the property asks.
LEMMA SessionInvSuffices == SessionInv => OneSessionPerKey
BY DEF SessionInv, SessionOK, OneSessionPerKey, Answer, Refused, Done

\* Nothing has been answered at first.
LEMMA SessionInvInit == Init => SessionInv
BY AbsentAssumption DEF Init, SessionInv, SessionOK, OnlySessionSteps, InFlight, NoRequest

\* The steps of a request keep to the one answer.
LEMMA SessionInvStep ==
  ASSUME TypeOK, SessionInv, NEW p \in Workers, Step(p)
  PROVE  SessionInv'
<1> DEFINE k == request[p].key
<1> SUFFICES ASSUME NEW j \in Keys, OperationOf[j] = "createSession"
             PROVE  SessionOK(j)'
  BY DEF SessionInv
<1>0. /\ made[j] \in Nat /\ made[j] <= 1
      /\ OnlySessionSteps(j)
      /\ records[j] # Absent => Answer(j, records[j].reply)
      /\ \A r \in answers[j] : Answer(j, r)
      /\ k = j => p \in InFlight(j)
  BY DEF SessionInv, SessionOK, TypeOK, InFlight
\* It is enough to look at what p becomes.
<1>1. ASSUME NEW r, Goto(p, r), made'[j] = made[j] \/ made[j] = 0,
             r.key = j =>
               /\ r.step \notin {"checkQuote", "placeOrder", "recordOrder"}
               /\ j \in Malformed => r.step \in {"findKey", "send"}
               /\ r.step = "send" => Answer(j, r.reply)'
      PROVE  OnlySessionSteps(j)'
  <2>1. ASSUME NEW q \in InFlight(j)', q # p
        PROVE  request'[q] = request[q] /\ q \in InFlight(j)
    BY <1>1, <2>1 DEF Goto, InFlight, TypeOK
  <2>2. request'[p] = r
    BY <1>1 DEF Goto, TypeOK
  <2>3. ASSUME NEW a, Answer(j, a) PROVE Answer(j, a)'
    BY <1>1, <2>3 DEF Answer
  <2> QED BY <1>0, <1>1, <2>1, <2>2, <2>3 DEF OnlySessionSteps, InFlight
<1>2. CASE FindKey(p)
  <2>1. UNCHANGED <<made, records, answers>>
    BY <1>2 DEF FindKey
  <2>2. OnlySessionSteps(j)'
    <3>1. CASE Fresh(k) /\ Send(p, records[k].reply)
      BY <1>0, <1>1, <2>1, <3>1 DEF Send, Fresh, Answer
    <3>2. CASE k \in Malformed /\ Send(p, Refused)
      BY <1>0, <1>1, <2>1, <3>2 DEF Send, Answer
    <3>3. CASE k \notin Malformed /\
               Await(p, IF OperationOf[k] = "createSession" THEN "findSession" ELSE "checkQuote")
      BY <1>1, <2>1, <3>3 DEF Await
    <3> QED BY <1>2, <3>1, <3>2, <3>3 DEF FindKey
  <2> QED BY <1>0, <2>1, <2>2 DEF SessionOK, Answer
<1>3. CASE FindSession(p)
  <2>1. UNCHANGED <<made, records, answers>> /\ request[p].step = "findSession"
    BY <1>3 DEF FindSession
  <2>2. k = j => j \notin Malformed
    BY <1>0, <2>1 DEF OnlySessionSteps
  <2>3. OnlySessionSteps(j)'
    <3>1. ASSUME NEW n \in 1..made[k], Send(p, Done(n))
          PROVE  OnlySessionSteps(j)'
      <4>1. k = j => n = 1 /\ made[j] = 1
        BY <1>0, <3>1
      <4> QED BY <1>1, <2>1, <2>2, <3>1, <4>1 DEF Send, Answer
    <3>2. CASE Await(p, "insertSession")
      BY <1>1, <2>1, <2>2, <3>2 DEF Await
    <3> QED BY <1>3, <3>1, <3>2 DEF FindSession
  <2> QED BY <1>0, <2>1, <2>3 DEF SessionOK, Answer
<1>4. CASE InsertSession(p)
  <2>1. UNCHANGED <<records, answers>> /\ request[p].step = "insertSession" /\ k \in Keys
    BY <1>4, Requests DEF InsertSession
  <2>2. k = j => j \notin Malformed
    BY <1>0, <2>1 DEF OnlySessionSteps
  <2>3. /\ made'[j] <= 1
        /\ made'[j] = made[j] \/ made[j] = 0
    BY <1>0, <1>4, <2>1 DEF InsertSession, TypeOK
  <2>4. OnlySessionSteps(j)'
    <3>1. CASE made[k] = 0 /\ made' = [made EXCEPT ![k] = 1] /\ Send(p, Done(1))
      <4>1. k = j => made'[j] = 1
        BY <3>1 DEF TypeOK
      <4> QED BY <1>1, <2>2, <2>3, <3>1, <4>1 DEF Send, Answer
    <3>2. CASE Finish(p)
      BY <1>1, <2>3, <3>2, AbsentAssumption DEF Finish, NoRequest
    <3> QED BY <1>4, <3>1, <3>2 DEF InsertSession
  <2>5. ASSUME NEW a, Answer(j, a) PROVE Answer(j, a)'
    BY <2>3, <2>5 DEF Answer
  <2> QED BY <1>0, <2>1, <2>3, <2>4, <2>5 DEF SessionOK
<1>5. CASE CheckQuote(p) \/ PlaceOrder(p) \/ RecordOrder(p)
  <2>1. k # j /\ k \in Keys
    BY <1>0, <1>5, Requests DEF CheckQuote, PlaceOrder, RecordOrder, OnlySessionSteps
  <2>2. made'[j] = made[j] /\ UNCHANGED <<records, answers>>
    BY <1>5, <2>1 DEF CheckQuote, PlaceOrder, RecordOrder, TypeOK
  <2>3. OnlySessionSteps(j)'
    BY <1>1, <1>5, <2>1, <2>2 DEF CheckQuote, PlaceOrder, RecordOrder, Send, Await
  <2> QED BY <1>0, <2>2, <2>3 DEF SessionOK, Answer
<1>6. CASE SendAnswer(p) \/ SendUnstored(p)
  <2>1. /\ k \in Keys
        /\ k = j => Answer(j, request[p].reply)
        /\ made' = made
        /\ Finish(p)
        /\ answers' = [answers EXCEPT ![k] = @ \cup {request[p].reply}]
    BY <1>0, <1>6, Requests DEF SendAnswer, SendUnstored, OnlySessionSteps
  <2>2. OnlySessionSteps(j)'
    BY <1>1, <2>1, AbsentAssumption DEF Finish, NoRequest
  <2>3. \A r \in answers'[j] : Answer(j, r)
    BY <1>0, <2>1 DEF TypeOK
  <2>4. records'[j] # Absent => Answer(j, records'[j].reply)
    BY <1>0, <1>6, <2>1 DEF SendAnswer, SendUnstored, TypeOK
  <2> QED BY <1>0, <2>1, <2>2, <2>3, <2>4 DEF SessionOK, Answer
<1>7. CASE RequestFails(p)
  <2>1. Finish(p) /\ UNCHANGED <<made, records, answers>>
    BY <1>7 DEF RequestFails
  <2>2. OnlySessionSteps(j)'
    BY <1>1, <2>1, AbsentAssumption DEF Finish, NoRequest
  <2> QED BY <1>0, <2>1, <2>2 DEF SessionOK, Answer
<1> QED BY <1>2, <1>3, <1>4, <1>5, <1>6, <1>7 DEF Step

\* Every step keeps to the one answer.
LEMMA SessionInvNext == TypeOK /\ SessionInv /\ [Next]_vars => SessionInv'
<1> SUFFICES ASSUME TypeOK, SessionInv, [Next]_vars
             PROVE  SessionInv'
  OBVIOUS
<1>1. ASSUME NEW p \in Workers, NEW k \in Keys, Begin(p, k)
      PROVE  SessionInv'
  <2>1. /\ UNCHANGED <<made, records, answers>>
        /\ request' = [request EXCEPT ![p] = [step |-> "findKey", key |-> k, reply |-> Absent]]
    BY <1>1 DEF Begin, Goto
  <2>2. ASSUME NEW j \in Keys, OnlySessionSteps(j) PROVE OnlySessionSteps(j)'
    BY <2>1, <2>2 DEF OnlySessionSteps, InFlight, Answer, TypeOK
  <2> QED BY <2>1, <2>2 DEF SessionInv, SessionOK, Answer
<1>2. ASSUME NEW k \in Keys, Expire(k)
      PROVE  SessionInv'
  <2>1. /\ UNCHANGED <<made, request, answers>>
        /\ \A j \in Keys : records'[j] # Absent =>
             records[j] # Absent /\ records'[j].reply = records[j].reply
    BY <1>2 DEF Expire, Fresh, TypeOK, Record
  <2> QED BY <2>1 DEF SessionInv, SessionOK, OnlySessionSteps, InFlight, Answer
<1>3. CASE UNCHANGED vars
  BY <1>3 DEF vars, SessionInv, SessionOK, OnlySessionSteps, InFlight, Answer
<1> QED BY <1>1, <1>2, <1>3, SessionInvStep DEF Next

\* One key, one session, one answer: however requests with the key overlap, fail
\* and are repeated, and whether or not its record has expired.
THEOREM SessionsOnce == Spec => []OneSessionPerKey
<1>1. Init => TypeOK /\ SessionInv
  BY TypeInit, SessionInvInit
<1>2. TypeOK /\ SessionInv /\ [Next]_vars => (TypeOK /\ SessionInv)'
  BY TypeNext, SessionInvNext
<1>3. TypeOK /\ SessionInv => OneSessionPerKey
  BY SessionInvSuffices
<1> QED BY <1>1, <1>2, <1>3, PTL DEF Spec

-----------------------------------------------------------------------------
(***************************************************************************)
(* Orders: a count.  Early(k) are the requests that may still make         *)
(* something, Past(k) those of them that the record can no longer turn     *)
(* away.  With what has been made they never exceed what is excused, up to *)
(* one; while a record is fresh, a request that has not looked yet does    *)
(* not count.  When there is neither a record nor a request, the next      *)
(* request is free to make something, so one less must have been made.     *)
(***************************************************************************)

Early(k) == {p \in Workers : request[p].key = k /\ request[p].step \in Before}
Past(k) == {p \in Early(k) : request[p].step # "findKey"}

\* Of a key: the record is fresh, rows made, excuses, early and past requests, and
\* whether none is in flight.
Within(fresh, rows, excused, early, past, idle) ==
  /\ fresh => rows + past <= 1 + excused /\ rows + early <= 2 + excused
  /\ ~ fresh => rows + early <= 1 + excused
  /\ ~ fresh /\ idle => rows <= excused

CountOK(k) ==
  Within(Fresh(k), made[k], excuses[k], Cardinality(Early(k)), Cardinality(Past(k)), InFlight(k) = {})

CountInv == \A k \in Keys : CountOK(k)

One(b) == IF b THEN 1 ELSE 0

\* Adding to a finite set, and removing from it.
LEMMA OneElement ==
  ASSUME NEW S, IsFiniteSet(S), NEW x
  PROVE  /\ Cardinality(S) \in Nat
         /\ x \in S => Cardinality(S) >= 1
         /\ Cardinality(S \cup {x}) = Cardinality(S) + One(x \notin S)
         /\ Cardinality(S \ {x}) = Cardinality(S) - One(x \in S)
<1>1. Cardinality(S) \in Nat
  BY FS_CardinalityType
<1>2. Cardinality(S \cup {x}) = Cardinality(S) + One(x \notin S)
  BY <1>1, FS_AddElement DEF One
<1>3. Cardinality(S \ {x}) = Cardinality(S) - One(x \in S)
  BY <1>1, FS_RemoveElement DEF One
<1>4. x \in S => Cardinality(S) >= 1
  <2>1. S # {} => Cardinality(S) # 0
    BY FS_EmptySet
  <2> QED BY <1>1, <2>1
<1> QED BY <1>1, <1>2, <1>3, <1>4

\* How the two sets grow and shrink when worker p goes on as r.
LEMMA OneMoves ==
  ASSUME TypeOK, NEW p \in Workers, NEW r, Goto(p, r), NEW j \in Keys
  PROVE  /\ Cardinality(Early(j)') = Cardinality(Early(j)) - One(p \in Early(j))
                                      + One(r.key = j /\ r.step \in Before)
         /\ Cardinality(Past(j)') = Cardinality(Past(j)) - One(p \in Past(j))
                                     + One(r.key = j /\ r.step \in Before \ {"findKey"})
<1>1. IsFiniteSet(Early(j)) /\ IsFiniteSet(Past(j))
  BY FS_Subset, WorkersAssumption DEF Early, Past
<1>2. /\ Early(j)' = IF r.key = j /\ r.step \in Before THEN Early(j) \cup {p} ELSE Early(j) \ {p}
      /\ Past(j)' = IF r.key = j /\ r.step \in Before \ {"findKey"}
                    THEN Past(j) \cup {p} ELSE Past(j) \ {p}
  BY DEF Goto, TypeOK, Early, Past
<1>3. /\ Cardinality(Early(j)) \in Nat
      /\ Cardinality(Early(j) \cup {p}) = Cardinality(Early(j)) + One(p \notin Early(j))
      /\ Cardinality(Early(j) \ {p}) = Cardinality(Early(j)) - One(p \in Early(j))
  BY <1>1, OneElement
<1>4. /\ Cardinality(Past(j)) \in Nat
      /\ Cardinality(Past(j) \cup {p}) = Cardinality(Past(j)) + One(p \notin Past(j))
      /\ Cardinality(Past(j) \ {p}) = Cardinality(Past(j)) - One(p \in Past(j))
  BY <1>1, OneElement
<1>5. Cardinality(Early(j)') = Cardinality(Early(j)) - One(p \in Early(j))
                               + One(r.key = j /\ r.step \in Before)
  <2>1. CASE r.key = j /\ r.step \in Before
    BY <1>2, <1>3, <2>1 DEF One
  <2>2. CASE ~ (r.key = j /\ r.step \in Before)
    BY <1>2, <1>3, <2>2 DEF One
  <2> QED BY <2>1, <2>2
<1>6. Cardinality(Past(j)') = Cardinality(Past(j)) - One(p \in Past(j))
                              + One(r.key = j /\ r.step \in Before \ {"findKey"})
  <2>1. CASE r.key = j /\ r.step \in Before \ {"findKey"}
    BY <1>2, <1>4, <2>1 DEF One
  <2>2. CASE ~ (r.key = j /\ r.step \in Before \ {"findKey"})
    BY <1>2, <1>4, <2>2 DEF One
  <2> QED BY <2>1, <2>2
<1> QED BY <1>5, <1>6

\* The sets are finite.
LEMMA Counts ==
  ASSUME TypeOK, NEW j \in Keys
  PROVE  /\ Cardinality(Early(j)) \in Nat /\ Cardinality(Past(j)) \in Nat
         /\ Cardinality(Past(j)) <= Cardinality(Early(j))
<1>1. IsFiniteSet(Early(j)) /\ IsFiniteSet(Past(j))
      /\ Cardinality(Past(j)) <= Cardinality(Early(j))
  BY FS_Subset, WorkersAssumption DEF Early, Past
<1> QED BY <1>1, FS_CardinalityType

\* A count within its bound is what the property asks.
LEMMA CountInvSuffices == TypeOK /\ CountInv => ExtraOrdersExcused
<1> SUFFICES ASSUME TypeOK, CountInv, NEW k \in Keys
             PROVE  made[k] <= 1 + excuses[k]
  BY DEF ExtraOrdersExcused
<1>1. made[k] \in Nat /\ excuses[k] \in Nat
  BY DEF TypeOK
<1> QED BY <1>1, Counts DEF CountInv, CountOK, Within

\* Nothing has been made at first.
LEMMA CountInvInit == Init => CountInv
<1> SUFFICES ASSUME Init, NEW k \in Keys
             PROVE  CountOK(k)
  BY DEF CountInv
<1>1. Early(k) = {} /\ ~ Fresh(k) /\ made[k] = 0 /\ excuses[k] = 0
  BY DEF Init, Early, Fresh, NoRequest, Before
<1> QED BY <1>1, FS_EmptySet DEF CountOK, Within, Past

\* A request leaves the count of every other key alone.
LEMMA CountInvOther ==
  ASSUME TypeOK, CountInv, NEW p \in Workers, Step(p), NEW j \in Keys, request[p].key # j
  PROVE  CountOK(j)'
<1>1. request[p].key \in Keys
  BY Requests DEF Step, FindKey, FindSession, InsertSession, CheckQuote, PlaceOrder,
                  RecordOrder, SendAnswer, SendUnstored, RequestFails
<1>2. /\ made'[j] = made[j] /\ excuses'[j] = excuses[j] /\ records'[j] = records[j]
  BY <1>1 DEF Step, FindKey, FindSession, InsertSession, CheckQuote, PlaceOrder,
              RecordOrder, SendAnswer, SendUnstored, RequestFails, Excuse, TypeOK
<1>3. PICK r : Goto(p, r) /\ r.key # j
  <2> DEFINE Moves == \E r : Goto(p, r) /\ r.key # j
  <2>1. NoRequest.key # j
    BY AbsentAssumption DEF NoRequest
  <2>2. Finish(p) => Moves
    BY <2>1 DEF Finish
  <2>3. \A reply : Send(p, reply) => Moves
    BY DEF Send
  <2>4. \A s : Await(p, s) => Moves
    BY DEF Await
  <2>5. PlaceOrder(p) => Moves
    BY DEF PlaceOrder
  <2> HIDE DEF Moves
  <2>6. Moves
    BY <2>2, <2>3, <2>4, <2>5
       DEF Step, FindKey, FindSession, InsertSession, CheckQuote, RecordOrder,
           SendAnswer, SendUnstored, RequestFails
  <2> QED BY <2>6 DEF Moves
<1>4. Early(j)' = Early(j) /\ Past(j)' = Past(j) /\ InFlight(j)' = InFlight(j)
  BY <1>3 DEF Early, Past, InFlight, Goto, TypeOK
<1>5. Fresh(j)' = Fresh(j)
  BY <1>2 DEF Fresh
<1>6. CountOK(j)
  BY DEF CountInv
<1> QED BY <1>2, <1>4, <1>5, <1>6 DEF CountOK

\* Of its own key's, it uses up what it counts for.
LEMMA CountInvOwn ==
  ASSUME TypeOK, CountInv, NEW p \in Workers, Step(p), NEW k \in Keys, request[p].key = k
  PROVE  CountOK(k)'
<1> DEFINE E == Cardinality(Early(k))
           P == Cardinality(Past(k))
           E2 == Cardinality(Early(k)')
           P2 == Cardinality(Past(k)')
           Kept == Within(Fresh(k)', made'[k], excuses'[k], E2, P2, InFlight(k)' = {})
<1>0. /\ made[k] \in Nat /\ excuses[k] \in Nat
      /\ E \in Nat /\ P \in Nat /\ P <= E
      /\ Within(Fresh(k), made[k], excuses[k], E, P, InFlight(k) = {})
  BY Counts DEF TypeOK, CountInv, CountOK
<1> SUFFICES Kept
  BY DEF CountOK
<1>1. /\ p \in Early(k) <=> request[p].step \in Before
      /\ p \in Past(k) <=> request[p].step \in Before \ {"findKey"}
      /\ InFlight(k) # {}
  BY DEF Early, Past, InFlight
<1>2. p \in Early(k) => E >= 1
  <2>1. IsFiniteSet(Early(k))
    BY FS_Subset, WorkersAssumption DEF Early
  <2> QED BY <2>1, OneElement
\* Most often it goes on, and so remains in flight.
<1>3. ASSUME NEW r, r.key = k, Goto(p, r)
      PROVE  InFlight(k)' # {}
  BY <1>3 DEF Goto, InFlight, TypeOK
<1>4. ASSUME NEW r, Goto(p, r)
      PROVE  /\ E2 = E - One(p \in Early(k)) + One(r.key = k /\ r.step \in Before)
             /\ P2 = P - One(p \in Past(k)) + One(r.key = k /\ r.step \in Before \ {"findKey"})
  BY <1>4, OneMoves
\* Otherwise it is gone.
<1>5. ASSUME Goto(p, NoRequest)
      PROVE  /\ E2 = E - One(request[p].step \in Before)
             /\ P2 = P - One(request[p].step \in Before \ {"findKey"})
  <2>1. NoRequest.key # k
    BY AbsentAssumption DEF NoRequest
  <2>2. One(NoRequest.key = k /\ NoRequest.step \in Before) = 0
        /\ One(NoRequest.key = k /\ NoRequest.step \in Before \ {"findKey"}) = 0
    BY <2>1 DEF One
  <2>3. /\ E2 = E - One(p \in Early(k)) + 0
        /\ P2 = P - One(p \in Past(k)) + 0
    BY <1>4, <1>5, <2>2
  <2> QED BY <1>0, <1>1, <2>3 DEF One
<1>6. CASE FindKey(p)
  <2>1. UNCHANGED <<made, records, excuses>> /\ request[p].step = "findKey"
    BY <1>6 DEF FindKey
  <2>2. PICK r : /\ r.key = k /\ Goto(p, r)
                 /\ Fresh(k) => r.step = "send"
    BY <1>6 DEF FindKey, Send, Await
  <2>3. Fresh(k)' = Fresh(k) /\ InFlight(k)' # {}
    BY <1>3, <2>1, <2>2 DEF Fresh
  <2>4. /\ E2 = E - One(p \in Early(k)) + One(r.key = k /\ r.step \in Before)
        /\ P2 = P - One(p \in Past(k)) + One(r.key = k /\ r.step \in Before \ {"findKey"})
    BY <1>4, <2>2
  <2>5. E2 <= E /\ E2 \in Int /\ P2 \in Int
    BY <1>0, <1>1, <2>1, <2>4 DEF One, Before
  <2>6. Fresh(k) => P2 <= P
    BY <1>0, <1>1, <2>1, <2>2, <2>4 DEF One, Before
  <2> HIDE DEF E, P, E2, P2
  <2> QED BY <1>0, <2>1, <2>3, <2>5, <2>6 DEF Within
<1>7. CASE FindSession(p) \/ CheckQuote(p) \/ RecordOrder(p)
  <2>1. /\ UNCHANGED <<made, records, excuses>>
        /\ request[p].step \in {"findSession", "checkQuote", "recordOrder"}
    BY <1>7 DEF FindSession, CheckQuote, RecordOrder
  <2>2. PICK r : /\ r.key = k /\ Goto(p, r)
                 /\ request[p].step = "recordOrder" => r.step = "send"
    <3>1. ASSUME NEW reply, Send(p, reply)
          PROVE  \E r : r.key = k /\ Goto(p, r) /\ r.step = "send"
      BY <3>1 DEF Send
    <3>2. ASSUME NEW s, Await(p, s)
          PROVE  \E r : r.key = k /\ Goto(p, r)
      BY <3>2 DEF Await
    <3> QED BY <1>7, <3>1, <3>2 DEF FindSession, CheckQuote, RecordOrder
  <2>3. Fresh(k)' = Fresh(k) /\ InFlight(k)' # {}
    BY <1>3, <2>1, <2>2 DEF Fresh
  <2>4. /\ E2 = E - One(p \in Early(k)) + One(r.key = k /\ r.step \in Before)
        /\ P2 = P - One(p \in Past(k)) + One(r.key = k /\ r.step \in Before \ {"findKey"})
    BY <1>4, <2>2
  <2>5. E2 <= E /\ P2 <= P /\ E2 \in Int /\ P2 \in Int
    BY <1>0, <1>1, <2>1, <2>2, <2>4 DEF One, Before
  <2> HIDE DEF E, P, E2, P2
  <2> QED BY <1>0, <2>1, <2>3, <2>5 DEF Within
<1>8. CASE PlaceOrder(p) \/ (InsertSession(p) /\ made[k] = 0)
  <2>1. /\ UNCHANGED <<records, excuses>>
        /\ request[p].step \in {"placeOrder", "insertSession"}
        /\ made' = [made EXCEPT ![k] = @ + 1]
    BY <1>0, <1>8 DEF PlaceOrder, InsertSession, TypeOK
  <2>2. PICK r : r.key = k /\ Goto(p, r) /\ r.step \in AfterMaking
    BY <1>8 DEF PlaceOrder, InsertSession, Send, AfterMaking
  <2>3. Fresh(k)' = Fresh(k) /\ InFlight(k)' # {} /\ made'[k] = made[k] + 1
    BY <1>3, <2>1, <2>2 DEF Fresh, TypeOK
  <2>4. /\ E2 = E - One(p \in Early(k)) + One(r.key = k /\ r.step \in Before)
        /\ P2 = P - One(p \in Past(k)) + One(r.key = k /\ r.step \in Before \ {"findKey"})
    BY <1>4, <2>2
  <2>5. E2 = E - 1 /\ P2 = P - 1
    BY <1>0, <1>1, <2>1, <2>2, <2>4 DEF One, Before, AfterMaking
  <2> HIDE DEF E, P, E2, P2
  <2> QED BY <1>0, <2>1, <2>3, <2>5 DEF Within
<1>9. CASE InsertSession(p) /\ made[k] # 0
  <2>1. /\ UNCHANGED <<made, records, excuses>>
        /\ request[p].step = "insertSession"
        /\ Goto(p, NoRequest)
    BY <1>9 DEF InsertSession, Finish
  <2>2. Fresh(k)' = Fresh(k)
    BY <2>1 DEF Fresh
  <2>3. E2 = E - 1 /\ P2 = P - 1 /\ E >= 1
    BY <1>1, <1>2, <1>5, <2>1 DEF One, Before
  <2> HIDE DEF E, P, E2, P2
  <2> QED BY <1>0, <2>1, <2>2, <2>3 DEF Within
<1>10. CASE SendAnswer(p)
  <2>1. /\ UNCHANGED <<made, excuses>>
        /\ request[p].step = "send"
        /\ Goto(p, NoRequest)
        /\ records' = [records EXCEPT ![k] = [reply |-> request[p].reply, fresh |-> TRUE]]
    BY <1>10 DEF SendAnswer, Finish
  <2>2. Fresh(k)'
    <3>1. records'[k] = [reply |-> request[p].reply, fresh |-> TRUE]
      BY <2>1 DEF TypeOK
    <3>2. request[p].reply \in Reply
      BY <2>1, Requests DEF AfterMaking
    <3>3. records'[k] \in Record
      BY <3>1, <3>2 DEF Record
    <3>4. records'[k] # Absent
      BY <3>3, AbsentAssumption
    <3>5. records'[k].fresh
      BY <3>1
    <3> QED BY <3>4, <3>5 DEF Fresh
  <2>3. E2 = E /\ P2 = P
    BY <1>0, <1>5, <2>1 DEF One, Before
  <2> HIDE DEF E, P, E2, P2
  <2> QED BY <1>0, <2>1, <2>2, <2>3 DEF Within
<1>11. CASE SendUnstored(p) \/ RequestFails(p)
  <2>1. /\ UNCHANGED <<made, records>>
        /\ Goto(p, NoRequest)
        /\ excuses' = [excuses EXCEPT ![k] = @ + 1]
    BY <1>11 DEF SendUnstored, RequestFails, Finish, Excuse
  <2>2. Fresh(k)' = Fresh(k) /\ excuses'[k] = excuses[k] + 1
    BY <2>1 DEF Fresh, TypeOK
  <2>3. E2 <= E /\ P2 <= P /\ E2 \in Int /\ P2 \in Int
    BY <1>0, <1>5, <2>1 DEF One
  <2> HIDE DEF E, P, E2, P2
  <2> QED BY <1>0, <2>1, <2>2, <2>3 DEF Within
<1>12. InsertSession(p) => Kept
  BY <1>8, <1>9
<1> HIDE DEF Kept
<1> QED BY <1>6, <1>7, <1>8, <1>10, <1>11, <1>12 DEF Step

\* Every step keeps the count.
LEMMA CountInvNext == TypeOK /\ CountInv /\ [Next]_vars => CountInv'
<1> SUFFICES ASSUME TypeOK, CountInv, [Next]_vars, NEW j \in Keys
             PROVE  CountOK(j)'
  BY DEF CountInv
<1>0. /\ made[j] \in Nat /\ excuses[j] \in Nat
      /\ CountOK(j)
  BY DEF TypeOK, CountInv
<1>1. ASSUME NEW p \in Workers, NEW k \in Keys, Begin(p, k)
      PROVE  CountOK(j)'
  <2> DEFINE r == [step |-> "findKey", key |-> k, reply |-> Absent]
  <2>1. /\ UNCHANGED <<made, records>>
        /\ Goto(p, r)
        /\ request[p].step = "none"
        /\ request[p].key = Absent
    BY <1>1, Requests DEF Begin
  <2>2. Fresh(j)' = Fresh(j) /\ p \notin Early(j) /\ p \notin Past(j)
    BY <2>1 DEF Fresh, Early, Past, Before
  <2>3. CASE k # j
    <3>1. /\ InFlight(j)' = InFlight(j)
          /\ Early(j)' = Early(j) /\ Past(j)' = Past(j)
      BY <2>1, <2>3, AbsentAssumption DEF Goto, InFlight, Early, Past, TypeOK
    <3>2. excuses'[j] = excuses[j]
      BY <1>1, <2>3 DEF Begin, Excuse, TypeOK
    <3> QED BY <1>0, <2>1, <2>2, <3>1, <3>2 DEF CountOK
  <2>4. CASE k = j
    <3> DEFINE E == Cardinality(Early(j))
               P == Cardinality(Past(j))
               E2 == Cardinality(Early(j)')
               P2 == Cardinality(Past(j)')
    <3>1. InFlight(j)' # {}
      BY <2>1, <2>4 DEF Goto, InFlight, TypeOK
    <3>2. excuses'[j] = excuses[j] + One(InFlight(j) # {})
      BY <1>0, <1>1, <2>4 DEF Begin, Excuse, TypeOK, One
    <3>3. E2 = E - One(p \in Early(j)) + One(r.key = j /\ r.step \in Before)
          /\ P2 = P - One(p \in Past(j)) + One(r.key = j /\ r.step \in Before \ {"findKey"})
      BY <2>1, OneMoves
    <3>4. E \in Nat /\ P \in Nat
      BY Counts
    <3>5. E2 = E + 1 /\ P2 = P
      BY <2>2, <2>4, <3>3, <3>4 DEF One, Before
    <3>6. InFlight(j) = {} => E = 0
      <4>1. InFlight(j) = {} => Early(j) = {}
        BY DEF InFlight, Early
      <4> QED BY <4>1, FS_EmptySet
    <3>7. Within(Fresh(j), made[j], excuses[j], E, P, InFlight(j) = {})
      BY <1>0 DEF CountOK
    <3> HIDE DEF E, P, E2, P2
    <3>8. Within(Fresh(j)', made'[j], excuses'[j], E2, P2, InFlight(j)' = {})
      BY <1>0, <2>1, <2>2, <3>1, <3>2, <3>4, <3>5, <3>6, <3>7 DEF Within, One
    <3> QED BY <3>8 DEF CountOK, E2, P2
  <2> QED BY <2>3, <2>4
<1>2. ASSUME NEW k \in Keys, Expire(k)
      PROVE  CountOK(j)'
  <2>1. /\ UNCHANGED <<made, request>>
        /\ k = j => Fresh(j) /\ ~ Fresh(j)' /\ excuses'[j] = excuses[j] + 1
        /\ k # j => Fresh(j)' = Fresh(j) /\ excuses'[j] = excuses[j]
    BY <1>2 DEF Expire, Excuse, Fresh, TypeOK, Record
  <2>2. /\ Early(j)' = Early(j) /\ Past(j)' = Past(j)
        /\ InFlight(j)' = InFlight(j)
    BY <2>1 DEF Early, Past, InFlight
  <2>3. /\ Cardinality(Early(j)) \in Nat /\ Cardinality(Past(j)) \in Nat
        /\ Cardinality(Past(j)) <= Cardinality(Early(j))
    BY Counts
  <2>4. CASE k # j
    BY <1>0, <2>1, <2>2, <2>4 DEF CountOK
  <2>5. CASE k = j
    BY <1>0, <2>1, <2>2, <2>3, <2>5 DEF CountOK, Within
  <2> QED BY <2>4, <2>5
<1>3. CASE UNCHANGED vars
  BY <1>0, <1>3 DEF vars, CountOK, Fresh, Early, Past, InFlight
<1>4. CASE \E p \in Workers : Step(p)
  BY <1>4, CountInvOther, CountInvOwn
<1> QED BY <1>1, <1>2, <1>3, <1>4 DEF Next

\* Every order a key places beyond the first has an excuse of its own: an overlap,
\* a failure or an expiry.
THEOREM OrdersExcused == Spec => []ExtraOrdersExcused
<1>1. Init => TypeOK /\ CountInv
  BY TypeInit, CountInvInit
<1>2. TypeOK /\ CountInv /\ [Next]_vars => (TypeOK /\ CountInv)'
  BY TypeNext, CountInvNext
<1>3. TypeOK /\ CountInv => ExtraOrdersExcused
  BY CountInvSuffices
<1> QED BY <1>1, <1>2, <1>3, PTL DEF Spec


-----------------------------------------------------------------------------
(***************************************************************************)
(* Requests with a key that has no excuse follow one another: the first    *)
(* runs the handler, and every later one is answered from the record.      *)
(***************************************************************************)

\* r names the row last made, if it names one.
Names(k, r) == r.status = "done" => r.row = made[k]

\* The first request has not been answered.
Unanswered(k) ==
  /\ records[k] = Absent
  /\ answers[k] = {}
  /\ InFlight(k) = {} => made[k] = 0
  /\ \A p \in InFlight(k) :
       /\ request[p].step \in Before => made[k] = 0
       /\ request[p].step \in AfterMaking => Names(k, request[p].reply)

\* It has, and its answer is on record.
Answered(k) ==
  /\ Fresh(k)
  /\ answers[k] = {records[k].reply}
  /\ Names(k, records[k].reply)
  /\ \A p \in InFlight(k) :
       /\ request[p].step \in {"findKey", "send"}
       /\ request[p].step = "send" => request[p].reply = records[k].reply

RepeatOK(k) ==
  /\ \A p, q \in InFlight(k) : p = q
  /\ Unanswered(k) \/ Answered(k)

RepeatInv == \A k \in Keys : excuses[k] = 0 => RepeatOK(k)

LEMMA RepeatInvSuffices == RepeatInv => RepeatsAgree
BY DEF RepeatInv, RepeatOK, Unanswered, Answered, Names, RepeatsAgree

LEMMA RepeatInvInit == Init => RepeatInv
BY AbsentAssumption DEF Init, RepeatInv, RepeatOK, Unanswered, InFlight, NoRequest

\* A step for one key changes nothing another key depends on.
LEMMA RepeatOther ==
  ASSUME TypeOK, NEW p \in Workers, Step(p), NEW j \in Keys, request[p].key # j,
         excuses'[j] = 0, RepeatInv
  PROVE  RepeatOK(j)'
<1> DEFINE k == request[p].key
<1>1. k \in Keys /\ k # j
  BY Requests DEF Step, FindKey, FindSession, InsertSession, CheckQuote, PlaceOrder,
     RecordOrder, SendAnswer, SendUnstored, RequestFails
<1>2. PICK r : r.key \in {k, Absent} /\ request' = [request EXCEPT ![p] = r]
  BY DEF Step, FindKey, FindSession, InsertSession, CheckQuote, PlaceOrder, RecordOrder,
     SendAnswer, SendUnstored, RequestFails, Goto, Finish, Await, Send, NoRequest
<1>3. /\ made'[j] = made[j] /\ records'[j] = records[j] /\ answers'[j] = answers[j]
      /\ excuses'[j] = excuses[j]
  BY <1>1 DEF Step, FindKey, FindSession, InsertSession, CheckQuote, PlaceOrder, RecordOrder,
     SendAnswer, SendUnstored, RequestFails, Excuse, TypeOK
<1>4. \A q \in Workers \ {p} : request'[q] = request[q]
  BY <1>2 DEF TypeOK
<1>5. request'[p].key # j
  BY <1>1, <1>2, AbsentAssumption DEF TypeOK
<1>6. InFlight(j)' = InFlight(j) /\ p \notin InFlight(j)
  BY <1>1, <1>4, <1>5 DEF InFlight
<1>7. RepeatOK(j)
  BY <1>3 DEF RepeatInv
<1>8. \A q \in InFlight(j) : request'[q] = request[q]
  BY <1>4, <1>6 DEF InFlight
<1> QED BY <1>3, <1>6, <1>7, <1>8 DEF RepeatOK, Unanswered, Answered, Names, Fresh

\* What a request becomes is all there is to look at when it is the only one.
LEMMA RepeatOwn ==
  ASSUME TypeOK, NEW p \in Workers, NEW k \in Keys, request[p].key = k, RepeatOK(k),
         NEW r, Goto(p, r), r.key = k \/ r.key = Absent
  PROVE  /\ InFlight(k)' = IF r.key = k THEN {p} ELSE {}
         /\ request'[p] = r
BY AbsentAssumption DEF TypeOK, InFlight, RepeatOK, Goto

LEMMA RepeatStep ==
  ASSUME TypeOK, RepeatInv, NEW p \in Workers, Step(p), NEW k \in Keys, request[p].key = k,
         excuses'[k] = 0
  PROVE  RepeatOK(k)'
<1>0. excuses[k] = 0 /\ ~ SendUnstored(p) /\ ~ RequestFails(p)
  <2>1. excuses[k] \in Nat
    BY DEF TypeOK
  <2>2. excuses' = excuses \/ excuses'[k] = excuses[k] + 1
    BY DEF Step, FindKey, FindSession, InsertSession, CheckQuote, PlaceOrder, RecordOrder,
       SendAnswer, SendUnstored, RequestFails, Excuse, TypeOK
  <2>3. SendUnstored(p) \/ RequestFails(p) => excuses'[k] = excuses[k] + 1
    BY DEF SendUnstored, RequestFails, Excuse, TypeOK
  <2> QED BY <2>1, <2>2, <2>3
<1>1. RepeatOK(k) /\ p \in InFlight(k)
  BY <1>0 DEF RepeatInv, InFlight
<1>2. /\ request[p] \in Request
      /\ k # Absent
      /\ request[p].step \in AfterMaking => request[p].reply \in Reply
  BY Requests, AbsentAssumption
<1>b. made[k] \in Nat
  BY DEF TypeOK
\* A step on the way to the first answer.
<1>3. ASSUME NEW r, Goto(p, r), r.key = k, UNCHANGED <<records, answers>>, Unanswered(k),
             r.step \in Before => made'[k] = 0,
             r.step \in AfterMaking => Names(k, r.reply)'
      PROVE  RepeatOK(k)'
  <2>1. InFlight(k)' = {p} /\ request'[p] = r
    BY <1>1, <1>3, RepeatOwn
  <2> QED BY <1>3, <2>1 DEF RepeatOK, Unanswered
<1>4. CASE FindKey(p)
  <2>0. request[p].step = "findKey" /\ UNCHANGED <<made, records, answers>>
    BY <1>4 DEF FindKey
  <2>1. CASE Fresh(k) /\ Send(p, records[k].reply)
    <3>1. Answered(k)
      BY <1>1, <2>1 DEF RepeatOK, Unanswered, Fresh
    <3>2. PICK r : r = [step |-> "send", key |-> k, reply |-> records[k].reply]
      OBVIOUS
    <3>3. InFlight(k)' = {p} /\ request'[p] = r
      BY <1>1, <2>1, <3>2, RepeatOwn DEF Send
    <3> QED BY <2>0, <3>1, <3>2, <3>3 DEF RepeatOK, Answered, Fresh, Names
  <2>2. CASE ~ Fresh(k)
    <3>1. Unanswered(k) /\ made[k] = 0
      BY <1>1, <2>0, <2>2 DEF RepeatOK, Answered, Unanswered, Before
    <3>2. CASE Send(p, Refused)
      BY <1>3, <2>0, <3>1, <3>2 DEF Send, Refused, Names, Before
    <3>3. CASE Await(p, IF OperationOf[k] = "createSession" THEN "findSession" ELSE "checkQuote")
      BY <1>3, <2>0, <3>1, <3>3 DEF Await, AfterMaking
    <3> QED BY <1>4, <2>2, <3>2, <3>3 DEF FindKey
  <2> QED BY <1>4, <2>1, <2>2 DEF FindKey
\* What remains is only reached by the first request.
<1>5. ASSUME request[p].step \in {"findSession", "insertSession", "checkQuote", "placeOrder", "recordOrder"}
      PROVE  Unanswered(k)
  BY <1>1, <1>5 DEF RepeatOK, Answered
<1>6. CASE FindSession(p)
  <2>0. request[p].step = "findSession" /\ UNCHANGED <<made, records, answers>>
    BY <1>6 DEF FindSession
  <2>1. Unanswered(k) /\ made[k] = 0
    BY <1>1, <1>5, <2>0 DEF Unanswered, Before
  <2>2. Await(p, "insertSession")
    BY <1>6, <2>1 DEF FindSession
  <2> QED BY <1>3, <2>0, <2>1, <2>2 DEF Await, AfterMaking
<1>7. CASE InsertSession(p)
  <2>0. request[p].step = "insertSession" /\ UNCHANGED <<records, answers>>
    BY <1>7 DEF InsertSession
  <2>1. Unanswered(k) /\ made[k] = 0
    BY <1>1, <1>5, <2>0 DEF Unanswered, Before
  <2>2. made'[k] = 1 /\ Send(p, Done(1))
    BY <1>7, <2>1 DEF InsertSession, TypeOK
  <2> QED BY <1>3, <2>0, <2>1, <2>2 DEF Send, Done, Names, Before
<1>8. CASE CheckQuote(p)
  <2>0. request[p].step = "checkQuote" /\ UNCHANGED <<made, records, answers>>
    BY <1>8 DEF CheckQuote
  <2>1. Unanswered(k) /\ made[k] = 0
    BY <1>1, <1>5, <2>0 DEF Unanswered, Before
  <2>2. CASE Send(p, Refused)
    BY <1>3, <2>0, <2>1, <2>2 DEF Send, Refused, Names, Before
  <2>3. CASE Await(p, "placeOrder")
    BY <1>3, <2>0, <2>1, <2>3 DEF Await, AfterMaking
  <2> QED BY <1>8, <2>2, <2>3 DEF CheckQuote
<1>9. CASE PlaceOrder(p)
  <2>0. request[p].step = "placeOrder" /\ UNCHANGED <<records, answers>>
    BY <1>9 DEF PlaceOrder
  <2>1. made'[k] = made[k] + 1
    BY <1>9 DEF PlaceOrder, TypeOK
  <2>2. PICK r : r = [step |-> "recordOrder", key |-> k, reply |-> Done(made[k] + 1)]
    OBVIOUS
  <2>3. Goto(p, r)
    BY <1>9, <2>2 DEF PlaceOrder
  <2> QED BY <1>3, <1>5, <2>0, <2>1, <2>2, <2>3 DEF Done, Names, Before
<1>10. CASE RecordOrder(p)
  <2>0. request[p].step = "recordOrder" /\ UNCHANGED <<made, records, answers>>
    BY <1>10 DEF RecordOrder
  <2>1. Unanswered(k) /\ Names(k, request[p].reply)
    BY <1>1, <1>5, <2>0 DEF Unanswered, AfterMaking
  <2>2. CASE Send(p, request[p].reply)
    BY <1>3, <2>0, <2>1, <2>2 DEF Send, Names, Before
  <2>3. CASE Send(p, Refused)
    BY <1>3, <2>0, <2>1, <2>3 DEF Send, Refused, Names, Before
  <2> QED BY <1>10, <2>2, <2>3 DEF RecordOrder
<1>11. CASE SendAnswer(p)
  <2> DEFINE reply == request[p].reply
  <2>0. request[p].step = "send" /\ made' = made /\ Finish(p)
    BY <1>11 DEF SendAnswer
  <2>1. Names(k, reply)
    BY <1>1, <2>0 DEF RepeatOK, Unanswered, Answered, AfterMaking
  <2>2. answers[k] \subseteq {reply}
    BY <1>1, <2>0 DEF RepeatOK, Unanswered, Answered
  <2>3. /\ records'[k] = [reply |-> reply, fresh |-> TRUE]
        /\ answers'[k] = {reply}
    BY <1>11, <2>2 DEF SendAnswer, TypeOK
  <2>4. InFlight(k)' = {}
    BY <1>1, <1>2, <2>0, RepeatOwn DEF Finish, NoRequest
  <2>5. records'[k] # Absent
    <3>1. [reply |-> reply, fresh |-> TRUE] \in Record
      BY <1>2, <2>0 DEF Record, AfterMaking
    <3> QED BY <2>3, <3>1, AbsentAssumption
  <2> QED BY <2>0, <2>1, <2>3, <2>4, <2>5 DEF RepeatOK, Answered, Fresh, Names
<1> QED BY <1>0, <1>4, <1>6, <1>7, <1>8, <1>9, <1>10, <1>11 DEF Step

LEMMA RepeatNext == TypeOK /\ RepeatInv /\ [Next]_vars => RepeatInv'
<1> SUFFICES ASSUME TypeOK, RepeatInv, [Next]_vars, NEW j \in Keys, excuses'[j] = 0
             PROVE  RepeatOK(j)'
  BY DEF RepeatInv
<1>1. ASSUME NEW p \in Workers, NEW k \in Keys, Begin(p, k)
      PROVE  RepeatOK(j)'
  <2>1. UNCHANGED <<made, records, answers>> /\ request[p].step = "none"
    BY <1>1 DEF Begin
  <2>2. /\ request'[p] = [step |-> "findKey", key |-> k, reply |-> Absent]
        /\ \A q \in Workers \ {p} : request'[q] = request[q]
    BY <1>1 DEF Begin, Goto, TypeOK
  <2>3. request[p].key = Absent /\ Absent \notin Keys
    BY <2>1, Requests, AbsentAssumption
  <2>4. CASE j # k
    <3>1. InFlight(j)' = InFlight(j) /\ p \notin InFlight(j)
      BY <2>2, <2>3, <2>4 DEF InFlight
    <3>2. excuses'[j] = excuses[j]
      BY <1>1, <2>4 DEF Begin, Excuse, TypeOK
    <3>3. \A q \in InFlight(j) : request'[q] = request[q]
      BY <2>2, <3>1 DEF InFlight
    <3>4. RepeatOK(j)
      BY <3>2 DEF RepeatInv
    <3> QED BY <2>1, <3>1, <3>3, <3>4 DEF RepeatOK, Unanswered, Answered, Names, Fresh
  <2>5. CASE j = k
    <3>1. InFlight(j) = {} /\ excuses[j] = 0
      BY <1>1, <2>5 DEF Begin, Excuse, TypeOK
    <3>2. RepeatOK(j)
      BY <3>1 DEF RepeatInv
    <3>3. InFlight(j)' = {p}
      BY <2>2, <2>5, <3>1 DEF InFlight
    <3> QED BY <2>1, <2>2, <3>1, <3>2, <3>3
            DEF RepeatOK, Unanswered, Answered, Names, Fresh, AfterMaking
  <2> QED BY <2>4, <2>5
<1>2. ASSUME NEW k \in Keys, Expire(k)
      PROVE  RepeatOK(j)'
  <2>1. j # k /\ excuses[j] = 0
    BY <1>2 DEF Expire, Excuse, TypeOK
  <2>2. records'[j] = records[j] /\ UNCHANGED <<made, request, answers>>
    BY <1>2, <2>1 DEF Expire, TypeOK
  <2> QED BY <2>1, <2>2 DEF RepeatInv, RepeatOK, Unanswered, Answered, Names, Fresh, InFlight
<1>3. CASE UNCHANGED vars
  BY <1>3 DEF vars, RepeatInv, RepeatOK, Unanswered, Answered, Names, Fresh, InFlight
<1>4. ASSUME NEW p \in Workers, Step(p)
      PROVE  RepeatOK(j)'
  BY <1>4, RepeatOther, RepeatStep
<1> QED BY <1>1, <1>2, <1>3, <1>4 DEF Next

\* A client that waits for each answer and is given it hears the same answer
\* every time, of success or of refusal, until the record expires.
THEOREM RepeatsAgreed == Spec => []RepeatsAgree
<1>1. Init => TypeOK /\ RepeatInv
  BY TypeInit, RepeatInvInit
<1>2. TypeOK /\ RepeatInv /\ [Next]_vars => (TypeOK /\ RepeatInv)'
  BY TypeNext, RepeatNext
<1> QED BY <1>1, <1>2, RepeatInvSuffices, PTL DEF Spec

=============================================================================
