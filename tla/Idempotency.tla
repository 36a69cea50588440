----------------------------- MODULE Idempotency -----------------------------
(***************************************************************************)
(* Requests with an Idempotency-Key: the middleware before and after a     *)
(* handler, around the two handlers that make something a repetition must  *)
(* not make again, POST /server/sessions and POST /client/orders.          *)
(*                                                                         *)
(* A request looks its key up, runs the handler if no answer is on record, *)
(* and stores the answer just before it is sent.  The three are separate   *)
(* statements: nothing reserves a key while its first request runs.  The   *)
(* database knows one constraint that helps, sessions.idempotency_key is   *)
(* unique; orders have none.                                               *)
(*                                                                         *)
(* A client uses a key for one operation with one body.  Left out: what    *)
(* an answer contains besides the row it names; the end user, upserted     *)
(* before the session; integrators other than the one who drew the key;    *)
(* what submitOrder does to quotes and sessions (module Settlement).       *)
(***************************************************************************)
EXTENDS Naturals, FiniteSets

CONSTANTS
  Keys,         \* idempotency keys clients have drawn
  Workers,      \* activations of request handlers that may overlap
  OperationOf,  \* what each key is used for
  Malformed,    \* keys of requests whose body the handler refuses to parse
  MayFail,      \* whether a statement may fail, or the process die
  MaxRequests,  \* bound on requests
  MaxExpiries,  \* bound on records that expire
  Absent        \* no row, no key, no answer

ASSUME WorkersAssumption == IsFiniteSet(Workers)
ASSUME OperationAssumption == OperationOf \in [Keys -> {"createSession", "submitOrder"}]
ASSUME MalformedAssumption == Malformed \subseteq Keys
ASSUME FailAssumption == MayFail \in BOOLEAN
ASSUME BoundAssumption == MaxRequests \in Nat /\ MaxExpiries \in Nat

VARIABLES
  records,      \* idempotency_keys: the answer stored for each key, if any
  made,         \* rows of sessions, or orders at the provider, made for a key
  request,      \* what each worker is doing
  answers,      \* history: the answers sent to requests with each key
  requests,     \* requests so far
  expiries,     \* records expired so far
  excuses       \* history: overlaps, failures and expiries each key has seen

vars == <<records, made, request, answers, requests, expiries, excuses>>

-----------------------------------------------------------------------------

\* An answer below 500: done, naming the n-th row made for the key, or refused.
Reply == [status : {"done", "refused"}, row : Nat]

Done(n) == [status |-> "done", row |-> n]
Refused == [status |-> "refused", row |-> 0]

Record == [reply : Reply, fresh : BOOLEAN]

ASSUME AbsentAssumption == Absent \notin Keys \cup Record

\* What a request awaits before it has made anything, and after.
Before == {"findKey", "findSession", "insertSession", "checkQuote", "placeOrder"}
AfterMaking == {"recordOrder", "send"}

Request ==
  [step : {"none"}, key : {Absent}, reply : {Absent}]
    \cup [step : Before, key : Keys, reply : {Absent}]
    \cup [step : AfterMaking, key : Keys, reply : Reply]

NoRequest == [step |-> "none", key |-> Absent, reply |-> Absent]

InFlight(k) == {p \in Workers : request[p].key = k}

Fresh(k) == records[k] # Absent /\ records[k].fresh

Goto(p, r) == request' = [request EXCEPT ![p] = r]
Finish(p) == Goto(p, NoRequest)
Await(p, step) == Goto(p, [step |-> step, key |-> request[p].key, reply |-> Absent])
Send(p, reply) == Goto(p, [step |-> "send", key |-> request[p].key, reply |-> reply])

Excuse(k) == excuses' = [excuses EXCEPT ![k] = @ + 1]

-----------------------------------------------------------------------------

\* A client may repeat a request whenever it likes.
Begin(p, k) ==
  /\ request[p].step = "none"
  /\ requests < MaxRequests
  /\ requests' = requests + 1
  /\ Goto(p, [step |-> "findKey", key |-> k, reply |-> Absent])
  /\ IF InFlight(k) # {} THEN Excuse(k) ELSE UNCHANGED excuses
  /\ UNCHANGED <<records, made, answers, expiries>>

\* preHandler: replay the answer on record, or go on to the handler, which
\* first looks at the body.
FindKey(p) ==
  LET k == request[p].key
  IN /\ request[p].step = "findKey"
     /\ \/ Fresh(k) /\ Send(p, records[k].reply)
        \/ ~ Fresh(k) /\ k \in Malformed /\ Send(p, Refused)
        \/ /\ ~ Fresh(k) /\ k \notin Malformed
           /\ Await(p, IF OperationOf[k] = "createSession" THEN "findSession" ELSE "checkQuote")
     /\ UNCHANGED <<records, made, answers, requests, expiries, excuses>>

\* createSession: a session made with this key, however long ago, is answered.
FindSession(p) ==
  LET k == request[p].key
  IN /\ request[p].step = "findSession"
     /\ \/ \E n \in 1..made[k] : Send(p, Done(n))
        \/ made[k] = 0 /\ Await(p, "insertSession")
     /\ UNCHANGED <<records, made, answers, requests, expiries, excuses>>

\* Mutant: the table has no unique constraint on the key.
InsertSessionUnconstrained(p) ==
  LET k == request[p].key
  IN /\ request[p].step = "insertSession"
     /\ made' = [made EXCEPT ![k] = @ + 1]
     /\ Send(p, Done(made[k] + 1))
     /\ UNCHANGED <<records, answers, requests, expiries, excuses>>

\* INSERT: a second row with the key breaks the unique constraint, which the
\* route rethrows as a 500.
InsertSession(p) ==
  LET k == request[p].key
  IN /\ request[p].step = "insertSession"
     /\ \/ /\ made[k] = 0
           /\ made' = [made EXCEPT ![k] = 1]
           /\ Send(p, Done(1))
        \/ made[k] # 0 /\ Finish(p) /\ UNCHANGED made
     /\ UNCHANGED <<records, answers, requests, expiries, excuses>>

-----------------------------------------------------------------------------

\* submitOrder: the session and the quote may not be fit for an order.
CheckQuote(p) ==
  /\ request[p].step = "checkQuote"
  /\ Send(p, Refused) \/ Await(p, "placeOrder")
  /\ UNCHANGED <<records, made, answers, requests, expiries, excuses>>

\* The provider has taken the order.
PlaceOrder(p) ==
  LET k == request[p].key
  IN /\ request[p].step = "placeOrder"
     /\ made' = [made EXCEPT ![k] = @ + 1]
     /\ Goto(p, [step |-> "recordOrder", key |-> k, reply |-> Done(made[k] + 1)])
     /\ UNCHANGED <<records, answers, requests, expiries, excuses>>

\* INSERT the order and move the session, which may not be in a state to move.
RecordOrder(p) ==
  /\ request[p].step = "recordOrder"
  /\ Send(p, request[p].reply) \/ Send(p, Refused)
  /\ UNCHANGED <<records, made, answers, requests, expiries, excuses>>

-----------------------------------------------------------------------------

\* Mutant: only answers of success are stored.
SendAnswerIfDone(p) ==
  LET k == request[p].key
      reply == request[p].reply
  IN /\ request[p].step = "send"
     /\ records' = IF reply.status = "done"
                   THEN [records EXCEPT ![k] = [reply |-> reply, fresh |-> TRUE]]
                   ELSE records
     /\ answers' = [answers EXCEPT ![k] = @ \cup {reply}]
     /\ Finish(p)
     /\ UNCHANGED <<made, requests, expiries, excuses>>

\* onSend: upsert the answer, a replayed one too, with a new time of expiry;
\* then send it.
SendAnswer(p) ==
  LET k == request[p].key
      reply == request[p].reply
  IN /\ request[p].step = "send"
     /\ records' = [records EXCEPT ![k] = [reply |-> reply, fresh |-> TRUE]]
     /\ answers' = [answers EXCEPT ![k] = @ \cup {reply}]
     /\ Finish(p)
     /\ UNCHANGED <<made, requests, expiries, excuses>>

\* A failure to store is logged, and the answer sent all the same.
SendUnstored(p) ==
  LET k == request[p].key
  IN /\ MayFail
     /\ request[p].step = "send"
     /\ answers' = [answers EXCEPT ![k] = @ \cup {request[p].reply}]
     /\ Excuse(k)
     /\ Finish(p)
     /\ UNCHANGED <<records, made, requests, expiries>>

\* Mutant: a 500 is stored like any other answer.
RequestFailsStored(p) ==
  /\ MayFail
  /\ request[p].step # "none"
  /\ records' = [records EXCEPT ![request[p].key] =
       [reply |-> [status |-> "error", row |-> 0], fresh |-> TRUE]]
  /\ Excuse(request[p].key)
  /\ Finish(p)
  /\ UNCHANGED <<made, answers, requests, expiries>>

\* The statement awaited fails and the request is answered 500, which is never
\* stored; or the process dies.
RequestFails(p) ==
  /\ MayFail
  /\ request[p].step # "none"
  /\ Excuse(request[p].key)
  /\ Finish(p)
  /\ UNCHANGED <<records, made, answers, requests, expiries>>

\* expires_at > NOW() is no longer true.
Expire(k) ==
  /\ Fresh(k)
  /\ expiries < MaxExpiries
  /\ expiries' = expiries + 1
  /\ records' = [records EXCEPT ![k].fresh = FALSE]
  /\ Excuse(k)
  /\ UNCHANGED <<made, request, answers, requests>>

-----------------------------------------------------------------------------

Init ==
  /\ records = [k \in Keys |-> Absent]
  /\ made = [k \in Keys |-> 0]
  /\ request = [p \in Workers |-> NoRequest]
  /\ answers = [k \in Keys |-> {}]
  /\ requests = 0
  /\ expiries = 0
  /\ excuses = [k \in Keys |-> 0]

Step(p) ==
  \/ FindKey(p)
  \/ FindSession(p)
  \/ InsertSession(p)
  \/ CheckQuote(p)
  \/ PlaceOrder(p)
  \/ RecordOrder(p)
  \/ SendAnswer(p)
  \/ SendUnstored(p)
  \/ RequestFails(p)

Next ==
  \/ \E p \in Workers, k \in Keys : Begin(p, k)
  \/ \E p \in Workers : Step(p)
  \/ \E k \in Keys : Expire(k)

Spec == Init /\ [][Next]_vars

-----------------------------------------------------------------------------
(***************************************************************************)
(* Properties                                                              *)
(***************************************************************************)

TypeOK ==
  /\ records \in [Keys -> Record \cup {Absent}]
  /\ made \in [Keys -> Nat]
  /\ request \in [Workers -> Request]
  /\ answers \in [Keys -> SUBSET Reply]
  /\ requests \in 0..MaxRequests
  /\ expiries \in 0..MaxExpiries
  /\ excuses \in [Keys -> Nat]

\* A key makes one session, and all its requests that are answered below 500
\* are answered with that session, or all of them refused, whether the answer
\* comes from the record, from the session found again after the record expired,
\* or from the handler of a request that overlapped another or repeated a failed
\* one.
OneSessionPerKey ==
  \A k \in Keys :
    OperationOf[k] = "createSession" =>
      /\ made[k] <= 1
      /\ \A r1, r2 \in answers[k] : r1 = r2
      /\ \A r \in answers[k] : r.status = "done" => made[k] = 1

\* Every order beyond the first that a key places has an excuse of its own: a
\* request that overlapped another, one that failed or was not recorded, or a
\* record that expired.  A client that waits for its answer, and is given one,
\* places one order.
ExtraOrdersExcused ==
  \A k \in Keys : made[k] <= 1 + excuses[k]

\* While no request with a key has overlapped another, failed or gone
\* unrecorded, and its record has not expired, all its answers are one answer,
\* and one that names a row names the row last made: a refusal is as final as a
\* success, and an order placed by a repetition would be answered differently.
RepeatsAgree ==
  \A k \in Keys :
    excuses[k] = 0 =>
      /\ \A r1, r2 \in answers[k] : r1 = r2
      /\ \A r \in answers[k] : r.status = "done" => r.row = made[k]

\* A key is processed once as long as its record has not expired.
ProcessedOnce ==
  \A k \in Keys : expiries = 0 => made[k] <= 1

=============================================================================
