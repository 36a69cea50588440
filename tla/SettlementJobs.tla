--------------------------- MODULE SettlementJobs ---------------------------
(***************************************************************************)
(* From quote to fill: the quote and order routes of the client API, the   *)
(* processor that polls the routing provider for an order's status, and    *)
(* the BCB deposit webhook, running as workers over the same tables.       *)
(*                                                                         *)
(* A worker runs one job.  A job is a sequence of awaited statements; each *)
(* action below is one statement together with the code up to the next     *)
(* await, so any other worker may run between two actions.  The values a   *)
(* job has read and will use again are in its record: copies, that other   *)
(* workers do not refresh.  transition() is called through call[p]; the    *)
(* job resumes when it has returned.                                       *)
(*                                                                         *)
(* This module has no Init or Next: Settlement runs the jobs for users who *)
(* have passed onboarding, Ramp beside the handlers of Onboarding.         *)
(*                                                                         *)
(* Left out: amounts, rates, the in-memory outbound delivery log, and bank *)
(* deliveries refused for their signature or carrying no credit, which     *)
(* leave an unprocessed inbox row and touch nothing else.                  *)
(***************************************************************************)
EXTENDS TransitionService, Naturals, Sequences, FiniteSets

CONSTANTS
  Deposits,       \* bank transactions
  PayerOf,        \* the user whose account a transaction credits, or Absent
  MaxQuotes,      \* bound on rows of quotes
  MaxLapses,      \* bound on quotes that run out of time
  MaxOrders,      \* bound on orders placed with the provider
  MaxInbox        \* bound on webhook deliveries

ASSUME WorkersAssumption == IsFiniteSet(Workers)
ASSUME SessionIdAssumption == Sessions \subseteq Nat \ {0}
ASSUME PayerOfAssumption == PayerOf \in [Deposits -> Users \cup {Absent}]
ASSUME AbsentUserAssumption == Absent \notin Users
ASSUME BoundAssumption ==
  {MaxQuotes, MaxLapses, MaxOrders, MaxInbox} \subseteq Nat

VARIABLES
  quotes,         \* rows of quotes, oldest first
  orders,         \* rows of orders, oldest first
  provider,       \* the routing provider's orders, oldest first
  inbox,          \* rows of webhook_inbox, oldest first
  credited,       \* fiat_deposit events of the ledger
  job             \* what each worker is doing

tables == <<quotes, orders, provider, inbox, credited>>

-----------------------------------------------------------------------------

Quote == [session : Sessions, status : {"ready", "accepted", "expired"}, lapsed : BOOLEAN]

ComplianceStatus == {"pending", "cleared", "rejected"}

\* An answer of the provider may leave the checkpoint out; the row then has null.
Reported == ComplianceStatus \cup {"none"}

Order ==
  [ session    : Sessions,
    quote      : Nat,
    provider   : Nat,
    compliance : Reported,
    status     : {"compliance_pending", "submitted", "filled", "failed"} ]

ProviderOrder == [compliance : ComplianceStatus, status : {"submitted", "filled"}]

InboxEntry == [deposit : Deposits, processed : BOOLEAN]

JobStep ==
  { "none",
    "expireQuotes", "quoteRequested", "createQuote", "quoteReady",
    "acceptQuote",
    "placeOrder", "createOrder", "orderSubmitted",
    "askProvider", "clearOrder", "rejectOrder", "fillOrder", "orderMoved",
    "findAccount", "findSessions", "findOrder", "recordDeposit",
    "fillFromDeposit", "depositMatched", "markProcessed" }

\* 0 stands for "not read"; answer is what the provider said of compliance when
\* it took the order, seen the copy of a session's state, row that of an order;
\* todo holds the sessions still to look at.
Job ==
  [ step     : JobStep,
    session  : Sessions \cup {0},
    quote    : Nat,
    order    : Nat,
    provider : Nat,
    inbox    : Nat,
    answer   : Reported,
    seen     : SessionState \cup {Absent},
    row      : Order \cup {Absent},
    todo     : SUBSET Sessions ]

NoJob == [step |-> "none", session |-> 0, quote |-> 0, order |-> 0, provider |-> 0,
          inbox |-> 0, answer |-> "none", seen |-> Absent, row |-> Absent, todo |-> {}]

Ids(table) == DOMAIN table

OrdersOf(s) == {o \in Ids(orders) : orders[o].session = s}

\* ORDER BY created_at DESC: rows are numbered as they are inserted.
Newest(x, rows) == x \in rows /\ \A y \in rows : y <= x

\* The job goes on to step, or ends, having changed nothing but itself.
Goto(p, j) == job' = [job EXCEPT ![p] = j]
Finish(p)  == job' = [job EXCEPT ![p] = NoJob]

\* The job calls transition() and waits at step for its result.
CallFrom(p, s, to, reason, j) == Ask(p, s, to, reason) /\ Goto(p, j)

Idle(p) == job[p].step = "none"

\* Rows that jobs under way will still insert count towards the bounds.
Pending(steps) == Cardinality({p \in Workers : job[p].step \in steps})
RoomForQuote == Len(quotes) + Pending({"expireQuotes", "quoteRequested", "createQuote"}) < MaxQuotes
RoomForOrder == Len(provider) + Pending({"placeOrder"}) < MaxOrders

-----------------------------------------------------------------------------
(***************************************************************************)
(* POST /client/quotes                                                     *)
(***************************************************************************)

RequestQuote(p, s) ==
  /\ Idle(p)
  /\ RoomForQuote
  /\ sessionState[s] # Absent
  /\ Goto(p, [NoJob EXCEPT !.step = "expireQuotes", !.session = s,
                           !.seen = sessionState[s]])
  /\ UNCHANGED <<serviceVars, tables>>

\* UPDATE quotes SET status = 'expired' WHERE status = 'ready' AND it lapsed.
\* A session already asking for a quote needs no transition to do so.
ExpireQuotes(p) ==
  LET j == job[p]
  IN /\ j.step = "expireQuotes"
     /\ quotes' = [q \in Ids(quotes) |->
          IF /\ quotes[q].session = j.session
             /\ quotes[q].status = "ready"
             /\ quotes[q].lapsed
          THEN [quotes[q] EXCEPT !.status = "expired"] ELSE quotes[q]]
     /\ \/ /\ j.seen # "quote_requested"
           /\ CallFrom(p, j.session, "quote_requested", "quote_requested",
                       [j EXCEPT !.step = "quoteRequested"])
        \/ /\ j.seen = "quote_requested"
           /\ Goto(p, [j EXCEPT !.step = "createQuote"])
           /\ UNCHANGED serviceVars
     /\ UNCHANGED <<orders, provider, inbox, credited>>

\* Mutant: the quote is made although the session was refused.
QuoteRequestedRegardless(p) ==
  /\ job[p].step = "quoteRequested"
  /\ ResultTaken(p, "ok") \/ Threw(p)
  /\ Goto(p, [job[p] EXCEPT !.step = "createQuote"])
  /\ UNCHANGED tables

QuoteRequested(p) ==
  /\ job[p].step = "quoteRequested"
  /\ \/ ResultTaken(p, "ok") /\ Goto(p, [job[p] EXCEPT !.step = "createQuote"])
     \/ Threw(p) /\ Finish(p)
  /\ UNCHANGED tables

\* The provider has priced the quote; INSERT it, ready.
CreateQuote(p) ==
  LET j == job[p]
  IN /\ j.step = "createQuote"
     /\ quotes' = Append(quotes, [session |-> j.session, status |-> "ready", lapsed |-> FALSE])
     /\ CallFrom(p, j.session, "quote_ready", "quote_created", [j EXCEPT !.step = "quoteReady"])
     /\ UNCHANGED <<orders, provider, inbox, credited>>

QuoteReady(p) ==
  /\ job[p].step = "quoteReady"
  /\ \/ ResultTaken(p, "ok")
     \/ Threw(p)
  /\ Finish(p)
  /\ UNCHANGED tables

\* isQuoteValid
Valid(q) == quotes[q].status = "ready" /\ ~ quotes[q].lapsed

\* POST /client/quotes/:quoteId/accept reads the quote ...
AcceptQuote(p, q) ==
  /\ Idle(p)
  /\ Valid(q)
  /\ Goto(p, [NoJob EXCEPT !.step = "acceptQuote", !.quote = q])
  /\ UNCHANGED <<serviceVars, tables>>

\* ... and then writes it.  No session changes.
WriteAccepted(p) ==
  /\ job[p].step = "acceptQuote"
  /\ quotes' = [quotes EXCEPT ![job[p].quote].status = "accepted"]
  /\ Finish(p)
  /\ UNCHANGED <<serviceVars, orders, provider, inbox, credited>>

-----------------------------------------------------------------------------
(***************************************************************************)
(* POST /client/orders                                                     *)
(***************************************************************************)

\* The quote must be the session's, and accepted or ready; neither the state
\* of the session nor the age of the quote is looked at.
SubmitOrder(p, s, q) ==
  /\ Idle(p)
  /\ RoomForOrder
  /\ sessionState[s] # Absent
  /\ quotes[q].session = s
  /\ quotes[q].status \in {"accepted", "ready"}
  /\ Goto(p, [NoJob EXCEPT !.step = "placeOrder", !.session = s, !.quote = q])
  /\ UNCHANGED <<serviceVars, tables>>

\* The provider's order, when it answered told to the submission.  (One that
\* decides on the spot and does not say so is one that decides right after.)
Placed(told) ==
  [compliance |-> IF told = "none" THEN "pending" ELSE told, status |-> "submitted"]

\* routing.submitOrder: from here on the provider has the order.
PlaceOrder(p) ==
  LET j == job[p]
  IN /\ j.step = "placeOrder"
     /\ \E told \in Reported :
          /\ provider' = Append(provider, Placed(told))
          /\ Goto(p, [j EXCEPT !.step = "createOrder", !.provider = Len(provider'),
                               !.answer = told])
     /\ UNCHANGED <<serviceVars, quotes, orders, inbox, credited>>

\* Mutant: the row keeps the column's default status.
CreateOrderUnsubmitted(p) ==
  LET j == job[p]
  IN /\ j.step = "createOrder"
     /\ orders' = Append(orders,
          [ session |-> j.session, quote |-> j.quote, provider |-> j.provider,
            compliance |-> j.answer, status |-> "pending_submission" ])
     /\ CallFrom(p, j.session, "compliance_pending", "order_submitted",
                 [j EXCEPT !.step = "orderSubmitted"])
     /\ UNCHANGED <<quotes, provider, inbox, credited>>

\* INSERT the order row with the provider's answer, then ask for the session to
\* move: to compliance_pending, whatever the answer was.
CreateOrder(p) ==
  LET j == job[p]
  IN /\ j.step = "createOrder"
     /\ orders' = Append(orders,
          [ session |-> j.session, quote |-> j.quote, provider |-> j.provider,
            compliance |-> j.answer, status |-> "compliance_pending" ])
     /\ CallFrom(p, j.session, "compliance_pending", "order_submitted",
                 [j EXCEPT !.step = "orderSubmitted"])
     /\ UNCHANGED <<quotes, provider, inbox, credited>>

OrderSubmitted(p) ==
  /\ job[p].step = "orderSubmitted"
  /\ \/ ResultTaken(p, "ok")
     \/ Threw(p)
  /\ Finish(p)
  /\ UNCHANGED tables

-----------------------------------------------------------------------------
(***************************************************************************)
(* processOrderStatusUpdate                                                *)
(***************************************************************************)

\* The job is about an order known by its provider id.
PollOrder(p, o) ==
  /\ Idle(p)
  /\ Goto(p, [NoJob EXCEPT !.step = "askProvider", !.order = o,
                           !.session = orders[o].session, !.provider = orders[o].provider])
  /\ UNCHANGED <<serviceVars, tables>>

\* Mutant: whatever is not a rejection is taken for clearance.
AskProviderOptimist(p) ==
  LET j == job[p]
  IN /\ j.step = "askProvider"
     /\ Goto(p, [j EXCEPT !.step = IF provider[j.provider].compliance = "rejected"
                                   THEN "rejectOrder" ELSE "clearOrder"])
     /\ UNCHANGED <<serviceVars, tables>>

\* Mutant: whatever is not a clearance or a fill is taken for a rejection.
AskProviderPessimist(p) ==
  LET j == job[p]
      answer == provider[j.provider]
  IN /\ j.step = "askProvider"
     /\ Goto(p, [j EXCEPT !.step =
          CASE answer.compliance = "cleared" -> "clearOrder"
            [] answer.compliance = "pending" /\ answer.status = "filled" -> "fillOrder"
            [] OTHER -> "rejectOrder"])
     /\ UNCHANGED <<serviceVars, tables>>

\* The provider's answer picks the branch: clearance is looked at before the
\* fill.  (The session is read next, for its direction, which never changes.)
AskProvider(p) ==
  LET j == job[p]
      answer == provider[j.provider]
  IN /\ j.step = "askProvider"
     /\ \E told \in {answer.compliance, "none"} :
          \/ /\ told = "cleared"
             /\ Goto(p, [j EXCEPT !.step = "clearOrder"])
          \/ /\ told = "rejected"
             /\ Goto(p, [j EXCEPT !.step = "rejectOrder"])
          \/ /\ told \notin {"cleared", "rejected"}
             /\ answer.status = "filled"
             /\ DirectionOf[j.session] = "on_ramp"
             /\ Goto(p, [j EXCEPT !.step = "fillOrder"])
          \/ /\ told \notin {"cleared", "rejected"}
             /\ answer.status = "filled" => DirectionOf[j.session] # "on_ramp"
             /\ Finish(p)
     /\ UNCHANGED <<serviceVars, tables>>

\* updateComplianceStatus
WriteOrder(o, compliance, status) ==
  orders' = [orders EXCEPT ![o] = [@ EXCEPT !.compliance = compliance, !.status = status]]

\* The session stays where it is.
ClearOrder(p) ==
  /\ job[p].step = "clearOrder"
  /\ WriteOrder(job[p].order, "cleared", "submitted")
  /\ Finish(p)
  /\ UNCHANGED <<serviceVars, quotes, provider, inbox, credited>>

RejectOrder(p) ==
  LET j == job[p]
  IN /\ j.step = "rejectOrder"
     /\ WriteOrder(j.order, "rejected", "failed")
     /\ CallFrom(p, j.session, "failed", "compliance_rejected",
                 [j EXCEPT !.step = "orderMoved"])
     /\ UNCHANGED <<quotes, provider, inbox, credited>>

FillOrder(p) ==
  LET j == job[p]
  IN /\ j.step = "fillOrder"
     /\ WriteOrder(j.order, "cleared", "filled")
     /\ CallFrom(p, j.session, "order_filled", "order_filled",
                 [j EXCEPT !.step = "orderMoved"])
     /\ UNCHANGED <<quotes, provider, inbox, credited>>

OrderMoved(p) ==
  /\ job[p].step = "orderMoved"
  /\ \/ ResultTaken(p, "ok")
     \/ Threw(p)
  /\ Finish(p)
  /\ UNCHANGED tables

-----------------------------------------------------------------------------
(***************************************************************************)
(* POST /webhooks/bcb: handleBcbWebhook, then processBcbDeposit            *)
(***************************************************************************)

\* Every delivery is stored, also one of a transaction seen before.
ReceiveDeposit(p, d) ==
  /\ Idle(p)
  /\ Len(inbox) < MaxInbox
  /\ inbox' = Append(inbox, [deposit |-> d, processed |-> FALSE])
  /\ Goto(p, [NoJob EXCEPT !.step = "findAccount", !.inbox = Len(inbox')])
  /\ UNCHANGED <<serviceVars, quotes, orders, provider, credited>>

Payer(j) == PayerOf[inbox[j.inbox].deposit]

FindAccount(p) ==
  LET j == job[p]
  IN /\ j.step = "findAccount"
     /\ \/ /\ Payer(j) = Absent
           /\ Goto(p, [j EXCEPT !.step = "markProcessed"])
        \/ /\ Payer(j) # Absent
           /\ Goto(p, [j EXCEPT !.step = "findSessions"])
     /\ UNCHANGED <<serviceVars, tables>>

\* findActiveByUserId
ActiveSessions(u) ==
  {s \in Sessions : UserOf[s] = u /\ sessionState[s] \notin TERMINAL_STATES \cup {Absent}}

FindSessions(p) ==
  LET j == job[p]
  IN /\ j.step = "findSessions"
     /\ Goto(p, [j EXCEPT !.step = "findOrder", !.todo = ActiveSessions(Payer(j))])
     /\ UNCHANGED <<serviceVars, tables>>

\* The deposit job j matched to session s and its order o.
WithOrder(j, s, o) ==
  [j EXCEPT !.step = "recordDeposit", !.session = s, !.order = o,
            !.row = orders[o], !.todo = {}]

\* Mutant: an unmatched deposit is dropped without being marked.
FindOrderOrDrop(p) ==
  LET j == job[p]
  IN /\ j.step = "findOrder"
     /\ \/ j.todo = {} /\ Finish(p)
        \/ \E s \in j.todo :
             /\ Newest(s, j.todo)
             /\ \/ OrdersOf(s) = {} /\ Goto(p, [j EXCEPT !.todo = @ \ {s}])
                \/ \E o \in OrdersOf(s) : Newest(o, OrdersOf(s)) /\ Goto(p, WithOrder(j, s, o))
     /\ UNCHANGED <<serviceVars, tables>>

\* The newest of the sessions that has an order; the order row is copied.
FindOrder(p) ==
  LET j == job[p]
  IN /\ j.step = "findOrder"
     /\ \/ j.todo = {} /\ Goto(p, [j EXCEPT !.step = "markProcessed"])
        \/ \E s \in j.todo :
             /\ Newest(s, j.todo)
             /\ \/ OrdersOf(s) = {} /\ Goto(p, [j EXCEPT !.todo = @ \ {s}])
                \/ \E o \in OrdersOf(s) : Newest(o, OrdersOf(s)) /\ Goto(p, WithOrder(j, s, o))
     /\ UNCHANGED <<serviceVars, tables>>

\* Mutant: the provider's clearance is not asked for.
isOffRampFillUncleared(j) ==
  /\ DirectionOf[j.session] = "off_ramp"
  /\ j.row.status \in {"submitted", "compliance_pending"}

\* Mutant: an order that clearance has moved to submitted is overlooked.
isOffRampFillUnsubmitted(j) ==
  /\ DirectionOf[j.session] = "off_ramp"
  /\ j.row.compliance = "cleared"
  /\ j.row.status = "compliance_pending"

isOffRampFill(j) ==
  /\ DirectionOf[j.session] = "off_ramp"
  /\ j.row.compliance = "cleared"
  /\ j.row.status \in {"submitted", "compliance_pending"}

\* Mutant: a deposit that fills an order has no ledger event of its own.
RecordDepositUnlessFill(p) ==
  LET j == job[p]
  IN /\ j.step = "recordDeposit"
     /\ credited' = IF isOffRampFill(j) THEN credited
                    ELSE credited \cup {[inbox |-> j.inbox, session |-> j.session]}
     /\ Goto(p, [j EXCEPT !.step = IF isOffRampFill(j) THEN "fillFromDeposit"
                                                       ELSE "markProcessed"])
     /\ UNCHANGED <<serviceVars, quotes, orders, provider, inbox>>

\* The fiat_deposit event is written for any matched session.
RecordDeposit(p) ==
  LET j == job[p]
  IN /\ j.step = "recordDeposit"
     /\ credited' = credited \cup {[inbox |-> j.inbox, session |-> j.session]}
     /\ Goto(p, [j EXCEPT !.step = IF isOffRampFill(j) THEN "fillFromDeposit"
                                                       ELSE "markProcessed"])
     /\ UNCHANGED <<serviceVars, quotes, orders, provider, inbox>>

\* updateStatus(order, filled), decided on the copy.
FillFromDeposit(p) ==
  LET j == job[p]
  IN /\ j.step = "fillFromDeposit"
     /\ orders' = [orders EXCEPT ![j.order].status = "filled"]
     /\ CallFrom(p, j.session, "order_filled", "fiat_deposit_matched",
                 [j EXCEPT !.step = "depositMatched"])
     /\ UNCHANGED <<quotes, provider, inbox, credited>>

DepositMatched(p) ==
  /\ job[p].step = "depositMatched"
  /\ \/ ResultTaken(p, "ok") /\ Goto(p, [job[p] EXCEPT !.step = "markProcessed"])
     \/ Threw(p) /\ Finish(p)
  /\ UNCHANGED tables

MarkProcessed(p) ==
  LET j == job[p]
  IN /\ j.step = "markProcessed"
     /\ inbox' = [inbox EXCEPT ![j.inbox].processed = TRUE]
     /\ Finish(p)
     /\ UNCHANGED <<serviceVars, quotes, orders, provider, credited>>

-----------------------------------------------------------------------------
(***************************************************************************)
(* The world outside                                                       *)
(***************************************************************************)

QuoteLapses(q) ==
  /\ ~ quotes[q].lapsed
  /\ Cardinality({r \in Ids(quotes) : quotes[r].lapsed}) < MaxLapses
  /\ quotes' = [quotes EXCEPT ![q].lapsed = TRUE]
  /\ UNCHANGED <<serviceVars, orders, provider, inbox, credited, job>>

\* The provider decides once, and never rejects what it has filled.
ProviderDecides(k, verdict) ==
  /\ provider[k].compliance = "pending"
  /\ verdict = "rejected" => provider[k].status # "filled"
  /\ provider' = [provider EXCEPT ![k].compliance = verdict]
  /\ UNCHANGED <<serviceVars, quotes, orders, inbox, credited, job>>

ProviderFills(k) ==
  /\ provider[k].status = "submitted"
  /\ provider[k].compliance # "rejected"
  /\ provider' = [provider EXCEPT ![k].status = "filled"]
  /\ UNCHANGED <<serviceVars, quotes, orders, inbox, credited, job>>

\* The statement a job awaits outside transition() fails, or the process dies
\* there: the job is gone and what it wrote stays.
JobFails(p) ==
  /\ MayFail
  /\ ~ Idle(p)
  /\ call[p].step = "idle"
  /\ Finish(p)
  /\ UNCHANGED <<serviceVars, tables>>

\* A job goes on.
JobStepOf(p) ==
  \/ ExpireQuotes(p) \/ QuoteRequested(p) \/ CreateQuote(p) \/ QuoteReady(p)
  \/ WriteAccepted(p)
  \/ PlaceOrder(p) \/ CreateOrder(p) \/ OrderSubmitted(p)
  \/ AskProvider(p) \/ ClearOrder(p) \/ RejectOrder(p) \/ FillOrder(p) \/ OrderMoved(p)
  \/ FindAccount(p) \/ FindSessions(p) \/ FindOrder(p) \/ RecordDeposit(p)
  \/ FillFromDeposit(p) \/ DepositMatched(p) \/ MarkProcessed(p)

-----------------------------------------------------------------------------
(***************************************************************************)
(* What the jobs promise, whatever runs beside them                        *)
(***************************************************************************)

\* An order keeps to the quote of its own session, and its provider id to an
\* order the provider has.
TablesTyped ==
  /\ quotes \in Seq(Quote)
  /\ orders \in Seq(Order)
  /\ \A o \in Ids(orders) :
       /\ orders[o].quote \in Ids(quotes)
       /\ quotes[orders[o].quote].session = orders[o].session
       /\ orders[o].provider \in Ids(provider)
  /\ provider \in Seq(ProviderOrder)
  /\ inbox \in Seq(InboxEntry)
  /\ credited \subseteq [inbox : Ids(inbox), session : Sessions]
  /\ job \in [Workers -> Job]

ProviderOf(o) == provider[orders[o].provider]

\* A session is only ever filled on a settlement: an off-ramp session has a
\* deposit in the ledger and an order the provider cleared, an on-ramp session
\* an order the provider filled, whatever ran in between.
FilledOnSettlement ==
  \A s \in Sessions :
    sessionState[s] = "order_filled" =>
      \E o \in OrdersOf(s) :
        \/ /\ DirectionOf[s] = "on_ramp"
           /\ ProviderOf(o).status = "filled"
        \/ /\ DirectionOf[s] = "off_ramp"
           /\ ProviderOf(o).compliance = "cleared"
           /\ \E c \in credited : c.session = s

\* A session only ever fails on a rejection: some order of its was refused by
\* the provider, whichever poll heard of it and however late it wrote so.
FailedOnRejection ==
  \A s \in Sessions :
    sessionState[s] = "failed" =>
      \E o \in OrdersOf(s) : ProviderOf(o).compliance = "rejected"

\* What an order row says of the compliance checkpoint is what the provider
\* decided, although it is written after the provider was asked.
RowsMatchProvider ==
  \A o \in Ids(orders) :
    /\ orders[o].compliance = "rejected" => ProviderOf(o).compliance = "rejected"
    /\ orders[o].compliance = "cleared" =>
         \/ ProviderOf(o).compliance = "cleared"
         \/ ProviderOf(o).status = "filled"
    /\ orders[o].status = "filled" => ProviderOf(o).compliance # "rejected"

\* Off-ramp orders are filled by credited deliveries, one order each at most.
FillsAreDelivered ==
  \A s \in Sessions :
    DirectionOf[s] = "off_ramp" =>
      Cardinality({o \in OrdersOf(s) : orders[o].status = "filled"})
        <= Cardinality({c \in credited : c.session = s})

=============================================================================
