-------------------------- MODULE SettlementProofs --------------------------
(***************************************************************************)
(* What the jobs promise to users who have passed onboarding, with any     *)
(* handlers overlapping and any statement failing.                         *)
(***************************************************************************)
EXTENDS Settlement, SettlementJobsProofs

\* The sessions were there from the start.
Opened == sessionState \in [Sessions -> SessionState]

LEMMA InvInit == Init => DeliveryInv /\ Opened
BY NothingSettled, AbsentAssumption DEF Init, Opened, SessionState

LEMMA TransitionMoves ==
  ASSUME NEW p \in Workers, TransitionStep(p) PROVE CallGoesOn(p)
BY DEF TransitionStep, CallGoesOn

LEMMA StepKinds ==
  ASSUME [Next]_vars
  PROVE  TradeStep \/ Elsewhere
<1>1. CASE UNCHANGED vars
  BY <1>1 DEF vars, Elsewhere, ServiceMoves
<1>2. ASSUME NEW p \in Workers, StartJob(p) \/ JobStepOf(p) \/ JobFails(p) PROVE TradeStep
  BY <1>2 DEF TradeStep, StartJob, JobBegins
<1>3. ASSUME NEW p \in Workers, TransitionStep(p) \/ QueryFails(p), UNCHANGED <<tables, job>>
      PROVE  Elsewhere
  BY <1>3, TransitionMoves DEF Elsewhere, ServiceMoves
<1> QED BY <1>1, <1>2, <1>3 DEF Next, Work, TradeStep

\* Only transition() writes a session, and never that there is none.
LEMMA OpenedStays ==
  ASSUME DeliveryInv, Opened, [Next]_vars
  PROVE  Opened'
<1>1. ASSUME NEW p \in Workers, TransitionStep(p) PROVE Opened'
  <2>1. CallTypes /\ CallGoesOn(p)
    BY <1>1, TransitionMoves DEF DeliveryInv, TradeInv, Typed
  <2>2. \/ sessionState' = sessionState
        \/ /\ call[p] \in CallFrame
           /\ sessionState' = [sessionState EXCEPT ![call[p].session] = call[p].to]
    BY <2>1, CallGoesOnSucceeds
  <2> QED BY <2>2 DEF Opened, CallFrame
<1>2. CASE UNCHANGED sessionState
  BY <1>2 DEF Opened
<1>3. ASSUME NEW p \in Workers, StartJob(p) \/ JobFails(p) \/ QueryFails(p)
      PROVE  UNCHANGED sessionState
  BY <1>3 DEF StartJob, JobFails, QueryFails, RequestQuote, AcceptQuote, SubmitOrder, PollOrder,
     ReceiveDeposit, serviceVars
<1>4. ASSUME NEW p \in Workers, JobStepOf(p) PROVE UNCHANGED sessionState
  BY <1>4 DEF JobStepOf, ExpireQuotes, QuoteRequested, CreateQuote, QuoteReady, WriteAccepted,
     PlaceOrder, CreateOrder, OrderSubmitted, AskProvider, ClearOrder, RejectOrder, FillOrder,
     OrderMoved, FindAccount, FindSessions, FindOrder, RecordDeposit, FillFromDeposit,
     DepositMatched, MarkProcessed, CallFrom, Ask, ResultTaken, Threw, serviceVars
<1>5. ASSUME \/ \E q \in Ids(quotes) : QuoteLapses(q)
             \/ \E k \in Ids(provider) :
                  (\E v \in {"cleared", "rejected"} : ProviderDecides(k, v)) \/ ProviderFills(k)
             \/ UNCHANGED vars
      PROVE  UNCHANGED sessionState
  BY <1>5 DEF QuoteLapses, ProviderDecides, ProviderFills, vars, serviceVars
<1> QED BY <1>1, <1>2, <1>3, <1>4, <1>5 DEF Next, Work

LEMMA Invariance == Spec => [](DeliveryInv /\ Opened)
<1>1. DeliveryInv /\ Opened /\ [Next]_vars => (DeliveryInv /\ Opened)'
  BY StepKinds, DeliveryKept, OpenedStays
<1> QED BY <1>1, InvInit, PTL DEF Spec

\* The rows of the five tables, and the jobs, are of their types; an order's
\* quote is one of its own session, and its provider id one the provider knows,
\* however requests overlap and fail (quotes, orders and inbox rows are only
\* ever inserted, and updated in place).
THEOREM SettlementTypes == Spec => []TypeOK
<1>1. DeliveryInv /\ Opened => TypeOK
  BY DEF DeliveryInv, TradeInv, Typed, CallTypes, Opened, TypeOK
<1> QED BY <1>1, Invariance, PTL

\* The poll writes what it heard some awaits ago, and a deposit what it read in
\* the order's row: neither ever makes the row say what the provider did not.
THEOREM RowsMatch == Spec => []RowsMatchProvider
<1>1. DeliveryInv => RowsMatchProvider
  BY RowsMatchFromInv DEF DeliveryInv
<1> QED BY <1>1, Invariance, PTL

\* No overlap, failure or stale copy fills a session without a settlement.
THEOREM FillsAreSettled == Spec => []FilledOnSettlement
<1>1. DeliveryInv => FilledOnSettlement
  BY OutcomesFromInv DEF DeliveryInv
<1> QED BY <1>1, Invariance, PTL

\* A delivery is credited once and fills one order, however deliveries of the
\* same transaction overlap and fail: off-ramp orders filled never outnumber
\* the session's credits.
THEOREM FillsDelivered == Spec => []FillsAreDelivered
BY FillsDeliveredFromInv, Invariance, PTL

\* A session is failed only on a rejection, whichever polls overlap.
THEOREM FailuresAreRejections == Spec => []FailedOnRejection
<1>1. DeliveryInv => FailedOnRejection
  BY OutcomesFromInv DEF DeliveryInv
<1> QED BY <1>1, Invariance, PTL

\* What an order row says the provider decided, at submission or in a poll, is
\* never taken back by a poll or deposit that writes long after it has read, and
\* all that becomes of a rejected order is that it is marked failed.
THEOREM VerdictsStay == Spec => VerdictStays
<1>1. DeliveryInv /\ [Next]_vars => \A o \in Ids(orders) : DecisionKept(o)
  BY StepKinds, DecisionsKept DEF DeliveryInv
<1>2. (\A o \in Ids(orders) : DecisionKept(o)) =>
        \A o \in Ids(orders) :
          /\ orders[o].compliance \in {"cleared", "rejected"}
               => orders'[o].compliance = orders[o].compliance
          /\ orders[o].compliance = "rejected"
               => orders'[o] \in {orders[o], [orders[o] EXCEPT !.status = "failed"]}
  BY DEF DecisionKept
<1>3. DeliveryInv /\ [Next]_vars =>
        [ \A o \in Ids(orders) :
            /\ orders[o].compliance \in {"cleared", "rejected"}
                 => orders'[o].compliance = orders[o].compliance
            /\ orders[o].compliance = "rejected"
                 => orders'[o] \in {orders[o], [orders[o] EXCEPT !.status = "failed"]} ]_vars
  BY <1>1, <1>2
<1> QED BY <1>3, Invariance, PTL DEF Spec, VerdictStays

\* A session leaves a terminal state only because two calls for it overlap: no
\* failure, stale copy or late answer does it, if the calls for one session take
\* turns.
THEOREM TerminalUnlessOverlap == Spec /\ []OneCallPerSession => TerminalIsFinal
<1>1. Init => SerialInv
  BY InvInit, SerialAtFirst DEF DeliveryInv, TradeInv, Typed, Init
<1>2. DeliveryInv /\ SerialInv /\ OneCallPerSession /\ [Next]_vars => SerialInv' /\ OnGraph
  <2> SUFFICES ASSUME DeliveryInv, SerialInv, OneCallPerSession, [Next]_vars
               PROVE  SerialInv' /\ OnGraph
    OBVIOUS
  <2>1. (TradeStep \/ Elsewhere) /\ DeliveryInv'
    BY StepKinds, DeliveryKept
  <2>2. CallTypes'
    BY <2>1 DEF DeliveryInv, TradeInv, Typed
  <2> QED BY <2>1, <2>2, SerialKept
<1>3. OnGraph => \A s \in Sessions :
                  sessionState[s] \in TERMINAL_STATES => sessionState'[s] = sessionState[s]
  BY AbsentAssumption DEF OnGraph, Edge, TERMINAL_STATES, SessionState
<1>4. DeliveryInv /\ SerialInv /\ OneCallPerSession /\ [Next]_vars =>
        SerialInv' /\ [ \A s \in Sessions :
                         sessionState[s] \in TERMINAL_STATES
                           => sessionState'[s] = sessionState[s] ]_vars
  BY <1>2, <1>3
<1> QED BY <1>1, <1>4, Invariance, PTL DEF Spec, TerminalIsFinal


-----------------------------------------------------------------------------
(***************************************************************************)
(* One delivery at a time                                                  *)
(*                                                                         *)
(* What DeliveriesProcessed and DepositFillsClearedOrder promise in the    *)
(* end is, but for fairness, that no delivery gets stuck on the way: the   *)
(* transition it asks for is never refused, and it is matched to the       *)
(* session that waits for it.  This takes one worker, no failure and the   *)
(* strict graph: on the relaxed one a session goes back from               *)
(* compliance_pending to ask for a quote, and the next deposit marks its   *)
(* order filled and is then refused.                                       *)
(***************************************************************************)

CallSteps == {"quoteRequested", "quoteReady", "orderSubmitted", "orderMoved", "depositMatched"}

\* What a job that waits at step has asked transition() for.
Asked(step) ==
  CASE step = "quoteRequested" -> {"quote_requested"}
    [] step = "quoteReady"     -> {"quote_ready"}
    [] step = "orderSubmitted" -> {"compliance_pending"}
    [] step = "depositMatched" -> {"order_filled"}
    [] step = "orderMoved"     -> {"order_filled", "failed"}
    [] OTHER                   -> {}

\* The call f of job j: it is about the job's session, what it has read is still
\* so, and its result says whether the session is where the job wants it.
SoloCall(j, f) ==
  /\ f.step # "idle" <=> j.step \in CallSteps
  /\ f.step \in Awaited =>
       /\ f.session = j.session
       /\ f.to \in Asked(j.step)
       /\ f.to = "order_filled" => f.reason \in SETTLEMENT_REASONS
  /\ f.step \in {"loadFlags", "updateState"} =>
       f.from = sessionState[f.session] /\ f.from # f.to
  /\ f.step = "updateState" => f.to \in BASE_TRANSITIONS(f.from)
  /\ f.step = "appendEvent" => f.to = sessionState[f.session]
  /\ f.step = "returned" /\ f.outcome = "ok" => sessionState[j.session] \in Asked(j.step)
  /\ f.step = "returned" /\ f.outcome # "ok" =>
       \E to \in Asked(j.step) :
         to # sessionState[j.session] /\ to \notin BASE_TRANSITIONS(sessionState[j.session])

\* Where the session of an order may be, and of a session with a quote.
Traded == {"compliance_pending", "order_filled", "failed"}
Quoted == {"quote_ready"} \cup Traded

QuotesOf(s) == {q \in Ids(quotes) : quotes[q].session = s}

\* j has matched its delivery to the newest of the user's live sessions that has
\* an order.
Matched(j) ==
  /\ UserOf[j.session] = Payer(j)
  /\ sessionState[j.session] \in {"compliance_pending", "order_filled"}
  /\ OrdersOf(j.session) # {}
  /\ \A t \in ActiveSessions(Payer(j)) : t > j.session => OrdersOf(t) = {}

\* How far job j has got.
Stage(j) ==
  /\ j.step \in CallSteps => j.session \in Sessions
  /\ j.step = "expireQuotes" => j.seen = sessionState[j.session]
  /\ j.step = "createQuote" => sessionState[j.session] = "quote_requested"
  /\ j.step = "quoteReady" => sessionState[j.session] \in {"quote_requested", "quote_ready"}
  /\ j.step \in {"placeOrder", "createOrder", "orderSubmitted"} =>
       sessionState[j.session] \in Quoted
  /\ j.step = "findOrder" =>
       /\ j.todo \subseteq ActiveSessions(Payer(j))
       /\ \A t \in ActiveSessions(Payer(j)) \ j.todo : OrdersOf(t) = {}
  /\ j.step \in {"recordDeposit", "fillFromDeposit", "depositMatched"} => Matched(j)
  /\ j.step = "recordDeposit" =>
       Newest(j.order, OrdersOf(j.session)) /\ j.row = orders[j.order]
  /\ j.step \in {"fillFromDeposit", "depositMatched"} => DirectionOf[j.session] = "off_ramp"
  /\ j.step = "markProcessed" =>
       \A s \in Sessions : UserOf[s] = Payer(j) => ~ WaitsForDeposit(s)

\* Outside the job that is moving it, a session is where its rows say.
RowsBehind(j, s) ==
  /\ OrdersOf(s) # {} =>
       \/ sessionState[s] \in Traded
       \/ j.step = "orderSubmitted" /\ j.session = s /\ sessionState[s] = "quote_ready"
  /\ QuotesOf(s) # {} =>
       \/ sessionState[s] \in Quoted
       \/ /\ j.step \in {"quoteRequested", "createQuote", "quoteReady"}
          /\ j.session = s
          /\ sessionState[s] = "quote_requested"

OrderBehind(j, o) ==
  /\ orders[o].status = "failed" => orders[o].compliance = "rejected"
  /\ orders[o].status = "filled" /\ DirectionOf[orders[o].session] = "off_ramp" =>
       \/ sessionState[orders[o].session] \in {"order_filled", "failed"}
       \/ j.step = "depositMatched" /\ j.session = orders[o].session

\* Every delivery has been processed, but the one j is about.
Handled(j) ==
  \A i \in Ids(inbox) :
    inbox[i].processed \/ (j.step \in InboxSteps /\ j.inbox = i)

Behind(j) ==
  /\ \A s \in Sessions : RowsBehind(j, s)
  /\ \A o \in Ids(orders) : OrderBehind(j, o)

SoloInv(w) ==
  /\ SoloCall(job[w], call[w])
  /\ Stage(job[w])
  /\ Behind(job[w])
  /\ Handled(job[w])

\* One worker, nothing fails, and the graph is the strict one.
Alone(w) == Workers = {w} /\ ~ MayFail /\ ~ RelaxStateGuards

-----------------------------------------------------------------------------

LEMMA Edges ==
  ASSUME NEW from \in SessionState
  PROVE  /\ "quote_requested" \in BASE_TRANSITIONS(from) =>
              from \notin Traded \cup {"quote_requested"}
         /\ "quote_ready" \in BASE_TRANSITIONS(from) <=> from = "quote_requested"
         /\ "compliance_pending" \in BASE_TRANSITIONS(from) <=>
              from \in {"quote_ready", "order_pending"}
         /\ "order_filled" \in BASE_TRANSITIONS(from) <=> from = "compliance_pending"
         /\ from \in TERMINAL_STATES => BASE_TRANSITIONS(from) = {}
BY DEF BASE_TRANSITIONS, Abandon, SessionState, Traded, TERMINAL_STATES

\* With every fact true and the strict graph only the graph decides.
LEMMA SoloVerdict ==
  ASSUME ~ RelaxStateGuards, NEW f, f.from \in SessionState, f.from # f.to,
         f.to = "order_filled" => f.reason \in SETTLEMENT_REASONS
  PROVE  Verdict(f, UserFlag) = "ok" <=> f.to \in BASE_TRANSITIONS(f.from)
<1>1. isGraphEdgeAllowed(f.from, f.to, RelaxStateGuards) <=> f.to \in BASE_TRANSITIONS(f.from)
  BY DEF isGraphEdgeAllowed, allowedTargets
<1>2. checkPrerequisites(f.from, f.to, Context(f.session, UserFlag), f.reason, RelaxStateGuards) = {}
  BY DEF checkPrerequisites, Context, UserFlag, Prerequisite
<1> QED BY <1>1, <1>2, Edges DEF Verdict, assertCanTransition

\* A call goes on without writing its session.
LEMMA SoloCallGoes ==
  ASSUME NEW w \in Workers, Alone(w), TypeOK, SoloInv(w),
         FindSession(w) \/ LoadFlags(w, UserFlag) \/ AppendEvent(w),
         UNCHANGED <<tables, job>>
  PROVE  SoloInv(w)'
<1> DEFINE f == call[w]
           j == job[w]
<1>0. /\ call \in [Workers -> Frame] /\ f \in Frame
      /\ sessionState \in [Sessions -> SessionState]
      /\ sessionState' = sessionState /\ job' = job
  BY DEF TypeOK, FindSession, LoadFlags, AppendEvent
<1>1. Stage(j)' /\ Behind(j)' /\ Handled(j)'
  <2>1. UNCHANGED <<quotes, orders, inbox, job, sessionState>>
    BY <1>0 DEF tables
  <2>2. Stage(j)'
    BY <2>1 DEF SoloInv, Stage, Matched, ActiveSessions, OrdersOf, Newest, Payer, WaitsForDeposit
  <2>3. Behind(j)'
    BY <2>1 DEF SoloInv, Behind, RowsBehind, OrderBehind, OrdersOf, QuotesOf
  <2>4. Handled(j)'
    BY <2>1 DEF SoloInv, Handled
  <2> QED BY <2>2, <2>3, <2>4
<1>2. f \in CallFrame /\ f.step \in Awaited /\ f.from \in SessionState \cup {Absent}
  <2>1. f.step \in Awaited
    BY DEF FindSession, LoadFlags, AppendEvent, Awaited
  <2>2. f \in CallFrame
    BY <1>0, <2>1, Awaiting
  <2> QED BY <2>1, <2>2 DEF CallFrame
<1>3. /\ f.session = j.session /\ f.to \in Asked(j.step) /\ j.step \in CallSteps
      /\ f.session \in Sessions
      /\ f.to = "order_filled" => f.reason \in SETTLEMENT_REASONS
  BY <1>2 DEF SoloInv, SoloCall, CallFrame, Awaited
<1>4. ASSUME NEW g, call' = [call EXCEPT ![w] = g], SoloCall(j, g)'
      PROVE  SoloInv(w)'
  <2>1. call'[w] = g
    BY <1>0, <1>4
  <2> QED BY <1>1, <1>4, <2>1 DEF SoloInv
<1>5. CASE FindSession(w)
  <2> DEFINE x == sessionState[f.session]
  <2>1. x \in SessionState /\ x # Absent
    BY <1>0, <1>3, AbsentAssumption
  <2>2. PICK g : g = StateFound(f, x)
    OBVIOUS
  <2>3. CASE x = f.to
    <3>1. g = Returned("ok")
      BY <2>1, <2>2, <2>3 DEF StateFound
    <3>2. g.step = "returned" /\ g.outcome = "ok"
      BY <3>1 DEF Returned, IdleFrame
    <3>3. SoloCall(j, g)'
      BY <1>0, <1>3, <2>3, <3>2 DEF SoloCall, Awaited
    <3> QED BY <1>4, <1>5, <2>2, <3>3 DEF FindSession
  <2>4. CASE x # f.to
    <3>1. g = [f EXCEPT !.step = "loadFlags", !.from = x]
      BY <2>1, <2>2, <2>4 DEF StateFound
    <3>2. /\ g.step = "loadFlags" /\ g.from = x /\ g.to = f.to /\ g.session = f.session
          /\ g.reason = f.reason
      BY <1>2, <3>1 DEF CallFrame
    <3>3. SoloCall(j, g)'
      BY <1>0, <1>3, <2>4, <3>2 DEF SoloCall, Awaited
    <3> QED BY <1>4, <1>5, <2>2, <3>3 DEF FindSession
  <2> QED BY <2>3, <2>4
<1>6. CASE LoadFlags(w, UserFlag)
  <2>1. /\ f.step = "loadFlags" /\ f.from = sessionState[f.session] /\ f.from # f.to
        /\ f.from \in SessionState
    BY <1>0, <1>3, <1>6 DEF LoadFlags, SoloInv, SoloCall
  <2>2. Verdict(f, UserFlag) = "ok" <=> f.to \in BASE_TRANSITIONS(f.from)
    BY <1>3, <2>1, SoloVerdict DEF Alone
  <2>3. CASE Verdict(f, UserFlag) = "ok"
    <3>1. PICK g : g = [f EXCEPT !.step = "updateState"]
      OBVIOUS
    <3>2. /\ g.step = "updateState" /\ g.from = f.from /\ g.to = f.to
          /\ g.session = f.session /\ g.reason = f.reason
      BY <1>2, <3>1 DEF CallFrame
    <3>3. SoloCall(j, g)'
      BY <1>0, <1>3, <2>1, <2>2, <2>3, <3>2 DEF SoloCall, Awaited
    <3> QED BY <1>4, <1>6, <2>3, <3>1, <3>3 DEF LoadFlags
  <2>4. CASE Verdict(f, UserFlag) # "ok"
    <3>1. PICK g : g = Returned(Verdict(f, UserFlag))
      OBVIOUS
    <3>2. g.step = "returned" /\ g.outcome = Verdict(f, UserFlag)
      BY <3>1 DEF Returned, IdleFrame
    <3>3. SoloCall(j, g)'
      BY <1>0, <1>3, <2>1, <2>2, <2>4, <3>2 DEF SoloCall, Awaited
    <3> QED BY <1>4, <1>6, <2>4, <3>1, <3>3 DEF LoadFlags
  <2> QED BY <2>3, <2>4
<1>7. CASE AppendEvent(w)
  <2>1. PICK g : g = Returned("ok")
    OBVIOUS
  <2>2. g.step = "returned" /\ g.outcome = "ok"
    BY <2>1 DEF Returned, IdleFrame
  <2>3. f.to = sessionState[j.session]
    BY <1>3, <1>7 DEF AppendEvent, SoloInv, SoloCall
  <2>4. SoloCall(j, g)'
    BY <1>0, <1>3, <2>2, <2>3 DEF SoloCall, Awaited
  <2> QED BY <1>4, <1>7, <2>1, <2>4 DEF AppendEvent
<1> QED BY <1>5, <1>6, <1>7

\* The session is written: it moves along one edge, from where it was read.
LEMMA SoloUpdate ==
  ASSUME NEW w \in Workers, Alone(w), TypeOK, SoloInv(w), UpdateState(w),
         UNCHANGED <<tables, job>>
  PROVE  SoloInv(w)'
<1> DEFINE f == call[w]
           j == job[w]
           x == sessionState[f.session]
<1>0. /\ call \in [Workers -> Frame] /\ f \in Frame
      /\ sessionState \in [Sessions -> SessionState]
      /\ UNCHANGED <<quotes, orders, inbox, job>>
  BY DEF TypeOK, tables
<1>1. f.step = "updateState" /\ f \in CallFrame
  BY <1>0, Awaiting DEF UpdateState, Awaited
<1>2. /\ f.session = j.session /\ f.to \in Asked(j.step) /\ j.step \in CallSteps
      /\ f.session \in Sessions /\ f.to \in SessionState
      /\ f.to = "order_filled" => f.reason \in SETTLEMENT_REASONS
      /\ x \in SessionState /\ f.to \in BASE_TRANSITIONS(x)
  BY <1>0, <1>1 DEF SoloInv, SoloCall, CallFrame, Awaited
<1>3. /\ sessionState'[f.session] = f.to
      /\ \A t \in Sessions \ {f.session} : sessionState'[t] = sessionState[t]
  BY <1>0, <1>2 DEF UpdateState
<1>4. PICK g : g = [f EXCEPT !.step = "appendEvent"]
  OBVIOUS
<1>5. /\ g.step = "appendEvent" /\ g.to = f.to /\ g.session = f.session
      /\ g.reason = f.reason /\ call'[w] = g
  BY <1>0, <1>1, <1>4 DEF CallFrame, UpdateState
<1>6. SoloCall(j, g)'
  BY <1>0, <1>2, <1>3, <1>5 DEF SoloCall, Awaited
\* Where the job stands, and what it asked for.
<1>7. \/ j.step = "quoteRequested" /\ f.to = "quote_requested"
      \/ j.step = "quoteReady" /\ f.to = "quote_ready"
      \/ j.step = "orderSubmitted" /\ f.to = "compliance_pending"
      \/ j.step = "depositMatched" /\ f.to = "order_filled"
      \/ j.step = "orderMoved" /\ f.to \in {"order_filled", "failed"}
  BY <1>2 DEF Asked, CallSteps
<1>8. Stage(j)'
  <2>1. j.step = "depositMatched" => Matched(j)'
    <3> SUFFICES ASSUME j.step = "depositMatched" PROVE Matched(j)'
      OBVIOUS
    <3>1. /\ UserOf[j.session] = Payer(j) /\ OrdersOf(j.session) # {}
          /\ \A t \in ActiveSessions(Payer(j)) : t > j.session => OrdersOf(t) = {}
      BY DEF SoloInv, Stage, Matched
    <3>2. sessionState'[j.session] = "order_filled"
      BY <1>2, <1>3, <1>7
    <3>3. \A t \in ActiveSessions(Payer(j))' : t > j.session => t \in ActiveSessions(Payer(j))
      BY <1>0, <1>2, <1>3, SessionIdAssumption DEF ActiveSessions, Payer
    <3> QED BY <1>0, <3>1, <3>2, <3>3 DEF Matched, Payer, OrdersOf
  <2>2. j.step = "quoteReady" => sessionState'[j.session] = "quote_ready"
    BY <1>2, <1>3, <1>7
  <2>3. j.step = "orderSubmitted" => sessionState'[j.session] \in Quoted
    BY <1>2, <1>3, <1>7 DEF Quoted, Traded
  <2>4. j.step = "depositMatched" => DirectionOf[j.session] = "off_ramp"
    BY DEF SoloInv, Stage
  <2> QED BY <1>2, <2>1, <2>2, <2>3, <2>4 DEF Stage, CallSteps
<1>9. Behind(j)'
  <2>1. ASSUME NEW s \in Sessions PROVE RowsBehind(j, s)'
    <3>0. RowsBehind(j, s) /\ UNCHANGED <<OrdersOf(s), QuotesOf(s)>>
      BY <1>0 DEF SoloInv, Behind, OrdersOf, QuotesOf
    <3>1. CASE s # f.session
      BY <1>2, <1>3, <3>0, <3>1 DEF RowsBehind
    <3>2. CASE s = f.session
      <4>1. CASE f.to = "quote_requested"
        BY <1>2, <1>3, <1>7, <3>0, <3>2, <4>1, Edges DEF RowsBehind, Traded
      <4>2. CASE f.to = "quote_ready"
        BY <1>2, <1>3, <1>7, <3>0, <3>2, <4>2, Edges DEF RowsBehind, Traded, Quoted
      <4>3. CASE f.to \in Traded
        BY <1>3, <3>2, <4>3 DEF RowsBehind, Quoted
      <4> QED BY <1>7, <4>1, <4>2, <4>3 DEF Traded
    <3> QED BY <3>1, <3>2
  <2>2. ASSUME NEW o \in Ids(orders) PROVE OrderBehind(j, o)'
    <3>0. OrderBehind(j, o) /\ orders[o].session \in Sessions
      <4>1. orders[o] \in Order
        BY RowType DEF TypeOK, TablesTyped
      <4> QED BY <4>1 DEF SoloInv, Behind, Order
    <3>1. CASE orders[o].session # f.session
      BY <1>0, <1>2, <1>3, <3>0, <3>1 DEF OrderBehind
    <3>2. CASE orders[o].session = f.session
      <4>1. x \in {"order_filled", "failed"} =>
              f.to \notin {"quote_requested", "quote_ready", "compliance_pending"}
        BY <1>2, Edges DEF Traded
      <4> QED BY <1>0, <1>2, <1>3, <1>7, <3>0, <3>2, <4>1 DEF OrderBehind
    <3> QED BY <3>1, <3>2
  <2> QED BY <1>0, <2>1, <2>2 DEF Behind
<1>10. Handled(j)'
  BY <1>0 DEF SoloInv, Handled
<1> QED BY <1>0, <1>5, <1>6, <1>8, <1>9, <1>10 DEF SoloInv

-----------------------------------------------------------------------------

\* The steps at which the rows of a session may be ahead of its state.
Ahead == {"quoteRequested", "createQuote", "quoteReady", "orderSubmitted", "depositMatched"}

\* While neither sessions nor orders change, nothing that stands behind them does.
LEMMA BehindStays ==
  ASSUME NEW w \in Workers, SoloInv(w), job[w].step \notin Ahead, NEW j,
         UNCHANGED <<sessionState, orders>>,
         \A s \in Sessions : QuotesOf(s)' = {} \/ QuotesOf(s) # {}
  PROVE  Behind(j)'
BY DEF SoloInv, Behind, RowsBehind, OrderBehind, OrdersOf, Ahead

\* The job becomes j, which makes no call.
LEMMA SoloGoes ==
  ASSUME NEW w \in Workers, TypeOK, SoloInv(w), NEW j, Goto(w, j), call'[w].step = "idle",
         j.step \notin CallSteps, Stage(j)', Behind(j)', Handled(j)'
  PROVE  SoloInv(w)'
<1>1. job'[w] = j
  BY DEF TypeOK, TablesTyped, Goto
<1>2. SoloCall(j, call[w])'
  BY DEF SoloCall, Awaited
<1> QED BY <1>1, <1>2 DEF SoloInv

\* The job calls transition() and becomes j.
LEMMA SoloCalls ==
  ASSUME NEW w \in Workers, TypeOK, SoloInv(w), NEW j, NEW s \in Sessions, NEW to \in Asked(j.step),
         NEW reason, CallFrom(w, s, to, reason, j),
         j.step \in CallSteps, j.session = s,
         to = "order_filled" => reason \in SETTLEMENT_REASONS,
         Stage(j)', Behind(j)', Handled(j)'
  PROVE  SoloInv(w)'
<1>1. job'[w] = j
  BY DEF TypeOK, TablesTyped, CallFrom, Goto
<1>2. PICK f : f = Called(s, to, reason)
  OBVIOUS
<1>3. call'[w] = f
  BY <1>2 DEF TypeOK, CallFrom, Ask
<1>4. f.step = "findSession" /\ f.session = s /\ f.to = to /\ f.reason = reason
  BY <1>2 DEF Called, IdleFrame
<1>5. SoloCall(j, f)'
  BY <1>4 DEF SoloCall, Awaited
<1> QED BY <1>1, <1>3, <1>5 DEF SoloInv

\* Between jobs.
LEMMA NoJobFits == Stage(NoJob) /\ NoJob.step = "none" /\ NoJob.step \notin CallSteps \cup InboxSteps \cup Ahead
BY DEF NoJob, Stage, CallSteps, InboxSteps, Ahead

LEMMA HandledStays ==
  ASSUME NEW w \in Workers, SoloInv(w), NEW j, inbox' = inbox,
         job[w].step \in InboxSteps => j.step \in InboxSteps /\ j.inbox = job[w].inbox
  PROVE  Handled(j)'
BY DEF SoloInv, Handled

\* The job becomes j, and all it may have written is the provider's table, the
\* credits and itself.
LEMMA SoloReads ==
  ASSUME NEW w \in Workers, TypeOK, SoloInv(w), NEW j, Goto(w, j),
         UNCHANGED <<serviceVars, quotes, orders, inbox>>,
         job[w].step \notin Ahead \cup CallSteps, j.step \notin CallSteps, Stage(j),
         job[w].step \in InboxSteps => j.step \in InboxSteps /\ j.inbox = job[w].inbox
  PROVE  SoloInv(w)'
<1>1. call'[w].step = "idle"
  BY DEF SoloInv, SoloCall, serviceVars
<1>2. Stage(j)'
  BY DEF Stage, Matched, ActiveSessions, OrdersOf, Newest, Payer, WaitsForDeposit, serviceVars
<1>3. Behind(j)'
  BY BehindStays DEF QuotesOf, serviceVars
<1>4. Handled(j)'
  BY HandledStays
<1> QED BY <1>1, <1>2, <1>3, <1>4, SoloGoes

LEMMA SoloRequestQuote ==
  ASSUME NEW w \in Workers, TypeOK, SoloInv(w), NEW s \in Sessions, RequestQuote(w, s)
  PROVE  SoloInv(w)'
<1>1. PICK j : j = [NoJob EXCEPT !.step = "expireQuotes", !.session = s, !.seen = sessionState[s]]
  OBVIOUS
<1>2. j.step = "expireQuotes" /\ j.session = s /\ j.seen = sessionState[s]
  BY <1>1 DEF NoJob
<1>3. Goto(w, j) /\ UNCHANGED <<serviceVars, quotes, orders, inbox>> /\ job[w].step = "none"
  BY <1>1 DEF RequestQuote, tables, Idle
<1>4. Stage(j)
  BY <1>2 DEF Stage, CallSteps
<1> QED BY <1>2, <1>3, <1>4, SoloReads DEF CallSteps, Ahead, InboxSteps

LEMMA SoloAcceptQuote ==
  ASSUME NEW w \in Workers, TypeOK, SoloInv(w), NEW q, AcceptQuote(w, q)
  PROVE  SoloInv(w)'
<1>1. PICK j : j = [NoJob EXCEPT !.step = "acceptQuote", !.quote = q]
  OBVIOUS
<1>2. j.step = "acceptQuote"
  BY <1>1 DEF NoJob
<1>3. Goto(w, j) /\ UNCHANGED <<serviceVars, quotes, orders, inbox>> /\ job[w].step = "none"
  BY <1>1 DEF AcceptQuote, tables, Idle
<1>4. Stage(j)
  BY <1>2 DEF Stage, CallSteps
<1> QED BY <1>2, <1>3, <1>4, SoloReads DEF CallSteps, Ahead, InboxSteps

LEMMA SoloSubmitOrder ==
  ASSUME NEW w \in Workers, TypeOK, SoloInv(w), NEW s \in Sessions, NEW q \in Ids(quotes),
         SubmitOrder(w, s, q)
  PROVE  SoloInv(w)'
<1>1. PICK j : j = [NoJob EXCEPT !.step = "placeOrder", !.session = s, !.quote = q]
  OBVIOUS
<1>2. j.step = "placeOrder" /\ j.session = s
  BY <1>1 DEF NoJob
<1>3. Goto(w, j) /\ UNCHANGED <<serviceVars, quotes, orders, inbox>> /\ job[w].step = "none"
  BY <1>1 DEF SubmitOrder, tables, Idle
<1>4. q \in QuotesOf(s)
  BY DEF SubmitOrder, QuotesOf
<1>5. sessionState[s] \in Quoted
  BY <1>3, <1>4 DEF SoloInv, Behind, RowsBehind
<1>6. Stage(j)
  BY <1>2, <1>5 DEF Stage, CallSteps
<1> QED BY <1>2, <1>3, <1>6, SoloReads DEF CallSteps, Ahead, InboxSteps

LEMMA SoloPlaceOrder ==
  ASSUME NEW w \in Workers, TypeOK, SoloInv(w), PlaceOrder(w)
  PROVE  SoloInv(w)'
<1>1. PICK told, j : /\ j = [job[w] EXCEPT !.step = "createOrder", !.provider = Len(provider'),
                                           !.answer = told]
                     /\ Goto(w, j)
  BY DEF PlaceOrder
<1>2. j.step = "createOrder" /\ j.session = job[w].session
  BY <1>1 DEF TypeOK, TablesTyped, Job
<1>3. Goto(w, j) /\ UNCHANGED <<serviceVars, quotes, orders, inbox>> /\ job[w].step = "placeOrder"
  BY <1>1 DEF PlaceOrder
<1>4. sessionState[j.session] \in Quoted
  BY <1>2, <1>3 DEF SoloInv, Stage
<1>5. Stage(j)
  BY <1>2, <1>4 DEF Stage, CallSteps
<1> QED BY <1>2, <1>3, <1>5, SoloReads DEF CallSteps, Ahead, InboxSteps

LEMMA SoloPollOrder ==
  ASSUME NEW w \in Workers, TypeOK, SoloInv(w), NEW o, PollOrder(w, o)
  PROVE  SoloInv(w)'
<1>1. PICK j : j = [NoJob EXCEPT !.step = "askProvider", !.order = o,
                      !.session = orders[o].session, !.provider = orders[o].provider]
  OBVIOUS
<1>2. j.step = "askProvider"
  BY <1>1 DEF NoJob
<1>3. Goto(w, j) /\ UNCHANGED <<serviceVars, quotes, orders, inbox>> /\ job[w].step = "none"
  BY <1>1 DEF PollOrder, tables, Idle
<1>4. Stage(j)
  BY <1>2 DEF Stage, CallSteps
<1> QED BY <1>2, <1>3, <1>4, SoloReads DEF CallSteps, Ahead, InboxSteps

LEMMA SoloAskProvider ==
  ASSUME NEW w \in Workers, TypeOK, SoloInv(w), AskProvider(w)
  PROVE  SoloInv(w)'
<1>1. PICK j : /\ Goto(w, j)
               /\ \/ \E step \in PollSteps : j = [job[w] EXCEPT !.step = step]
                  \/ j = NoJob
  BY DEF AskProvider, Finish, PollSteps, Goto
<1>2. j.step \in PollSteps \cup {"none"}
  BY <1>1, NoJobFits DEF TypeOK, TablesTyped, Job
<1>3. UNCHANGED <<serviceVars, quotes, orders, inbox>> /\ job[w].step = "askProvider"
  BY DEF AskProvider, tables
<1>4. Stage(j)
  BY <1>2 DEF Stage, CallSteps, PollSteps
<1> QED BY <1>1, <1>2, <1>3, <1>4, SoloReads DEF CallSteps, Ahead, InboxSteps, PollSteps

\* A step of the deposit webhook that only reads.
LEMMA SoloLooks ==
  ASSUME NEW w \in Workers, TypeOK, SoloInv(w), NEW j, Goto(w, j), UNCHANGED <<serviceVars, tables>>,
         job[w].step \in {"findAccount", "findSessions", "findOrder"},
         j.step \in {"findSessions", "findOrder", "recordDeposit", "markProcessed"},
         j.inbox = job[w].inbox, Stage(j)
  PROVE  SoloInv(w)'
BY SoloReads DEF tables, CallSteps, Ahead, InboxSteps

LEMMA SoloFindAccount ==
  ASSUME NEW w \in Workers, TypeOK, SoloInv(w), FindAccount(w)
  PROVE  SoloInv(w)'
<1>0. job[w] \in Job /\ job[w].step = "findAccount" /\ UNCHANGED <<serviceVars, tables>>
  BY DEF FindAccount, TypeOK, TablesTyped
<1>1. CASE Payer(job[w]) = Absent /\ Goto(w, [job[w] EXCEPT !.step = "markProcessed"])
  <2>1. PICK j : j = [job[w] EXCEPT !.step = "markProcessed"]
    OBVIOUS
  <2>2. j.step = "markProcessed" /\ j.inbox = job[w].inbox
    BY <1>0, <2>1 DEF Job
  <2>3. Payer(j) = Absent
    BY <1>1, <2>2 DEF Payer
  <2>4. \A s \in Sessions : UserOf[s] # Payer(j)
    BY <2>3, AbsentUserAssumption, UserOfAssumption
  <2>5. Stage(j)
    BY <2>2, <2>4 DEF Stage, CallSteps
  <2> QED BY <1>0, <1>1, <2>1, <2>2, <2>5, SoloLooks
<1>2. CASE Goto(w, [job[w] EXCEPT !.step = "findSessions"])
  <2>1. PICK j : j = [job[w] EXCEPT !.step = "findSessions"]
    OBVIOUS
  <2>2. j.step = "findSessions" /\ j.inbox = job[w].inbox
    BY <1>0, <2>1 DEF Job
  <2>3. Stage(j)
    BY <2>2 DEF Stage, CallSteps
  <2> QED BY <1>0, <1>2, <2>1, <2>2, <2>3, SoloLooks
<1> QED BY <1>1, <1>2 DEF FindAccount

LEMMA SoloFindSessions ==
  ASSUME NEW w \in Workers, TypeOK, SoloInv(w), FindSessions(w)
  PROVE  SoloInv(w)'
<1>0. job[w] \in Job /\ job[w].step = "findSessions" /\ UNCHANGED <<serviceVars, tables>>
  BY DEF FindSessions, TypeOK, TablesTyped
<1>1. PICK j : j = [job[w] EXCEPT !.step = "findOrder", !.todo = ActiveSessions(Payer(job[w]))]
  OBVIOUS
<1>2. /\ j.step = "findOrder" /\ j.inbox = job[w].inbox
      /\ j.todo = ActiveSessions(Payer(job[w]))
  BY <1>0, <1>1 DEF Job
<1>3. j.todo = ActiveSessions(Payer(j))
  BY <1>2 DEF Payer
<1>4. Stage(j)
  BY <1>2, <1>3 DEF Stage, CallSteps
<1>5. Goto(w, j)
  BY <1>1 DEF FindSessions
<1> QED BY <1>0, <1>2, <1>4, <1>5, SoloLooks

\* A session that waits for a deposit is live and has an order.
LEMMA WaitingIsActive ==
  ASSUME NEW s \in Sessions, NEW u, UserOf[s] = u, WaitsForDeposit(s)
  PROVE  s \in ActiveSessions(u) /\ OrdersOf(s) # {}
BY AbsentAssumption DEF WaitsForDeposit, ActiveSessions, TERMINAL_STATES, SessionState

LEMMA SoloFindOrder ==
  ASSUME NEW w \in Workers, TypeOK, SoloInv(w), FindOrder(w)
  PROVE  SoloInv(w)'
<1> DEFINE i == job[w]
<1>0. i \in Job /\ i.step = "findOrder" /\ UNCHANGED <<serviceVars, tables>>
  BY DEF FindOrder, TypeOK, TablesTyped
<1>a. /\ i.todo \subseteq ActiveSessions(Payer(i))
      /\ \A t \in ActiveSessions(Payer(i)) \ i.todo : OrdersOf(t) = {}
  BY <1>0 DEF SoloInv, Stage
<1>b. ActiveSessions(Payer(i)) \subseteq Sessions /\ Sessions \subseteq Nat
  BY SessionIdAssumption DEF ActiveSessions
<1>1. CASE i.todo = {} /\ Goto(w, [i EXCEPT !.step = "markProcessed"])
  <2>1. PICK j : j = [i EXCEPT !.step = "markProcessed"]
    OBVIOUS
  <2>2. j.step = "markProcessed" /\ j.inbox = i.inbox
    BY <1>0, <2>1 DEF Job
  <2>3. Payer(j) = Payer(i)
    BY <2>2 DEF Payer
  <2>4. \A s \in Sessions : UserOf[s] = Payer(j) => ~ WaitsForDeposit(s)
    BY <1>1, <1>a, <2>3, WaitingIsActive
  <2>5. Stage(j)
    BY <2>2, <2>4 DEF Stage, CallSteps
  <2> QED BY <1>0, <1>1, <2>1, <2>2, <2>5, SoloLooks
<1>2. ASSUME NEW s \in i.todo, OrdersOf(s) = {}, Goto(w, [i EXCEPT !.todo = @ \ {s}])
      PROVE  SoloInv(w)'
  <2>1. PICK j : j = [i EXCEPT !.todo = @ \ {s}]
    OBVIOUS
  <2>2. j.step = "findOrder" /\ j.inbox = i.inbox /\ j.todo = i.todo \ {s}
    BY <1>0, <2>1 DEF Job
  <2>3. Payer(j) = Payer(i)
    BY <2>2 DEF Payer
  <2>4. /\ j.todo \subseteq ActiveSessions(Payer(j))
        /\ \A t \in ActiveSessions(Payer(j)) \ j.todo : OrdersOf(t) = {}
    BY <1>2, <1>a, <2>2, <2>3
  <2>5. Stage(j)
    BY <2>2, <2>4 DEF Stage, CallSteps
  <2> QED BY <1>0, <1>2, <2>1, <2>2, <2>5, SoloLooks
<1>3. ASSUME NEW s \in i.todo, Newest(s, i.todo), NEW o \in OrdersOf(s), Newest(o, OrdersOf(s)),
             Goto(w, WithOrder(i, s, o))
      PROVE  SoloInv(w)'
  <2>1. PICK j : j = WithOrder(i, s, o)
    OBVIOUS
  <2>2. /\ j.step = "recordDeposit" /\ j.inbox = i.inbox /\ j.session = s
        /\ j.order = o /\ j.row = orders[o]
    BY <1>0, <2>1 DEF Job, WithOrder
  <2>3. Payer(j) = Payer(i)
    BY <2>2 DEF Payer
  <2>4. s \in Sessions /\ UserOf[s] = Payer(j) /\ sessionState[s] \notin TERMINAL_STATES
    BY <1>a, <2>3 DEF ActiveSessions
  <2>5. sessionState[s] \in {"compliance_pending", "order_filled"}
    <3>1. RowsBehind(i, s)
      BY <2>4 DEF SoloInv, Behind
    <3>2. sessionState[s] \in Traded
      BY <1>0, <3>1 DEF RowsBehind
    <3> QED BY <2>4, <3>2 DEF Traded, TERMINAL_STATES
  <2>6. \A t \in ActiveSessions(Payer(j)) : t > s => OrdersOf(t) = {}
    <3> SUFFICES ASSUME NEW t \in ActiveSessions(Payer(j)), t > s PROVE OrdersOf(t) = {}
      OBVIOUS
    <3>0. t \in Nat /\ s \in Nat
      BY <1>b, <2>3, <2>4
    <3>1. t \in i.todo => t <= s
      BY <1>3 DEF Newest
    <3>2. t \notin i.todo
      BY <3>0, <3>1
    <3> QED BY <1>a, <2>3, <3>2
  <2>7. Matched(j)
    BY <2>2, <2>4, <2>5, <2>6 DEF Matched
  <2>8. Stage(j)
    BY <1>3, <2>2, <2>7 DEF Stage, CallSteps
  <2> QED BY <1>0, <1>3, <2>1, <2>2, <2>8, SoloLooks
<1> QED BY <1>1, <1>2, <1>3 DEF FindOrder

\* A delivery that fills nothing leaves no session of its user's waiting: the
\* matched one is the only one that could, and its newest order is not cleared,
\* is filled, or has failed.
LEMMA NoFillNoneWaits ==
  ASSUME NEW w \in Workers, TypeOK, SoloInv(w), job[w].step = "recordDeposit",
         ~ isOffRampFill(job[w]),
         NEW s \in Sessions, UserOf[s] = Payer(job[w]), WaitsForDeposit(s)
  PROVE  FALSE
<1> DEFINE j == job[w]
<1>1. /\ UserOf[j.session] = Payer(j)
      /\ OrdersOf(j.session) # {}
      /\ \A t \in ActiveSessions(Payer(j)) : t > j.session => OrdersOf(t) = {}
      /\ Newest(j.order, OrdersOf(j.session)) /\ j.row = orders[j.order]
  BY DEF SoloInv, Stage, Matched
<1>2. s \in ActiveSessions(Payer(j)) /\ OrdersOf(s) # {}
  BY WaitingIsActive
<1>3. j.order \in Ids(orders) /\ orders[j.order].session = j.session /\ orders[j.order] \in Order
  <2>1. j.order \in Ids(orders) /\ orders[j.order].session = j.session
    BY <1>1 DEF Newest, OrdersOf
  <2> QED BY <2>1, RowType DEF TypeOK, TablesTyped
<1>4. j.session \in Sessions
  BY <1>3 DEF Order
<1>5. s = j.session
  <2>1. ~ s > j.session
    BY <1>1, <1>2
  <2>2. ~ j.session > s
    BY <1>1, <1>4 DEF WaitsForDeposit
  <2>3. s \in Nat /\ j.session \in Nat
    BY <1>4, SessionIdAssumption
  <2> QED BY <2>1, <2>2, <2>3
<1>6. /\ DirectionOf[s] = "off_ramp" /\ sessionState[s] = "compliance_pending"
      /\ orders[j.order].compliance = "cleared"
  <2>1. PICK o \in OrdersOf(s) : Newest(o, OrdersOf(s)) /\ orders[o].compliance = "cleared"
    BY DEF WaitsForDeposit
  <2>2. o \in Nat /\ j.order \in Nat
    BY <1>3, RowType DEF TypeOK, TablesTyped, OrdersOf
  <2>3. o = j.order
    BY <1>1, <1>5, <2>1, <2>2 DEF Newest
  <2> QED BY <2>1, <2>3 DEF WaitsForDeposit
<1>7. orders[j.order].status \notin {"filled", "failed"}
  BY <1>3, <1>5, <1>6 DEF SoloInv, Behind, OrderBehind
<1> QED BY <1>1, <1>3, <1>5, <1>6, <1>7 DEF isOffRampFill, Order

LEMMA SoloRecordDeposit ==
  ASSUME NEW w \in Workers, TypeOK, SoloInv(w), RecordDeposit(w)
  PROVE  SoloInv(w)'
<1> DEFINE i == job[w]
<1>0. /\ i \in Job /\ i.step = "recordDeposit"
      /\ UNCHANGED <<serviceVars, quotes, orders, inbox>>
  BY DEF RecordDeposit, TypeOK, TablesTyped
<1>1. CASE isOffRampFill(i)
  <2>1. PICK j : j = [i EXCEPT !.step = "fillFromDeposit"]
    OBVIOUS
  <2>2. j.step = "fillFromDeposit" /\ j.inbox = i.inbox /\ j.session = i.session
    BY <1>0, <2>1 DEF Job
  <2>3. Matched(j) /\ DirectionOf[j.session] = "off_ramp"
    BY <1>0, <1>1, <2>2 DEF SoloInv, Stage, Matched, Payer, isOffRampFill
  <2>4. Stage(j)
    BY <2>2, <2>3 DEF Stage, CallSteps
  <2>5. Goto(w, j)
    BY <1>1, <2>1 DEF RecordDeposit
  <2> QED BY <1>0, <2>2, <2>4, <2>5, SoloReads DEF CallSteps, Ahead, InboxSteps
<1>2. CASE ~ isOffRampFill(i)
  <2>1. PICK j : j = [i EXCEPT !.step = "markProcessed"]
    OBVIOUS
  <2>2. j.step = "markProcessed" /\ j.inbox = i.inbox
    BY <1>0, <2>1 DEF Job
  <2>3. Payer(j) = Payer(i)
    BY <2>2 DEF Payer
  <2>4. \A s \in Sessions : UserOf[s] = Payer(j) => ~ WaitsForDeposit(s)
    BY <1>0, <1>2, <2>3, NoFillNoneWaits
  <2>5. Stage(j)
    BY <2>2, <2>4 DEF Stage, CallSteps
  <2>6. Goto(w, j)
    BY <1>2, <2>1 DEF RecordDeposit
  <2> QED BY <1>0, <2>2, <2>5, <2>6, SoloReads DEF CallSteps, Ahead, InboxSteps
<1> QED BY <1>1, <1>2

\* A result is taken: what the job was told of its session is so.
LEMMA SoloResult ==
  ASSUME NEW w \in Workers, TypeOK, SoloInv(w), NEW e, ResultTaken(w, e), UNCHANGED tables
  PROVE  /\ call'[w].step = "idle" /\ UNCHANGED <<sessionState, quotes, orders, inbox>>
         /\ job[w] \in Job /\ job[w].step \in CallSteps /\ job[w].session \in Sessions
         /\ sessionState[job[w].session] \in SessionState
         /\ e = "ok" => sessionState[job[w].session] \in Asked(job[w].step)
         /\ e # "ok" =>
              \E to \in Asked(job[w].step) :
                /\ to # sessionState[job[w].session]
                /\ to \notin BASE_TRANSITIONS(sessionState[job[w].session])
<1>1. call[w].step = "returned" /\ call[w].outcome = e /\ call' = [call EXCEPT ![w] = IdleFrame]
  BY DEF ResultTaken
<1>2. call'[w].step = "idle"
  BY <1>1 DEF TypeOK, IdleFrame
<1>3. job[w] \in Job /\ job[w].step \in CallSteps /\ job[w].session \in Sessions
  BY <1>1 DEF SoloInv, SoloCall, Stage, TypeOK, TablesTyped
<1>4. UNCHANGED <<sessionState, quotes, orders, inbox>>
  BY DEF ResultTaken, tables
<1>5. sessionState[job[w].session] \in SessionState
  BY <1>3 DEF TypeOK
<1> QED BY <1>1, <1>2, <1>3, <1>4, <1>5 DEF SoloInv, SoloCall

\* The job resumes and becomes j.
LEMMA SoloResumes ==
  ASSUME NEW w \in Workers, TypeOK, SoloInv(w), NEW j, Goto(w, j), call'[w].step = "idle",
         UNCHANGED <<sessionState, quotes, orders, inbox>>,
         j.step \notin CallSteps, Stage(j), Behind(j),
         job[w].step \in InboxSteps => j.step \in InboxSteps /\ j.inbox = job[w].inbox
  PROVE  SoloInv(w)'
<1>1. Stage(j)'
  BY DEF Stage, Matched, ActiveSessions, OrdersOf, Newest, Payer, WaitsForDeposit
<1>2. Behind(j)'
  BY DEF Behind, RowsBehind, OrderBehind, OrdersOf, QuotesOf
<1>3. Handled(j)'
  BY HandledStays
<1> QED BY <1>1, <1>2, <1>3, SoloGoes

LEMMA SoloQuoteRequested ==
  ASSUME NEW w \in Workers, TypeOK, SoloInv(w), QuoteRequested(w)
  PROVE  SoloInv(w)'
<1> DEFINE i == job[w]
<1>0. i.step = "quoteRequested" /\ UNCHANGED tables
  BY DEF QuoteRequested
<1>1. CASE ResultTaken(w, "ok") /\ Goto(w, [i EXCEPT !.step = "createQuote"])
  <2>0. /\ call'[w].step = "idle" /\ UNCHANGED <<sessionState, quotes, orders, inbox>>
        /\ i \in Job /\ sessionState[i.session] = "quote_requested"
    BY <1>0, <1>1, SoloResult DEF Asked
  <2>1. PICK j : j = [i EXCEPT !.step = "createQuote"]
    OBVIOUS
  <2>2. j.step = "createQuote" /\ j.session = i.session
    BY <2>0, <2>1 DEF Job
  <2>3. Stage(j)
    BY <2>0, <2>2 DEF Stage, CallSteps
  <2>4. Behind(j)
    BY <1>0, <2>2 DEF SoloInv, Behind, RowsBehind, OrderBehind
  <2> QED BY <1>0, <1>1, <2>0, <2>1, <2>2, <2>3, <2>4, SoloResumes DEF CallSteps, InboxSteps
<1>2. ASSUME NEW e \in Outcome \ {"ok"}, ResultTaken(w, e), Finish(w) PROVE SoloInv(w)'
  <2>1. /\ call'[w].step = "idle" /\ UNCHANGED <<sessionState, quotes, orders, inbox>>
        /\ sessionState[i.session] # "quote_requested"
    BY <1>0, <1>2, SoloResult DEF Asked
  <2>2. Behind(NoJob)
    BY <1>0, <2>1 DEF SoloInv, Behind, RowsBehind, OrderBehind
  <2> QED BY <1>0, <1>2, <2>1, <2>2, NoJobFits, SoloResumes DEF Finish, Goto, InboxSteps
<1> QED BY <1>1, <1>2 DEF QuoteRequested, Threw

LEMMA SoloQuoteReady ==
  ASSUME NEW w \in Workers, TypeOK, SoloInv(w), QuoteReady(w)
  PROVE  SoloInv(w)'
<1> DEFINE i == job[w]
<1>0. i.step = "quoteReady" /\ UNCHANGED tables /\ Finish(w)
  BY DEF QuoteReady
<1>1. PICK e \in Outcome : ResultTaken(w, e)
  BY DEF QuoteReady, Threw, Outcome
<1>2. /\ call'[w].step = "idle" /\ UNCHANGED <<sessionState, quotes, orders, inbox>>
      /\ sessionState[i.session] = "quote_ready"
  <2>1. sessionState[i.session] \in {"quote_requested", "quote_ready"}
    BY <1>0 DEF SoloInv, Stage
  <2>2. "quote_ready" \in BASE_TRANSITIONS("quote_requested")
    BY Edges DEF SessionState
  <2> QED BY <1>0, <1>1, <2>1, <2>2, SoloResult DEF Asked
<1>3. Behind(NoJob)
  BY <1>0, <1>2 DEF SoloInv, Behind, RowsBehind, OrderBehind
<1> QED BY <1>0, <1>2, <1>3, NoJobFits, SoloResumes DEF Finish, Goto, InboxSteps

LEMMA SoloOrderSubmitted ==
  ASSUME NEW w \in Workers, TypeOK, SoloInv(w), OrderSubmitted(w)
  PROVE  SoloInv(w)'
<1> DEFINE i == job[w]
<1>0. i.step = "orderSubmitted" /\ UNCHANGED tables /\ Finish(w)
  BY DEF OrderSubmitted
<1>1. PICK e \in Outcome : ResultTaken(w, e)
  BY DEF OrderSubmitted, Threw, Outcome
<1>2. /\ call'[w].step = "idle" /\ UNCHANGED <<sessionState, quotes, orders, inbox>>
      /\ sessionState[i.session] # "quote_ready"
  <2>1. "compliance_pending" \in BASE_TRANSITIONS("quote_ready")
    BY Edges DEF SessionState
  <2> QED BY <1>0, <1>1, <2>1, SoloResult DEF Asked
<1>3. Behind(NoJob)
  BY <1>0, <1>2 DEF SoloInv, Behind, RowsBehind, OrderBehind
<1> QED BY <1>0, <1>2, <1>3, NoJobFits, SoloResumes DEF Finish, Goto, InboxSteps

LEMMA SoloOrderMoved ==
  ASSUME NEW w \in Workers, TypeOK, SoloInv(w), OrderMoved(w)
  PROVE  SoloInv(w)'
<1>0. job[w].step = "orderMoved" /\ UNCHANGED tables /\ Finish(w)
  BY DEF OrderMoved
<1>1. PICK e \in Outcome : ResultTaken(w, e)
  BY DEF OrderMoved, Threw, Outcome
<1>2. call'[w].step = "idle" /\ UNCHANGED <<sessionState, quotes, orders, inbox>>
  BY <1>0, <1>1, SoloResult
<1>3. Behind(NoJob)
  BY <1>0 DEF SoloInv, Behind, RowsBehind, OrderBehind
<1> QED BY <1>0, <1>2, <1>3, NoJobFits, SoloResumes DEF Finish, Goto, InboxSteps

\* The session is filled, so none of the user's waits any more.
LEMMA SoloDepositMatched ==
  ASSUME NEW w \in Workers, TypeOK, SoloInv(w), DepositMatched(w)
  PROVE  SoloInv(w)'
<1> DEFINE i == job[w]
<1>0. i.step = "depositMatched" /\ UNCHANGED tables
  BY DEF DepositMatched
<1>1. PICK e \in Outcome : ResultTaken(w, e)
  BY DEF DepositMatched, Threw, Outcome
<1>2. /\ UserOf[i.session] = Payer(i) /\ OrdersOf(i.session) # {}
      /\ sessionState[i.session] \in {"compliance_pending", "order_filled"}
      /\ \A t \in ActiveSessions(Payer(i)) : t > i.session => OrdersOf(t) = {}
  BY <1>0 DEF SoloInv, Stage, Matched
<1>3. /\ call'[w].step = "idle" /\ UNCHANGED <<sessionState, quotes, orders, inbox>>
      /\ i \in Job /\ i.session \in Sessions
      /\ e = "ok" /\ sessionState[i.session] = "order_filled"
  <2>1. "order_filled" \in BASE_TRANSITIONS("compliance_pending")
    BY Edges DEF SessionState
  <2> QED BY <1>0, <1>1, <1>2, <2>1, SoloResult DEF Asked
<1>4. Goto(w, [i EXCEPT !.step = "markProcessed"])
  BY <1>1, <1>3 DEF DepositMatched, Threw, ResultTaken
<1>5. PICK j : j = [i EXCEPT !.step = "markProcessed"]
  OBVIOUS
<1>6. j.step = "markProcessed" /\ j.inbox = i.inbox
  BY <1>3, <1>5 DEF Job
<1>7. Payer(j) = Payer(i)
  BY <1>6 DEF Payer
<1>8. ASSUME NEW s \in Sessions, UserOf[s] = Payer(j), WaitsForDeposit(s) PROVE FALSE
  <2>1. s \in ActiveSessions(Payer(i)) /\ OrdersOf(s) # {}
    BY <1>7, <1>8, WaitingIsActive
  <2>2. ~ s > i.session
    BY <1>2, <2>1
  <2>3. ~ i.session > s
    BY <1>2, <1>3, <1>7, <1>8 DEF WaitsForDeposit
  <2>4. s \in Nat /\ i.session \in Nat
    BY <1>3, SessionIdAssumption
  <2>5. s = i.session
    BY <2>2, <2>3, <2>4
  <2> QED BY <1>3, <1>8, <2>5 DEF WaitsForDeposit
<1>9. Stage(j)
  BY <1>6, <1>8 DEF Stage, CallSteps
<1>10. Behind(j)
  BY <1>0, <1>3 DEF SoloInv, Behind, RowsBehind, OrderBehind
<1> QED BY <1>3, <1>4, <1>5, <1>6, <1>9, <1>10, SoloResumes DEF CallSteps, InboxSteps

\* The job ends, having written rows: none of its kind calls transition().
LEMMA SoloEnds ==
  ASSUME NEW w \in Workers, TypeOK, SoloInv(w), Finish(w), UNCHANGED serviceVars,
         job[w].step \notin CallSteps, Behind(NoJob)', Handled(NoJob)'
  PROVE  SoloInv(w)'
<1>1. call'[w].step = "idle"
  BY DEF SoloInv, SoloCall, serviceVars
<1>2. Stage(NoJob)'
  BY NoJobFits DEF Stage, CallSteps
<1> QED BY <1>1, <1>2, NoJobFits, SoloGoes DEF Finish, Goto

\* A session's quotes, when quotes are updated in place.
LEMMA SameQuotes ==
  ASSUME Ids(quotes)' = Ids(quotes),
         \A q \in Ids(quotes) : quotes'[q].session = quotes[q].session,
         NEW s
  PROVE  QuotesOf(s)' = QuotesOf(s)
BY DEF QuotesOf

LEMMA SoloExpireQuotes ==
  ASSUME NEW w \in Workers, TypeOK, JobOK(job[w]), SoloInv(w), ExpireQuotes(w)
  PROVE  SoloInv(w)'
<1> DEFINE i == job[w]
<1>0. /\ i \in Job /\ i.step = "expireQuotes" /\ i.session \in Sessions
      /\ i.seen = sessionState[i.session] /\ UNCHANGED <<orders, inbox>>
  BY DEF ExpireQuotes, TypeOK, TablesTyped, JobOK, QuoteSteps, SoloInv, Stage
<1>1. \A s \in Sessions : QuotesOf(s)' = QuotesOf(s)
  <2>1. \A q \in Ids(quotes) : quotes[q] \in Quote
    BY RowType DEF TypeOK, TablesTyped
  <2>2. Ids(quotes)' = Ids(quotes)
    BY DEF ExpireQuotes, Ids
  <2>3. \A q \in Ids(quotes) : quotes'[q].session = quotes[q].session
    BY <2>1 DEF ExpireQuotes, Quote, Ids
  <2> QED BY <2>2, <2>3, SameQuotes
<1>2. CASE CallFrom(w, i.session, "quote_requested", "quote_requested",
                    [i EXCEPT !.step = "quoteRequested"])
  <2>1. PICK j : j = [i EXCEPT !.step = "quoteRequested"]
    OBVIOUS
  <2>2. j.step = "quoteRequested" /\ j.session = i.session
    BY <1>0, <2>1 DEF Job
  <2>3. UNCHANGED sessionState
    BY <1>2 DEF CallFrom, Ask
  <2>4. Stage(j)'
    BY <1>0, <2>2 DEF Stage, CallSteps
  <2>5. Behind(j)'
    BY <1>0, <1>1, <2>3, BehindStays DEF Ahead
  <2>6. Handled(j)'
    BY <1>0, HandledStays DEF InboxSteps
  <2>7. PICK s \in Sessions : s = i.session
    BY <1>0
  <2>8. "quote_requested" \in Asked(j.step) /\ j.step \in CallSteps
    BY <2>2 DEF Asked, CallSteps
  <2>9. CallFrom(w, s, "quote_requested", "quote_requested", j)
    BY <1>2, <2>1, <2>7
  <2> QED BY <2>2, <2>4, <2>5, <2>6, <2>7, <2>8, <2>9, SoloCalls
<1>3. CASE i.seen = "quote_requested" /\ Goto(w, [i EXCEPT !.step = "createQuote"])
           /\ UNCHANGED serviceVars
  <2>1. PICK j : j = [i EXCEPT !.step = "createQuote"]
    OBVIOUS
  <2>2. j.step = "createQuote" /\ j.session = i.session
    BY <1>0, <2>1 DEF Job
  <2>3. UNCHANGED <<sessionState, call>> /\ call'[w].step = "idle"
    BY <1>0, <1>3 DEF serviceVars, SoloInv, SoloCall, CallSteps
  <2>4. Stage(j)'
    BY <1>0, <1>3, <2>2, <2>3 DEF Stage, CallSteps
  <2>5. Behind(j)'
    BY <1>0, <1>1, <2>3, BehindStays DEF Ahead
  <2>6. Handled(j)'
    BY <1>0, HandledStays DEF InboxSteps
  <2> QED BY <1>3, <2>1, <2>2, <2>3, <2>4, <2>5, <2>6, SoloGoes DEF CallSteps
<1> QED BY <1>2, <1>3 DEF ExpireQuotes

LEMMA SoloCreateQuote ==
  ASSUME NEW w \in Workers, TypeOK, JobOK(job[w]), SoloInv(w), CreateQuote(w)
  PROVE  SoloInv(w)'
<1> DEFINE i == job[w]
<1>0. /\ i \in Job /\ i.step = "createQuote" /\ i.session \in Sessions
      /\ sessionState[i.session] = "quote_requested" /\ UNCHANGED <<sessionState, orders, inbox>>
  BY DEF CreateQuote, TypeOK, TablesTyped, JobOK, QuoteSteps, SoloInv, Stage, CallFrom, Ask
<1>1. \A s \in Sessions \ {i.session} : QuotesOf(s)' = QuotesOf(s)
  <2>1. PICK r : r = [session |-> i.session, status |-> "ready", lapsed |-> FALSE]
    OBVIOUS
  <2>2. r \in Quote /\ r.session = i.session /\ quotes' = Append(quotes, r)
    BY <1>0, <2>1 DEF Quote, CreateQuote
  <2>3. PICK n : n = Len(quotes) + 1
    OBVIOUS
  <2>4. /\ \A q \in Ids(quotes) : q \in Ids(quotes') /\ quotes'[q] = quotes[q]
        /\ \A q \in Ids(quotes') : q \in Ids(quotes) \/ q = n
        /\ quotes'[n] = r
    BY <2>2, <2>3, RowAppended DEF TypeOK, TablesTyped
  <2> QED BY <2>2, <2>4 DEF QuotesOf, Ids
<1>2. PICK j : j = [i EXCEPT !.step = "quoteReady"]
  OBVIOUS
<1>3. j.step = "quoteReady" /\ j.session = i.session
  BY <1>0, <1>2 DEF Job
<1>4. Stage(j)'
  BY <1>0, <1>3 DEF Stage, CallSteps
<1>5. Behind(j)'
  <2>1. ASSUME NEW s \in Sessions PROVE RowsBehind(j, s)'
    <3>1. CASE s # i.session
      BY <1>0, <1>1, <1>3, <3>1 DEF SoloInv, Behind, RowsBehind, OrdersOf
    <3>2. CASE s = i.session
      BY <1>0, <1>3, <3>2 DEF SoloInv, Behind, RowsBehind, OrdersOf, Traded
    <3> QED BY <3>1, <3>2
  <2>2. ASSUME NEW o \in Ids(orders) PROVE OrderBehind(j, o)'
    BY <1>0 DEF SoloInv, Behind, OrderBehind
  <2> QED BY <1>0, <2>1, <2>2 DEF Behind
<1>6. Handled(j)'
  BY <1>0, HandledStays DEF InboxSteps
<1>7. PICK s \in Sessions : s = i.session
  BY <1>0
<1>8. "quote_ready" \in Asked(j.step) /\ j.step \in CallSteps
  BY <1>3 DEF Asked, CallSteps
<1>9. CallFrom(w, s, "quote_ready", "quote_created", j)
  BY <1>2, <1>7 DEF CreateQuote
<1> QED BY <1>3, <1>4, <1>5, <1>6, <1>7, <1>8, <1>9, SoloCalls

LEMMA SoloWriteAccepted ==
  ASSUME NEW w \in Workers, TypeOK, JobOK(job[w]), SoloInv(w), WriteAccepted(w)
  PROVE  SoloInv(w)'
<1>0. /\ job[w].step = "acceptQuote" /\ job[w].quote \in Ids(quotes) /\ Finish(w)
      /\ UNCHANGED <<serviceVars, orders, inbox>>
  BY DEF WriteAccepted, JobOK
<1>1. \A s \in Sessions : QuotesOf(s)' = QuotesOf(s)
  <2>1. \A q \in Ids(quotes) : quotes[q] \in Quote
    BY RowType DEF TypeOK, TablesTyped
  <2>2. PICK r : r = [quotes[job[w].quote] EXCEPT !.status = "accepted"]
    OBVIOUS
  <2>3. r \in Quote /\ r.session = quotes[job[w].quote].session
    BY <1>0, <2>1, <2>2, QuoteStatus
  <2>4. quotes' = [quotes EXCEPT ![job[w].quote] = r]
    BY <2>2 DEF WriteAccepted
  <2>5. /\ Ids(quotes') = Ids(quotes)
        /\ quotes'[job[w].quote] = r
        /\ \A q \in Ids(quotes) \ {job[w].quote} : quotes'[q] = quotes[q]
    BY <1>0, <2>3, <2>4, ExceptSeq, LenProperties DEF Ids, TypeOK, TablesTyped
  <2> QED BY <2>3, <2>5, SameQuotes DEF Ids
<1>2. Behind(NoJob)'
  BY <1>0, <1>1, BehindStays DEF Ahead, serviceVars
<1>3. Handled(NoJob)'
  BY <1>0, HandledStays DEF InboxSteps
<1> QED BY <1>0, <1>2, <1>3, SoloEnds DEF CallSteps

LEMMA SoloCreateOrder ==
  ASSUME NEW w \in Workers, TypeOK, JobOK(job[w]), SoloInv(w), CreateOrder(w)
  PROVE  SoloInv(w)'
<1> DEFINE i == job[w]
<1>0. /\ i \in Job /\ i.step = "createOrder" /\ i.session \in Sessions
      /\ sessionState[i.session] \in Quoted
      /\ UNCHANGED <<sessionState, quotes, inbox>>
  BY DEF CreateOrder, TypeOK, TablesTyped, JobOK, OrderSteps, SoloInv, Stage, CallFrom, Ask
<1>1. PICK r : r = [ session |-> i.session, quote |-> i.quote, provider |-> i.provider,
                     compliance |-> i.answer, status |-> "compliance_pending" ]
  OBVIOUS
<1>2. /\ r \in Order /\ r.session = i.session /\ r.status = "compliance_pending"
      /\ orders' = Append(orders, r)
  BY <1>0, <1>1 DEF Order, Job, CreateOrder
<1>3. PICK n : n = Len(orders) + 1
  OBVIOUS
<1>4. /\ \A o \in Ids(orders) : o \in Ids(orders') /\ orders'[o] = orders[o]
      /\ \A o \in Ids(orders') : o \in Ids(orders) \/ o = n
      /\ orders'[n] = r
  BY <1>2, <1>3, RowAppended DEF TypeOK, TablesTyped
<1>5. PICK j : j = [i EXCEPT !.step = "orderSubmitted"]
  OBVIOUS
<1>6. j.step = "orderSubmitted" /\ j.session = i.session
  BY <1>0, <1>5 DEF Job
<1>7. Stage(j)'
  BY <1>0, <1>6 DEF Stage, CallSteps
<1>8. Behind(j)'
  <2>1. ASSUME NEW s \in Sessions PROVE RowsBehind(j, s)'
    <3>1. CASE s # i.session
      <4>1. OrdersOf(s)' = OrdersOf(s) /\ QuotesOf(s)' = QuotesOf(s)
        BY <1>0, <1>2, <1>4, <3>1 DEF OrdersOf, QuotesOf, Ids
      <4> QED BY <1>0, <1>6, <3>1, <4>1 DEF SoloInv, Behind, RowsBehind
    <3>2. CASE s = i.session
      BY <1>0, <1>6, <3>2 DEF RowsBehind, Quoted
    <3> QED BY <3>1, <3>2
  <2>2. ASSUME NEW o \in Ids(orders') PROVE OrderBehind(j, o)'
    BY <1>0, <1>2, <1>4 DEF SoloInv, Behind, OrderBehind
  <2> QED BY <2>1, <2>2 DEF Behind, Ids
<1>9. Handled(j)'
  BY <1>0, HandledStays DEF InboxSteps
<1>10. PICK s \in Sessions : s = i.session
  BY <1>0
<1>11. "compliance_pending" \in Asked(j.step) /\ j.step \in CallSteps
  BY <1>6 DEF Asked, CallSteps
<1>12. CallFrom(w, s, "compliance_pending", "order_submitted", j)
  BY <1>5, <1>10 DEF CreateOrder
<1> QED BY <1>6, <1>7, <1>8, <1>9, <1>10, <1>11, <1>12, SoloCalls

\* An order row is written in place, and job w becomes j.
LEMMA SoloOrderWritten ==
  ASSUME NEW w \in Workers, TypeOK, SoloInv(w), job[w].step \notin Ahead,
         NEW o \in Ids(orders), NEW r, r.session = orders[o].session,
         orders' = [orders EXCEPT ![o] = r], r \in Order,
         UNCHANGED <<sessionState, quotes>>, NEW j,
         r.status = "failed" => r.compliance = "rejected",
         r.status = "filled" /\ DirectionOf[r.session] = "off_ramp" =>
           j.step = "depositMatched" /\ j.session = r.session
  PROVE  Behind(j)' /\ \A s \in Sessions : OrdersOf(s)' = OrdersOf(s)
<1>1. /\ Ids(orders') = Ids(orders)
      /\ orders'[o] = r
      /\ \A k \in Ids(orders) \ {o} : orders'[k] = orders[k]
  BY ExceptSeq, LenProperties DEF Ids, TypeOK, TablesTyped
<1>2. \A s \in Sessions : OrdersOf(s)' = OrdersOf(s)
  BY <1>1 DEF OrdersOf, Ids
<1>3. ASSUME NEW s \in Sessions PROVE RowsBehind(j, s)'
  <2>1. QuotesOf(s)' = QuotesOf(s)
    BY DEF QuotesOf
  <2> QED BY <1>2, <2>1 DEF SoloInv, Behind, RowsBehind, Ahead
<1>4. ASSUME NEW k \in Ids(orders') PROVE OrderBehind(j, k)'
  BY <1>1 DEF SoloInv, Behind, OrderBehind, Ahead
<1> QED BY <1>2, <1>3, <1>4 DEF Behind, Ids

\* The rows a poll writes.
LEMMA SoloRow ==
  ASSUME TypeOK, NEW o \in Ids(orders), NEW compliance \in ComplianceStatus,
         NEW status \in {"submitted", "filled", "failed"}, WriteOrder(o, compliance, status)
  PROVE  /\ orders[o].session \in Sessions
         /\ \E r \in Order :
              /\ r.session = orders[o].session
              /\ r.compliance = compliance /\ r.status = status
              /\ orders' = [orders EXCEPT ![o] = r]
<1>1. orders[o] \in Order
  BY RowType DEF TypeOK, TablesTyped
<1>2. PICK r : r = [orders[o] EXCEPT !.compliance = compliance, !.status = status]
  OBVIOUS
<1>3. /\ r \in Order /\ r.session = orders[o].session
      /\ r.compliance = compliance /\ r.status = status /\ orders[o].session \in Sessions
  BY <1>1, <1>2 DEF Order, Reported
<1>4. orders' = [orders EXCEPT ![o] = r]
  BY <1>2 DEF WriteOrder
<1> QED BY <1>3, <1>4

LEMMA SoloClearOrder ==
  ASSUME NEW w \in Workers, TypeOK, JobOK(job[w]), SoloInv(w), ClearOrder(w)
  PROVE  SoloInv(w)'
<1>0. /\ job[w].step = "clearOrder" /\ job[w].order \in Ids(orders) /\ Finish(w)
      /\ UNCHANGED <<serviceVars, quotes, inbox>>
  BY DEF ClearOrder, JobOK, PollSteps
<1>1. PICK r \in Order :
        /\ r.session = orders[job[w].order].session
        /\ r.compliance = "cleared" /\ r.status = "submitted"
        /\ orders' = [orders EXCEPT ![job[w].order] = r]
  BY <1>0, SoloRow DEF ClearOrder, ComplianceStatus
<1>2. Behind(NoJob)'
  BY <1>0, <1>1, SoloOrderWritten DEF Ahead, serviceVars
<1>3. Handled(NoJob)'
  BY <1>0, HandledStays DEF InboxSteps
<1> QED BY <1>0, <1>2, <1>3, SoloEnds DEF CallSteps

\* A poll moves the session of its order to to.
LEMMA SoloPollWrites ==
  ASSUME NEW w \in Workers, TypeOK, JobOK(job[w]), SoloInv(w), job[w].step \in PollSteps,
         NEW compliance \in ComplianceStatus, NEW to \in {"failed", "order_filled"}, NEW reason,
         NEW status \in {"filled", "failed"},
         WriteOrder(job[w].order, compliance, status),
         CallFrom(w, job[w].session, to, reason, [job[w] EXCEPT !.step = "orderMoved"]),
         UNCHANGED <<quotes, inbox>>,
         to = "order_filled" => reason \in SETTLEMENT_REASONS,
         status = "failed" => compliance = "rejected",
         status = "filled" => DirectionOf[job[w].session] = "on_ramp"
  PROVE  SoloInv(w)'
<1> DEFINE i == job[w]
<1>0. /\ i \in Job /\ i.order \in Ids(orders) /\ i.session = orders[i.order].session
      /\ UNCHANGED sessionState /\ i.step \notin Ahead \cup InboxSteps
  BY DEF TypeOK, TablesTyped, JobOK, PollSteps, CallFrom, Ask, Ahead, InboxSteps
<1>1. PICK r \in Order :
        /\ r.session = orders[i.order].session
        /\ r.compliance = compliance /\ r.status = status
        /\ orders' = [orders EXCEPT ![i.order] = r]
  BY <1>0, SoloRow
<1>2. i.session \in Sessions
  BY <1>0, <1>1 DEF Order
<1>3. PICK j : j = [i EXCEPT !.step = "orderMoved"]
  OBVIOUS
<1>4. j.step = "orderMoved" /\ j.session = i.session
  BY <1>0, <1>3 DEF Job
<1>5. Stage(j)'
  BY <1>2, <1>4 DEF Stage
<1>6. Behind(j)'
  BY <1>0, <1>1, SoloOrderWritten
<1>7. Handled(j)'
  BY <1>0, HandledStays
<1>8. PICK s \in Sessions : s = i.session
  BY <1>2
<1>9. to \in Asked(j.step) /\ j.step \in CallSteps
  BY <1>4 DEF Asked, CallSteps
<1>10. CallFrom(w, s, to, reason, j)
  BY <1>3, <1>8
<1> QED BY <1>4, <1>5, <1>6, <1>7, <1>8, <1>9, <1>10, SoloCalls

LEMMA SoloRejectOrder ==
  ASSUME NEW w \in Workers, TypeOK, JobOK(job[w]), SoloInv(w), RejectOrder(w)
  PROVE  SoloInv(w)'
BY SoloPollWrites DEF RejectOrder, PollSteps, ComplianceStatus

LEMMA SoloFillOrder ==
  ASSUME NEW w \in Workers, TypeOK, JobOK(job[w]), SoloInv(w), FillOrder(w)
  PROVE  SoloInv(w)'
<1>1. DirectionOf[job[w].session] = "on_ramp"
  BY DEF FillOrder, JobOK
<1> QED BY <1>1, SoloPollWrites DEF FillOrder, PollSteps, ComplianceStatus, SETTLEMENT_REASONS

LEMMA SoloFillFromDeposit ==
  ASSUME NEW w \in Workers, TypeOK, JobOK(job[w]), SoloInv(w), FillFromDeposit(w)
  PROVE  SoloInv(w)'
<1> DEFINE i == job[w]
           o == job[w].order
<1>0. /\ i \in Job /\ i.step = "fillFromDeposit" /\ o \in Ids(orders)
      /\ i.session = orders[o].session /\ DirectionOf[i.session] = "off_ramp" /\ Matched(i)
      /\ UNCHANGED <<sessionState, quotes, inbox>>
  BY DEF FillFromDeposit, TypeOK, TablesTyped, JobOK, SoloInv, Stage, CallFrom, Ask
<1>1. orders[o] \in Order
  BY <1>0, RowType DEF TypeOK, TablesTyped
<1>2. PICK r : r = [orders[o] EXCEPT !.status = "filled"]
  OBVIOUS
<1>3. r \in Order /\ r.session = orders[o].session /\ r.status = "filled" /\ i.session \in Sessions
  BY <1>0, <1>1, <1>2 DEF Order
<1>4. orders' = [orders EXCEPT ![o] = r]
  BY <1>2 DEF FillFromDeposit
<1>5. PICK j : j = [i EXCEPT !.step = "depositMatched"]
  OBVIOUS
<1>6. j.step = "depositMatched" /\ j.session = i.session /\ j.inbox = i.inbox
  BY <1>0, <1>5 DEF Job
<1>7. Behind(j)' /\ \A s \in Sessions : OrdersOf(s)' = OrdersOf(s)
  BY <1>0, <1>3, <1>4, <1>6, SoloOrderWritten DEF Ahead
<1>8. Stage(j)'
  <2>1. Payer(j)' = Payer(i) /\ ActiveSessions(Payer(j))' = ActiveSessions(Payer(i))
    BY <1>0, <1>6 DEF Payer, ActiveSessions
  <2>2. ActiveSessions(Payer(i)) \subseteq Sessions
    BY DEF ActiveSessions
  <2>3. Matched(j)'
    BY <1>0, <1>3, <1>6, <1>7, <2>1, <2>2 DEF Matched
  <2> QED BY <1>0, <1>3, <1>6, <2>3 DEF Stage
<1>9. Handled(j)'
  BY <1>0, <1>6, HandledStays DEF InboxSteps
<1>10. PICK s \in Sessions : s = i.session
  BY <1>3
<1>11. "order_filled" \in Asked(j.step) /\ j.step \in CallSteps
  BY <1>6 DEF Asked, CallSteps
<1>12. CallFrom(w, s, "order_filled", "fiat_deposit_matched", j)
  BY <1>5, <1>10 DEF FillFromDeposit
<1> QED BY <1>6, <1>7, <1>8, <1>9, <1>10, <1>11, <1>12, SoloCalls DEF SETTLEMENT_REASONS

LEMMA SoloReceiveDeposit ==
  ASSUME NEW w \in Workers, TypeOK, SoloInv(w), NEW d \in Deposits, ReceiveDeposit(w, d)
  PROVE  SoloInv(w)'
<1>0. job[w].step = "none" /\ UNCHANGED <<serviceVars, quotes, orders>>
  BY DEF ReceiveDeposit, Idle
<1>1. PICK r : r = [deposit |-> d, processed |-> FALSE]
  OBVIOUS
<1>2. r \in InboxEntry /\ inbox' = Append(inbox, r)
  BY <1>1 DEF InboxEntry, ReceiveDeposit
<1>3. PICK n : n = Len(inbox) + 1
  OBVIOUS
<1>4. /\ \A k \in Ids(inbox) : k \in Ids(inbox') /\ inbox'[k] = inbox[k]
      /\ \A k \in Ids(inbox') : k \in Ids(inbox) \/ k = n
      /\ Len(inbox') = n
  BY <1>2, <1>3, RowAppended DEF TypeOK, TablesTyped
<1>5. PICK j : j = [NoJob EXCEPT !.step = "findAccount", !.inbox = Len(inbox')]
  OBVIOUS
<1>6. j.step = "findAccount" /\ j.inbox = n
  BY <1>4, <1>5 DEF NoJob
<1>7. Goto(w, j)
  BY <1>5 DEF ReceiveDeposit
<1>8. call'[w].step = "idle" /\ UNCHANGED sessionState
  BY <1>0 DEF SoloInv, SoloCall, CallSteps, serviceVars
<1>9. Stage(j)'
  BY <1>6 DEF Stage, CallSteps
<1>10. Behind(j)'
  BY <1>0, <1>8, BehindStays DEF Ahead, QuotesOf
<1>11. Handled(j)'
  BY <1>0, <1>4, <1>6 DEF SoloInv, Handled, InboxSteps, Ids
<1> QED BY <1>6, <1>7, <1>8, <1>9, <1>10, <1>11, SoloGoes DEF CallSteps

LEMMA SoloMarkProcessed ==
  ASSUME NEW w \in Workers, TypeOK, JobOK(job[w]), SoloInv(w), MarkProcessed(w)
  PROVE  SoloInv(w)'
<1>0. /\ job[w].step = "markProcessed" /\ job[w].inbox \in Ids(inbox) /\ Finish(w)
      /\ UNCHANGED <<serviceVars, quotes, orders>>
  BY DEF MarkProcessed, JobOK, InboxSteps
<1>1. inbox[job[w].inbox] \in InboxEntry
  BY <1>0, RowType DEF TypeOK, TablesTyped
<1>2. PICK r : r = [inbox[job[w].inbox] EXCEPT !.processed = TRUE]
  OBVIOUS
<1>3. r \in InboxEntry /\ r.processed = TRUE /\ inbox' = [inbox EXCEPT ![job[w].inbox] = r]
  BY <1>1, <1>2 DEF InboxEntry, MarkProcessed
<1>4. /\ Ids(inbox') = Ids(inbox)
      /\ inbox'[job[w].inbox] = r
      /\ \A k \in Ids(inbox) \ {job[w].inbox} : inbox'[k] = inbox[k]
  BY <1>0, <1>3, ExceptSeq, LenProperties DEF Ids, TypeOK, TablesTyped
<1>5. Handled(NoJob)'
  BY <1>0, <1>3, <1>4 DEF SoloInv, Handled, Ids
<1>6. Behind(NoJob)'
  BY <1>0, BehindStays DEF Ahead, QuotesOf, serviceVars
<1> QED BY <1>0, <1>5, <1>6, SoloEnds DEF CallSteps

-----------------------------------------------------------------------------

\* Time and the provider pass a job by.
LEMMA SoloQuiet ==
  ASSUME NEW w \in Workers, SoloInv(w), UNCHANGED <<serviceVars, orders, inbox, job>>,
         \A s \in Sessions : QuotesOf(s)' = QuotesOf(s)
  PROVE  SoloInv(w)'
<1>0. UNCHANGED <<sessionState, call>>
  BY DEF serviceVars
<1>1. SoloCall(job[w], call[w])'
  BY <1>0 DEF SoloInv, SoloCall
<1>2. Stage(job[w])'
  BY <1>0 DEF SoloInv, Stage, Matched, ActiveSessions, OrdersOf, Newest, Payer, WaitsForDeposit
<1>3. Behind(job[w])'
  BY <1>0 DEF SoloInv, Behind, RowsBehind, OrderBehind, OrdersOf
<1>4. Handled(job[w])'
  BY DEF SoloInv, Handled
<1> QED BY <1>1, <1>2, <1>3, <1>4 DEF SoloInv

LEMMA SoloQuoteLapses ==
  ASSUME NEW w \in Workers, TypeOK, SoloInv(w), NEW q \in Ids(quotes), QuoteLapses(q)
  PROVE  SoloInv(w)'
<1>1. quotes[q] \in Quote
  BY RowType DEF TypeOK, TablesTyped
<1>2. PICK r : r = [quotes[q] EXCEPT !.lapsed = TRUE]
  OBVIOUS
<1>3. r \in Quote /\ r.session = quotes[q].session /\ quotes' = [quotes EXCEPT ![q] = r]
  BY <1>1, <1>2 DEF Quote, QuoteLapses
<1>4. /\ Ids(quotes') = Ids(quotes)
      /\ quotes'[q] = r
      /\ \A k \in Ids(quotes) \ {q} : quotes'[k] = quotes[k]
  BY <1>3, ExceptSeq, LenProperties DEF Ids, TypeOK, TablesTyped
<1>5. \A s \in Sessions : QuotesOf(s)' = QuotesOf(s)
  BY <1>3, <1>4, SameQuotes DEF Ids
<1> QED BY <1>5, SoloQuiet DEF QuoteLapses

LEMMA SoloStart ==
  ASSUME NEW w \in Workers, TypeOK, SoloInv(w), StartJob(w)
  PROVE  SoloInv(w)'
BY SoloRequestQuote, SoloAcceptQuote, SoloSubmitOrder, SoloPollOrder, SoloReceiveDeposit
   DEF StartJob

LEMMA SoloJobStep ==
  ASSUME NEW w \in Workers, TypeOK, JobOK(job[w]), SoloInv(w), JobStepOf(w)
  PROVE  SoloInv(w)'
BY SoloExpireQuotes, SoloQuoteRequested, SoloCreateQuote, SoloQuoteReady, SoloWriteAccepted,
   SoloPlaceOrder, SoloCreateOrder, SoloOrderSubmitted,
   SoloAskProvider, SoloClearOrder, SoloRejectOrder, SoloFillOrder, SoloOrderMoved,
   SoloFindAccount, SoloFindSessions, SoloFindOrder, SoloRecordDeposit,
   SoloFillFromDeposit, SoloDepositMatched, SoloMarkProcessed
   DEF JobStepOf

LEMMA SoloNext ==
  ASSUME NEW w, Alone(w), TypeOK, JobsOK, SoloInv(w), [Next]_vars
  PROVE  SoloInv(w)'
<1>0. w \in Workers /\ JobOK(job[w]) /\ \A p \in Workers : p = w
  BY DEF Alone, JobsOK
<1>1. CASE UNCHANGED vars
  BY <1>0, <1>1, SoloQuiet DEF vars, tables, QuotesOf
<1>2. CASE StartJob(w)
  BY <1>0, <1>2, SoloStart
<1>3. CASE TransitionStep(w) /\ UNCHANGED <<tables, job>>
  BY <1>0, <1>3, SoloCallGoes, SoloUpdate DEF TransitionStep
<1>4. CASE JobStepOf(w)
  BY <1>0, <1>4, SoloJobStep
<1>5. ~ QueryFails(w) /\ ~ JobFails(w)
  BY DEF Alone, QueryFails, JobFails
<1>6. ASSUME NEW q \in Ids(quotes), QuoteLapses(q) PROVE SoloInv(w)'
  BY <1>0, <1>6, SoloQuoteLapses
<1>7. ASSUME NEW k \in Ids(provider),
             (\E v \in {"cleared", "rejected"} : ProviderDecides(k, v)) \/ ProviderFills(k)
      PROVE  SoloInv(w)'
  BY <1>0, <1>7, SoloQuiet DEF ProviderDecides, ProviderFills, QuotesOf
<1> QED BY <1>0, <1>1, <1>2, <1>3, <1>4, <1>5, <1>6, <1>7 DEF Next, Work

LEMMA SoloInit ==
  ASSUME NEW w, Alone(w), Init PROVE SoloInv(w)
<1>1. w \in Workers /\ job[w] = NoJob /\ call[w] = IdleFrame
  BY DEF Alone, Init
<1>2. SoloCall(NoJob, IdleFrame)
  BY NoJobFits DEF SoloCall, IdleFrame, Awaited
<1>3. Ids(quotes) = {} /\ Ids(orders) = {} /\ Ids(inbox) = {}
  BY DEF Init, Ids
<1>4. Behind(NoJob) /\ Handled(NoJob)
  BY <1>3 DEF Behind, RowsBehind, OrderBehind, OrdersOf, QuotesOf, Handled
<1> QED BY <1>1, <1>2, <1>4, NoJobFits DEF SoloInv

LEMMA SoloInvariance ==
  ASSUME NEW w, Alone(w) PROVE Spec => [](TypeOK /\ SoloInv(w))
<1>1. DeliveryInv /\ Opened => TypeOK /\ JobsOK
  BY DEF DeliveryInv, TradeInv, Typed, CallTypes, Opened, TypeOK
<1>2. Init => SoloInv(w)
  BY SoloInit
<1>3. DeliveryInv /\ Opened /\ SoloInv(w) /\ [Next]_vars => SoloInv(w)'
  BY <1>1, SoloNext
<1> QED BY <1>1, <1>2, <1>3, Invariance, PTL DEF Spec

\* With one worker, no failure and the strict graph no delivery is lost on its
\* way through the webhook: the transition a matched deposit asks for is never
\* refused, for any users, sessions, orders and deliveries.
THEOREM DeliveriesHandled ==
  ASSUME NEW w, Workers = {w}, ~ MayFail, ~ RelaxStateGuards
  PROVE  Spec => []IdleServerProcessed
<1>1. Spec => [](TypeOK /\ SoloInv(w))
  BY SoloInvariance DEF Alone
<1>2. SoloInv(w) => IdleServerProcessed
  BY DEF SoloInv, Handled, Idle, InboxSteps, IdleServerProcessed
<1> QED BY <1>1, <1>2, PTL

\* Under the same conditions a deposit is matched to the session that waits for
\* it, and fills it before the delivery is marked processed.
THEOREM NoSessionPassedOver ==
  ASSUME NEW w, Workers = {w}, ~ MayFail, ~ RelaxStateGuards
  PROVE  Spec => []NonePassedOver
<1>1. Spec => [](TypeOK /\ SoloInv(w))
  BY SoloInvariance DEF Alone
<1>2. SoloInv(w) => NonePassedOver
  BY DEF SoloInv, Stage, NonePassedOver
<1> QED BY <1>1, <1>2, PTL

=============================================================================
