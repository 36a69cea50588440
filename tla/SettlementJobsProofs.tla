------------------------ MODULE SettlementJobsProofs ------------------------
(***************************************************************************)
(* Lemmas about quotes, orders, the poll and deposits, for any sessions,   *)
(* workers, deposits and bounds, with any handlers overlapping and any     *)
(* statement failing.  They are about TradeStep, a step of a job or of the *)
(* provider, and Elsewhere, what anything else may do to the sessions, so  *)
(* that they serve Settlement as well as Ramp.                             *)
(*                                                                         *)
(* A handler writes what it read some awaits ago.  That this does no harm  *)
(* to what is proved here is because the facts it relies on never go back: *)
(* an order keeps its session and provider id, the provider decides once,  *)
(* a fill and a credit are never undone.  Grows says so of a step, JobOK   *)
(* what a job relies on, and Settled what a session filled stands on.      *)
(***************************************************************************)
EXTENDS SettlementJobs, SequenceTheorems, FiniteSetTheorems, TLAPS

\* What may stand behind order o's row being cleared or filled.
Supported(o) ==
  \/ ProviderOf(o).compliance = "cleared"
  \/ /\ DirectionOf[orders[o].session] = "on_ramp"
     /\ ProviderOf(o).status = "filled"

RowOK(o) ==
  /\ orders[o].compliance = "rejected" => ProviderOf(o).compliance = "rejected"
  /\ orders[o].compliance = "cleared" => Supported(o)
  /\ orders[o].status = "filled" => Supported(o)
  /\ orders[o].compliance = "rejected" => orders[o].status \in {"compliance_pending", "failed"}

RowsOK == \A o \in Ids(orders) : RowOK(o)

ProviderOK ==
  \A k \in Ids(provider) : provider[k].status = "filled" => provider[k].compliance # "rejected"

Settled(s) ==
  \E o \in OrdersOf(s) :
    \/ /\ DirectionOf[s] = "on_ramp"
       /\ ProviderOf(o).status = "filled"
    \/ /\ DirectionOf[s] = "off_ramp"
       /\ ProviderOf(o).compliance = "cleared"
       /\ \E c \in credited : c.session = s

Rejected(s) == \E o \in OrdersOf(s) : ProviderOf(o).compliance = "rejected"

\* What has to stand behind a session that is, or is about to be, in state st.
Warranted(s, st) ==
  /\ st = "order_filled" => Settled(s)
  /\ st = "failed" => Rejected(s)

\* Where a job is about a quote, an order or a delivery.
QuoteSteps == {"expireQuotes", "quoteRequested", "createQuote", "quoteReady"}
OrderSteps == {"placeOrder", "createOrder"}
PollSteps  == {"clearOrder", "rejectOrder", "fillOrder"}
InboxSteps == {"findAccount", "findSessions", "findOrder", "recordDeposit",
               "fillFromDeposit", "depositMatched", "markProcessed"}

JobOK(j) ==
  /\ j.step \in QuoteSteps => j.session \in Sessions
  /\ j.step = "acceptQuote" => j.quote \in Ids(quotes)
  /\ j.step \in OrderSteps =>
       /\ j.session \in Sessions
       /\ j.quote \in Ids(quotes)
       /\ quotes[j.quote].session = j.session
  /\ j.step = "createOrder" =>
       /\ j.provider \in Ids(provider)
       /\ j.answer \in {"cleared", "rejected"} => provider[j.provider].compliance = j.answer
  /\ j.step \in PollSteps \cup {"askProvider"} =>
       /\ j.order \in Ids(orders)
       /\ j.session = orders[j.order].session
       /\ j.provider = orders[j.order].provider
  /\ j.step = "clearOrder" => provider[j.provider].compliance = "cleared"
  /\ j.step = "rejectOrder" => provider[j.provider].compliance = "rejected"
  /\ j.step = "fillOrder" =>
       DirectionOf[j.session] = "on_ramp" /\ provider[j.provider].status = "filled"
  /\ j.step \in InboxSteps => j.inbox \in Ids(inbox)
  /\ j.step \in {"recordDeposit", "fillFromDeposit"} =>
       /\ j.order \in Ids(orders)
       /\ j.session = orders[j.order].session
  /\ j.step = "recordDeposit" /\ j.row.compliance = "cleared" => Supported(j.order)
  /\ j.step = "fillFromDeposit" =>
       /\ DirectionOf[j.session] = "off_ramp"
       /\ ProviderOf(j.order).compliance = "cleared"
       /\ \E c \in credited : c.session = j.session

JobsOK == \A p \in Workers : JobOK(job[p])

\* A call that is about to fill a session has a settlement behind it, one that
\* is about to fail it a rejection.
CallsOK == \A p \in Workers : InFlight(p) => Warranted(call[p].session, call[p].to)

SessionsOK == \A s \in Sessions : Warranted(s, sessionState[s])

CallTypes ==
  /\ sessionState \in [Sessions -> SessionState \cup {Absent}]
  /\ call \in [Workers -> Frame]

Typed == CallTypes /\ TablesTyped

TradeInv == Typed /\ RowsOK /\ ProviderOK /\ JobsOK /\ CallsOK /\ SessionsOK

-----------------------------------------------------------------------------
(***************************************************************************)
(* Tables                                                                  *)
(***************************************************************************)

LEMMA RowAppended ==
  ASSUME NEW Row, NEW table \in Seq(Row), NEW r \in Row
  PROVE  /\ Append(table, r) \in Seq(Row)
         /\ Len(Append(table, r)) = Len(table) + 1
         /\ Ids(table) = 1..Len(table)
         /\ Ids(Append(table, r)) = 1..(Len(table) + 1)
         /\ \A i \in Ids(table) : Append(table, r)[i] = table[i]
         /\ Append(table, r)[Len(table) + 1] = r
         /\ Len(table) \in Nat
         /\ Len(table) + 1 \in Ids(Append(table, r))
BY LenProperties DEF Ids

LEMMA RowType ==
  ASSUME NEW Row, NEW table \in Seq(Row), NEW i \in Ids(table)
  PROVE  table[i] \in Row /\ i \in Nat
BY LenProperties DEF Ids


-----------------------------------------------------------------------------
(***************************************************************************)
(* What never goes back                                                    *)
(***************************************************************************)

\* Rows stay, and keep what jobs and sessions rely on.
Grows ==
  /\ \A q \in Ids(quotes) : q \in Ids(quotes') /\ quotes'[q].session = quotes[q].session
  /\ \A o \in Ids(orders) :
       /\ o \in Ids(orders')
       /\ orders'[o].session = orders[o].session
       /\ orders'[o].quote = orders[o].quote
       /\ orders'[o].provider = orders[o].provider
  /\ \A k \in Ids(provider) :
       /\ k \in Ids(provider')
       /\ provider[k].compliance # "pending" => provider'[k].compliance = provider[k].compliance
       /\ provider[k].status = "filled" => provider'[k].status = "filled"
  /\ Ids(inbox) \subseteq Ids(inbox')
  /\ credited \subseteq credited'

References == \A o \in Ids(orders) : orders[o].provider \in Ids(provider)

LEMMA SupportStays ==
  ASSUME References, Grows, NEW o \in Ids(orders), Supported(o)
  PROVE  Supported(o)'
<1>1. orders[o].provider \in Ids(provider)
  BY DEF References
<1>2. orders'[o].session = orders[o].session /\ orders'[o].provider = orders[o].provider
  BY DEF Grows
<1>3. /\ provider[orders[o].provider].compliance = "cleared"
           => provider'[orders[o].provider].compliance = "cleared"
      /\ provider[orders[o].provider].status = "filled"
           => provider'[orders[o].provider].status = "filled"
  BY <1>1 DEF Grows
<1> QED BY <1>2, <1>3 DEF Supported, ProviderOf

LEMMA SettledStays ==
  ASSUME References, Grows, NEW s, Settled(s)
  PROVE  Settled(s)'
<1>1. PICK o \in OrdersOf(s) :
        \/ DirectionOf[s] = "on_ramp" /\ ProviderOf(o).status = "filled"
        \/ /\ DirectionOf[s] = "off_ramp"
           /\ ProviderOf(o).compliance = "cleared"
           /\ \E c \in credited : c.session = s
  BY DEF Settled
<1>2. o \in Ids(orders) /\ orders[o].session = s
  BY DEF OrdersOf
<1>3. orders[o].provider \in Ids(provider)
  BY <1>2 DEF References
<1>4. o \in OrdersOf(s)' /\ orders'[o].provider = orders[o].provider
  BY <1>2 DEF Grows, OrdersOf
<1>5. /\ provider[orders[o].provider].compliance = "cleared"
           => provider'[orders[o].provider].compliance = "cleared"
      /\ provider[orders[o].provider].status = "filled"
           => provider'[orders[o].provider].status = "filled"
      /\ credited \subseteq credited'
  BY <1>3 DEF Grows
<1> QED BY <1>1, <1>4, <1>5 DEF Settled, ProviderOf

LEMMA WarrantStays ==
  ASSUME References, Grows, NEW s, NEW st, Warranted(s, st)
  PROVE  Warranted(s, st)'
<1>1. st = "order_filled" => Settled(s)'
  BY SettledStays DEF Warranted
<1>2. ASSUME st = "failed" PROVE Rejected(s)'
  <2>1. PICK o \in OrdersOf(s) : ProviderOf(o).compliance = "rejected"
    BY <1>2 DEF Warranted, Rejected
  <2>2. o \in Ids(orders) /\ orders[o].session = s /\ orders[o].provider \in Ids(provider)
    BY DEF OrdersOf, References
  <2>3. /\ o \in OrdersOf(s)' /\ orders'[o].provider = orders[o].provider
        /\ provider'[orders[o].provider].compliance = "rejected"
    BY <2>1, <2>2 DEF Grows, OrdersOf, ProviderOf
  <2> QED BY <2>3 DEF Rejected, ProviderOf
<1> QED BY <1>1, <1>2 DEF Warranted

LEMMA JobStays ==
  ASSUME References, Grows, NEW j, JobOK(j)
  PROVE  JobOK(j)'
<1>1. j.step = "acceptQuote" => j.quote \in Ids(quotes)'
  BY DEF JobOK, Grows
<1>2. j.step \in OrderSteps =>
        /\ j.session \in Sessions
        /\ j.quote \in Ids(quotes)'
        /\ quotes'[j.quote].session = j.session
  BY DEF JobOK, Grows
<1>3. j.step = "createOrder" =>
        /\ j.provider \in Ids(provider)'
        /\ j.answer \in {"cleared", "rejected"} => provider'[j.provider].compliance = j.answer
  BY DEF JobOK, Grows
<1>4. j.step \in PollSteps \cup {"askProvider"} =>
        /\ j.order \in Ids(orders)'
        /\ j.session = orders'[j.order].session
        /\ j.provider = orders'[j.order].provider
  BY DEF JobOK, Grows
<1>5. j.step \in PollSteps => j.provider \in Ids(provider)
  BY DEF JobOK, References
<1>6. /\ j.step = "clearOrder" => provider'[j.provider].compliance = "cleared"
      /\ j.step = "rejectOrder" => provider'[j.provider].compliance = "rejected"
      /\ j.step = "fillOrder" =>
           DirectionOf[j.session] = "on_ramp" /\ provider'[j.provider].status = "filled"
  BY <1>5 DEF JobOK, Grows, PollSteps
<1>7. j.step \in InboxSteps => j.inbox \in Ids(inbox)'
  BY DEF JobOK, Grows
<1>8. j.step \in {"recordDeposit", "fillFromDeposit"} =>
        /\ j.order \in Ids(orders) /\ j.order \in Ids(orders)'
        /\ j.session = orders'[j.order].session
        /\ orders'[j.order].provider = orders[j.order].provider
        /\ orders[j.order].provider \in Ids(provider)
  BY DEF JobOK, Grows, References
<1>9. j.step = "recordDeposit" /\ j.row.compliance = "cleared" => Supported(j.order)'
  BY <1>8, SupportStays DEF JobOK
<1>10. j.step = "fillFromDeposit" =>
         /\ DirectionOf[j.session] = "off_ramp"
         /\ ProviderOf(j.order)'.compliance = "cleared"
         /\ \E c \in credited' : c.session = j.session
  BY <1>8 DEF JobOK, Grows, ProviderOf
<1>11. j.step \in QuoteSteps => j.session \in Sessions
  BY DEF JobOK
<1> QED BY <1>1, <1>2, <1>3, <1>4, <1>6, <1>7, <1>8, <1>9, <1>10, <1>11 DEF JobOK

LEMMA NothingChangedGrows ==
  ASSUME UNCHANGED tables PROVE Grows
BY DEF tables, Grows

\* Enough for the jobs: the one that moved is as it should be.
LEMMA JobsKept ==
  ASSUME References, Grows, JobsOK, NEW p \in Workers,
         \A q \in Workers \ {p} : job'[q] = job[q],
         JobOK(job[p])'
  PROVE  JobsOK'
<1>1. ASSUME NEW q \in Workers \ {p} PROVE JobOK(job[q])'
  <2>1. PICK j : j = job'[q] /\ JobOK(j)
    BY DEF JobsOK
  <2>2. JobOK(j)'
    BY <2>1, JobStays
  <2> QED BY <2>1, <2>2 DEF JobOK, Supported, ProviderOf, Ids
<1> QED BY <1>1 DEF JobsOK

-----------------------------------------------------------------------------
(***************************************************************************)
(* Calls of transition()                                                   *)
(***************************************************************************)

\* A step of transition(), whatever flags it reads.
CallGoesOn(p) ==
  \/ FindSession(p)
  \/ \E held : LoadFlags(p, held)
  \/ UpdateState(p)
  \/ AppendEvent(p)

\* All a step does to sessions and calls; a call made to fill or fail a session
\* has its warrant at hand.
ServiceMoves ==
  \/ UNCHANGED serviceVars
  \/ \E s \in Sessions : CreateSession(s)
  \/ \E p \in Workers :
       \/ CallGoesOn(p)
       \/ QueryFails(p)
       \/ \E e \in Outcome : ResultTaken(p, e)
       \/ \E s \in Sessions, to \in SessionState, r \in TransitionReason :
            Ask(p, s, to, r) /\ Warranted(s, to)'

LEMMA FrameKinds ==
  /\ IdleFrame \in RestFrame
  /\ \A o \in Outcome : Returned(o) \in RestFrame
  /\ \A s \in Sessions, to \in SessionState, r \in TransitionReason :
       Called(s, to, r) \in CallFrame /\ Called(s, to, r).to = to
                                      /\ Called(s, to, r).session = s
<1>1. IdleFrame \in RestFrame
  BY DEF IdleFrame, RestFrame, Outcome
<1>2. ASSUME NEW o \in Outcome PROVE Returned(o) \in RestFrame
  BY <1>1, <1>2 DEF Returned, RestFrame
<1>3. ASSUME NEW s \in Sessions, NEW to \in SessionState, NEW r \in TransitionReason
      PROVE  /\ Called(s, to, r) \in CallFrame /\ Called(s, to, r).to = to
             /\ Called(s, to, r).session = s
  BY <1>3 DEF Called, IdleFrame, CallFrame, Awaited
<1> QED BY <1>1, <1>2, <1>3

LEMMA AtRest ==
  ASSUME NEW f \in RestFrame PROVE f \in Frame /\ f.step \notin Awaited
BY DEF RestFrame, Frame, Awaited

LEMMA Awaiting ==
  ASSUME NEW f \in Frame, f.step \in Awaited PROVE f \in CallFrame
BY DEF Frame, RestFrame, Awaited

\* A frame that takes the place of another is of a call already under way, at
\* rest, or of a call for which the settlement is there.
Successor(f, g) ==
  /\ g \in Frame
  /\ \/ g.step \notin Awaited
     \/ f.step \in Awaited /\ g.to = f.to /\ g.session = f.session

LEMMA StateFoundSucceeds ==
  ASSUME NEW f \in CallFrame, NEW from \in SessionState \cup {Absent}
  PROVE  Successor(f, StateFound(f, from))
<1>1. CASE from = Absent \/ from = f.to
  <2>1. StateFound(f, from) \in {Returned("session_not_found"), Returned("ok")}
    BY <1>1 DEF StateFound
  <2> QED BY <2>1, FrameKinds, AtRest DEF Successor, Outcome
<1>2. CASE from # Absent /\ from # f.to
  <2>1. StateFound(f, from) = [f EXCEPT !.step = "loadFlags", !.from = from]
    BY <1>2 DEF StateFound
  <2>2. [f EXCEPT !.step = "loadFlags", !.from = from] \in CallFrame
    BY DEF CallFrame, Awaited
  <2> QED BY <2>1, <2>2 DEF Successor, Frame, CallFrame
<1> QED BY <1>1, <1>2

LEMMA VerdictKind ==
  ASSUME NEW f, NEW held PROVE Verdict(f, held) \in Outcome
BY DEF Verdict, assertCanTransition, Outcome

\* Every step of transition() but its two writes only moves its frame on.
LEMMA CallGoesOnSucceeds ==
  ASSUME CallTypes, NEW p \in Workers, CallGoesOn(p)
  PROVE  /\ \E g : call' = [call EXCEPT ![p] = g] /\ Successor(call[p], g)
         /\ \/ sessionState' = sessionState
            \/ /\ call[p] \in CallFrame
               /\ sessionState' = [sessionState EXCEPT ![call[p].session] = call[p].to]
<1>0. call[p] \in Frame /\ (call[p].step \in Awaited => call[p] \in CallFrame)
  BY Awaiting DEF CallTypes
<1>1. CASE FindSession(p)
  <2>1. call[p] \in CallFrame
    BY <1>0, <1>1 DEF FindSession, Awaited
  <2>2. sessionState[call[p].session] \in SessionState \cup {Absent}
    BY <2>1 DEF CallFrame, CallTypes
  <2>3. Successor(call[p], StateFound(call[p], sessionState[call[p].session]))
    BY <2>1, <2>2, StateFoundSucceeds
  <2> QED BY <1>1, <2>3 DEF FindSession
<1>2. ASSUME NEW held, LoadFlags(p, held)
      PROVE  \E g : call' = [call EXCEPT ![p] = g] /\ Successor(call[p], g)
  <2> DEFINE verdict == Verdict(call[p], held)
             g == IF verdict = "ok" THEN [call[p] EXCEPT !.step = "updateState"]
                                    ELSE Returned(verdict)
  <2>1. call[p] \in CallFrame /\ call[p].step \in Awaited
    BY <1>0, <1>2 DEF LoadFlags, Awaited
  <2>2. Successor(call[p], Returned(verdict))
    BY VerdictKind, FrameKinds, AtRest DEF Successor
  <2>3. Successor(call[p], [call[p] EXCEPT !.step = "updateState"])
    BY <2>1 DEF Successor, Frame, CallFrame, Awaited
  <2>4. Successor(call[p], g)
    BY <2>2, <2>3
  <2> QED BY <1>2, <2>4 DEF LoadFlags
<1>3. CASE UpdateState(p)
  <2>1. call[p] \in CallFrame /\ call[p].step \in Awaited
    BY <1>0, <1>3 DEF UpdateState, Awaited
  <2>2. Successor(call[p], [call[p] EXCEPT !.step = "appendEvent"])
    BY <2>1 DEF Successor, Frame, CallFrame, Awaited
  <2> QED BY <1>3, <2>1, <2>2 DEF UpdateState
<1>4. CASE AppendEvent(p)
  BY <1>4, FrameKinds, AtRest DEF AppendEvent, Successor, Outcome
<1> QED BY <1>1, <1>2, <1>3, <1>4 DEF CallGoesOn, LoadFlags

LEMMA ServiceKept ==
  ASSUME CallTypes, References, CallsOK, SessionsOK, Grows, ServiceMoves
  PROVE  (CallTypes /\ CallsOK /\ SessionsOK)'
<1> DEFINE WarrantedCall(f) == \E s \in Sessions, to \in SessionState :
                                f.session = s /\ f.to = to /\ Warranted(s, to)
           WarrantedNext(f) == \E s \in Sessions, to \in SessionState :
                                f.session = s /\ f.to = to /\ Warranted(s, to)'
<1>a. /\ sessionState \in [Sessions -> SessionState \cup {Absent}]
      /\ call \in [Workers -> Frame]
      /\ \A s \in Sessions : Warranted(s, sessionState[s])
  BY DEF CallTypes, SessionsOK
<1>b. \A s, st : Warranted(s, st) => Warranted(s, st)'
  BY WarrantStays
<1>d. \A p \in Workers : call[p].step \in Awaited => WarrantedCall(call[p])
  <2> SUFFICES ASSUME NEW p \in Workers, call[p].step \in Awaited
               PROVE  WarrantedCall(call[p])
    OBVIOUS
  <2>1. call[p].session \in Sessions /\ call[p].to \in SessionState
    BY <1>a, Awaiting DEF CallFrame
  <2>2. Warranted(call[p].session, call[p].to)
    BY DEF CallsOK, InFlight
  <2> QED BY <2>1, <2>2
<1>n. \A f : WarrantedCall(f) => WarrantedNext(f)
  BY <1>b
<1>c. ASSUME CallTypes',
             \A p \in Workers : call'[p].step \in Awaited => WarrantedNext(call'[p]),
             \A s \in Sessions : \E st : sessionState'[s] = st /\ Warranted(s, st)'
      PROVE  (CallTypes /\ CallsOK /\ SessionsOK)'
  <2>1. CallsOK'
    <3> SUFFICES ASSUME NEW p \in Workers, InFlight(p)'
                 PROVE  Warranted(call[p].session, call[p].to)'
      BY DEF CallsOK
    <3>1. PICK s \in Sessions, to \in SessionState :
            call'[p].session = s /\ call'[p].to = to /\ Warranted(s, to)'
      BY <1>c DEF InFlight
    <3> QED BY <3>1 DEF Warranted, Settled, Rejected, OrdersOf
  <2>2. SessionsOK'
    <3> SUFFICES ASSUME NEW s \in Sessions PROVE Warranted(s, sessionState[s])'
      BY DEF SessionsOK
    <3>1. PICK st : sessionState'[s] = st /\ Warranted(s, st)'
      BY <1>c
    <3> QED BY <3>1 DEF Warranted, Settled, Rejected, OrdersOf
  <2> QED BY <1>c, <2>1, <2>2
<1>e. ASSUME NEW p \in Workers, NEW g \in Frame, call' = [call EXCEPT ![p] = g],
             Successor(call[p], g) \/ WarrantedNext(g)
      PROVE  /\ call' \in [Workers -> Frame]
             /\ \A q \in Workers : call'[q].step \in Awaited => WarrantedNext(call'[q])
  <2>1. call' \in [Workers -> Frame]
    BY <1>a, <1>e
  <2>2. call'[p] = g /\ \A q \in Workers \ {p} : call'[q] = call[q]
    BY <1>a, <1>e
  <2>3. ASSUME NEW q \in Workers \ {p}, call'[q].step \in Awaited PROVE WarrantedNext(call'[q])
    <3>1. WarrantedCall(call[q]) /\ call'[q] = call[q]
      BY <1>d, <2>2, <2>3
    <3> QED BY <1>n, <3>1
  <2>4. ASSUME g.step \in Awaited PROVE WarrantedNext(g)
    <3>1. CASE Successor(call[p], g)
      <4>1. WarrantedCall(call[p]) /\ g.to = call[p].to /\ g.session = call[p].session
        BY <1>d, <2>4, <3>1 DEF Successor
      <4> QED BY <1>n, <4>1
    <3> QED BY <1>e, <3>1
  <2> QED BY <2>1, <2>2, <2>3, <2>4
<1>1. CASE UNCHANGED serviceVars
  <2>1. CallTypes' /\ call' = call /\ sessionState' = sessionState
    BY <1>1 DEF serviceVars, CallTypes
  <2>2. \A p \in Workers : call'[p].step \in Awaited => WarrantedNext(call'[p])
    BY <1>d, <1>n, <2>1
  <2>3. \A s \in Sessions : \E st : sessionState'[s] = st /\ Warranted(s, st)'
    BY <1>a, <1>b, <2>1
  <2> QED BY <1>c, <2>1, <2>2, <2>3
<1>2. ASSUME NEW p \in Workers, CallGoesOn(p) PROVE (CallTypes /\ CallsOK /\ SessionsOK)'
  <2>1. PICK g : call' = [call EXCEPT ![p] = g] /\ Successor(call[p], g)
    BY <1>2, CallGoesOnSucceeds
  <2>2. /\ call' \in [Workers -> Frame]
        /\ \A q \in Workers : call'[q].step \in Awaited => WarrantedNext(call'[q])
    BY <1>e, <2>1 DEF Successor
  <2>3. CASE sessionState' = sessionState
    <3>1. \A s \in Sessions : \E st : sessionState'[s] = st /\ Warranted(s, st)'
      BY <1>a, <1>b, <2>3
    <3> QED BY <1>a, <1>c, <2>2, <2>3, <3>1 DEF CallTypes
  <2>4. CASE /\ call[p] \in CallFrame
             /\ sessionState' = [sessionState EXCEPT ![call[p].session] = call[p].to]
    <3>1. PICK f : f = call[p]
      OBVIOUS
    <3>2. f.session \in Sessions /\ f.to \in SessionState /\ f.step \in Awaited
      BY <2>4, <3>1 DEF CallFrame
    <3>3. Warranted(f.session, f.to)'
      BY <1>b, <1>d, <3>1, <3>2
    <3>4. /\ sessionState' \in [Sessions -> SessionState \cup {Absent}]
          /\ \A s \in Sessions : sessionState'[s] = IF s = f.session THEN f.to ELSE sessionState[s]
      BY <1>a, <2>4, <3>1, <3>2
    <3>5. \A s \in Sessions : \E st : sessionState'[s] = st /\ Warranted(s, st)'
      BY <1>a, <1>b, <3>3, <3>4
    <3> QED BY <1>c, <2>2, <3>4, <3>5 DEF CallTypes
  <2> QED BY <1>2, <2>3, <2>4, CallGoesOnSucceeds
<1>3. ASSUME NEW p \in Workers, NEW g \in Frame, call' = [call EXCEPT ![p] = g],
             Successor(call[p], g) \/ WarrantedNext(g), sessionState' = sessionState
      PROVE  (CallTypes /\ CallsOK /\ SessionsOK)'
  <2>1. /\ call' \in [Workers -> Frame]
        /\ \A q \in Workers : call'[q].step \in Awaited => WarrantedNext(call'[q])
    BY <1>3, <1>e
  <2>2. \A s \in Sessions : \E st : sessionState'[s] = st /\ Warranted(s, st)'
    BY <1>3, <1>a, <1>b
  <2> QED BY <1>3, <1>a, <1>c, <2>1, <2>2 DEF CallTypes
<1>4. ASSUME NEW p \in Workers, QueryFails(p) \/ \E e \in Outcome : ResultTaken(p, e)
      PROVE  (CallTypes /\ CallsOK /\ SessionsOK)'
  <2>1. PICK g \in RestFrame : call' = [call EXCEPT ![p] = g] /\ sessionState' = sessionState
    BY <1>4, FrameKinds DEF QueryFails, ResultTaken, Outcome
  <2>2. g \in Frame /\ Successor(call[p], g)
    BY AtRest DEF Successor
  <2> QED BY <1>3, <2>1, <2>2
<1>5. ASSUME NEW p \in Workers,
             NEW s \in Sessions, NEW to \in SessionState, NEW r \in TransitionReason,
             Ask(p, s, to, r), Warranted(s, to)'
      PROVE  (CallTypes /\ CallsOK /\ SessionsOK)'
  <2>1. PICK g : g = Called(s, to, r)
    OBVIOUS
  <2>2. /\ call' = [call EXCEPT ![p] = g] /\ sessionState' = sessionState
        /\ g \in Frame /\ g.to = to /\ g.session = s
    BY <1>5, <2>1, FrameKinds DEF Ask, Frame
  <2>3. WarrantedNext(g)
    BY <1>5, <2>2
  <2> QED BY <1>3, <2>2, <2>3
<1>6. ASSUME NEW s \in Sessions, CreateSession(s)
      PROVE  (CallTypes /\ CallsOK /\ SessionsOK)'
  <2>1. PICK first : first = initialSessionState(DirectionOf[s])
    OBVIOUS
  <2>2. first \in SessionState \ {"order_filled", "failed"}
    BY <2>1 DEF initialSessionState, SessionState
  <2>3. call' = call /\ sessionState' = [sessionState EXCEPT ![s] = first]
    BY <1>6, <2>1 DEF CreateSession
  <2>4. \A p \in Workers : call'[p].step \in Awaited => WarrantedNext(call'[p])
    BY <1>d, <1>n, <2>3
  <2>5. Warranted(s, first)'
    BY <2>2 DEF Warranted
  <2>6. \A t \in Sessions : \E st : sessionState'[t] = st /\ Warranted(t, st)'
    BY <1>a, <1>b, <2>3, <2>5
  <2> QED BY <1>a, <1>c, <2>2, <2>3, <2>4, <2>6 DEF CallTypes
<1> QED BY <1>1, <1>2, <1>4, <1>5, <1>6 DEF ServiceMoves

-----------------------------------------------------------------------------
(***************************************************************************)
(* Tables a step has changed                                               *)
(***************************************************************************)

Reference(row) ==
  /\ row.quote \in Ids(quotes)
  /\ quotes[row.quote].session = row.session
  /\ row.provider \in Ids(provider)

TableTypes ==
  /\ quotes \in Seq(Quote)
  /\ orders \in Seq(Order)
  /\ \A o \in Ids(orders) : Reference(orders[o])
  /\ provider \in Seq(ProviderOrder)
  /\ inbox \in Seq(InboxEntry)
  /\ credited \subseteq [inbox : Ids(inbox), session : Sessions]

LEMMA TypeParts == Typed <=> CallTypes /\ TableTypes /\ job \in [Workers -> Job]
BY DEF Typed, TablesTyped, CallTypes, TableTypes, Reference

TablesOK == TableTypes /\ RowsOK /\ ProviderOK

LEMMA TypesGiveReferences == TableTypes => References
BY DEF TableTypes, Reference, References

\* Rows of orders that are not touched keep what they say.
LEMMA RowStays ==
  ASSUME TableTypes, Grows, NEW o \in Ids(orders), RowOK(o), orders'[o] = orders[o]
  PROVE  RowOK(o)'
<1>1. orders[o].provider \in Ids(provider)
  BY TypesGiveReferences DEF References
<1>2. provider[orders[o].provider].compliance = "rejected"
        => provider'[orders'[o].provider].compliance = "rejected"
  BY <1>1 DEF Grows
<1>3. Supported(o) => Supported(o)'
  BY SupportStays, TypesGiveReferences
<1> QED BY <1>2, <1>3 DEF RowOK, ProviderOf

LEMMA ReferenceStays ==
  ASSUME TableTypes, Grows, NEW o \in Ids(orders)
  PROVE  Reference(orders[o])'
BY DEF TableTypes, Grows, Reference

\* Enough for the tables when no row of orders changes.
LEMMA OrdersUntouched ==
  ASSUME TablesOK, Grows, orders' = orders, ProviderOK',
         quotes' \in Seq(Quote), provider' \in Seq(ProviderOrder), inbox' \in Seq(InboxEntry),
         credited' \subseteq [inbox : Ids(inbox'), session : Sessions]
  PROVE  TablesOK'
<1>1. \A o \in Ids(orders') : Reference(orders[o])' /\ RowOK(o)'
  BY ReferenceStays, RowStays DEF TablesOK, RowsOK
<1> QED BY <1>1 DEF TablesOK, TableTypes, RowsOK, Ids

LEMMA ProviderUntouched ==
  ASSUME ProviderOK, provider' = provider PROVE ProviderOK'
BY DEF ProviderOK, Ids

LEMMA NothingChanged ==
  ASSUME TablesOK, UNCHANGED tables
  PROVE  TablesOK' /\ Grows
BY NothingChangedGrows DEF tables, TablesOK, TableTypes, Reference, RowsOK, RowOK, Supported,
   ProviderOf, ProviderOK, Ids

LEMMA QuotesChanged ==
  ASSUME TablesOK, quotes' \in Seq(Quote),
         \A q \in Ids(quotes) : q \in Ids(quotes') /\ quotes'[q].session = quotes[q].session,
         UNCHANGED <<orders, provider, inbox, credited>>
  PROVE  TablesOK' /\ Grows
<1>1. Grows
  BY DEF Grows, Ids
<1>2. ProviderOK'
  BY ProviderUntouched DEF TablesOK
<1> QED BY <1>1, <1>2, OrdersUntouched DEF TablesOK, TableTypes, Ids

LEMMA QuoteAdded ==
  ASSUME TablesOK, NEW r \in Quote, quotes' = Append(quotes, r),
         UNCHANGED <<orders, provider, inbox, credited>>
  PROVE  TablesOK' /\ Grows
<1>1. quotes \in Seq(Quote)
  BY DEF TablesOK, TableTypes
<1>2. /\ quotes' \in Seq(Quote)
      /\ \A q \in Ids(quotes) : q \in Ids(quotes') /\ quotes'[q] = quotes[q]
  BY <1>1, RowAppended
<1> QED BY <1>2, QuotesChanged

LEMMA QuoteWritten ==
  ASSUME TablesOK, NEW q \in Ids(quotes), NEW r \in Quote, r.session = quotes[q].session,
         quotes' = [quotes EXCEPT ![q] = r],
         UNCHANGED <<orders, provider, inbox, credited>>
  PROVE  TablesOK' /\ Grows
<1>1. quotes \in Seq(Quote)
  BY DEF TablesOK, TableTypes
<1>2. /\ quotes' \in Seq(Quote)
      /\ Ids(quotes') = Ids(quotes)
      /\ quotes'[q] = r
      /\ \A k \in Ids(quotes) \ {q} : quotes'[k] = quotes[k]
  BY <1>1, ExceptSeq, LenProperties DEF Ids
<1> QED BY <1>2, QuotesChanged

LEMMA OrderAdded ==
  ASSUME TablesOK, NEW r \in Order, Reference(r),
         r.compliance \in {"cleared", "rejected"} =>
           provider[r.provider].compliance = r.compliance,
         r.status = "compliance_pending",
         orders' = Append(orders, r),
         UNCHANGED <<quotes, provider, inbox, credited>>
  PROVE  TablesOK' /\ Grows
<1>1. orders \in Seq(Order)
  BY DEF TablesOK, TableTypes
<1>n. PICK n : n = Len(orders) + 1
  OBVIOUS
<1>2. /\ orders' \in Seq(Order)
      /\ \A o \in Ids(orders) : o \in Ids(orders') /\ orders'[o] = orders[o]
      /\ \A o \in Ids(orders') : o \in Ids(orders) \/ o = n
      /\ orders'[n] = r
  BY <1>1, <1>n, RowAppended
<1>3. Grows
  BY <1>2 DEF Grows, Ids
<1>4. ASSUME NEW o \in Ids(orders') PROVE Reference(orders[o])' /\ RowOK(o)'
  <2>1. CASE o \in Ids(orders)
    BY <1>2, <1>3, <2>1, ReferenceStays, RowStays DEF TablesOK, RowsOK
  <2>2. CASE o = n
    <3>1. Reference(r)' /\ orders'[o] = r
      BY <1>2, <2>2 DEF Reference, Ids
    <3>2. RowOK(o)'
      BY <3>1 DEF RowOK, Supported, ProviderOf
    <3> QED BY <3>1, <3>2 DEF Reference
  <2> QED BY <1>2, <2>1, <2>2
<1>5. ProviderOK'
  BY ProviderUntouched DEF TablesOK
<1>6. TableTypes'
  BY <1>2, <1>4 DEF TablesOK, TableTypes, Ids
<1>7. RowsOK'
  BY <1>4 DEF RowsOK, Ids
<1> QED BY <1>3, <1>5, <1>6, <1>7 DEF TablesOK

LEMMA OrderWritten ==
  ASSUME TablesOK, NEW o \in Ids(orders), NEW r \in Order,
         r.session = orders[o].session, r.quote = orders[o].quote,
         r.provider = orders[o].provider,
         r.compliance = "rejected" => ProviderOf(o).compliance = "rejected",
         r.compliance = "cleared" => Supported(o),
         r.status = "filled" => Supported(o),
         r.compliance = "rejected" => r.status \in {"compliance_pending", "failed"},
         orders' = [orders EXCEPT ![o] = r],
         UNCHANGED <<quotes, provider, inbox, credited>>
  PROVE  TablesOK' /\ Grows
<1>1. orders \in Seq(Order)
  BY DEF TablesOK, TableTypes
<1>2. /\ orders' \in Seq(Order)
      /\ Ids(orders') = Ids(orders)
      /\ orders'[o] = r
      /\ \A k \in Ids(orders) \ {o} : orders'[k] = orders[k]
  BY <1>1, ExceptSeq, LenProperties DEF Ids
<1>3. Grows
  BY <1>2 DEF Grows, Ids
<1>4. ASSUME NEW k \in Ids(orders') PROVE Reference(orders[k])' /\ RowOK(k)'
  <2>1. k \in Ids(orders) /\ Reference(orders[k])'
    BY <1>2, <1>3, ReferenceStays DEF TablesOK
  <2>2. CASE k # o
    BY <1>2, <1>3, <2>1, <2>2, RowStays DEF TablesOK, RowsOK
  <2>3. CASE k = o
    BY <1>2, <2>1, <2>3 DEF RowOK, Supported, ProviderOf
  <2> QED BY <2>1, <2>2, <2>3
<1>5. ProviderOK'
  BY ProviderUntouched DEF TablesOK
<1>6. TableTypes'
  BY <1>2, <1>4 DEF TablesOK, TableTypes, Ids
<1>7. RowsOK'
  BY <1>4 DEF RowsOK, Ids
<1> QED BY <1>3, <1>5, <1>6, <1>7 DEF TablesOK

LEMMA ProviderAdded ==
  ASSUME TablesOK, NEW r \in ProviderOrder, r.status = "submitted",
         provider' = Append(provider, r),
         UNCHANGED <<quotes, orders, inbox, credited>>
  PROVE  TablesOK' /\ Grows
<1>1. provider \in Seq(ProviderOrder)
  BY DEF TablesOK, TableTypes
<1> DEFINE n == Len(provider) + 1
<1>2. /\ provider' \in Seq(ProviderOrder)
      /\ \A k \in Ids(provider) : k \in Ids(provider') /\ provider'[k] = provider[k]
      /\ \A k \in Ids(provider') : k \in Ids(provider) \/ k = n
      /\ provider'[n] = r
  BY <1>1, RowAppended
<1> HIDE DEF n
<1>3. Grows
  BY <1>2 DEF Grows, Ids
<1>4. ProviderOK'
  BY <1>2 DEF TablesOK, ProviderOK
<1> QED BY <1>2, <1>3, <1>4, OrdersUntouched DEF TablesOK, TableTypes, Ids

LEMMA ProviderWritten ==
  ASSUME TablesOK, NEW k \in Ids(provider), NEW r \in ProviderOrder,
         provider[k].compliance # "pending" => r.compliance = provider[k].compliance,
         provider[k].status = "filled" => r.status = "filled",
         r.status = "filled" => r.compliance # "rejected",
         provider' = [provider EXCEPT ![k] = r],
         UNCHANGED <<quotes, orders, inbox, credited>>
  PROVE  TablesOK' /\ Grows
<1>1. provider \in Seq(ProviderOrder)
  BY DEF TablesOK, TableTypes
<1>2. /\ provider' \in Seq(ProviderOrder)
      /\ Ids(provider') = Ids(provider)
      /\ provider'[k] = r
      /\ \A i \in Ids(provider) \ {k} : provider'[i] = provider[i]
  BY <1>1, ExceptSeq, LenProperties DEF Ids
<1>3. Grows
  BY <1>2 DEF Grows, Ids
<1>4. ProviderOK'
  BY <1>2 DEF TablesOK, ProviderOK
<1> QED BY <1>2, <1>3, <1>4, OrdersUntouched DEF TablesOK, TableTypes, Ids

LEMMA InboxChanged ==
  ASSUME TablesOK, inbox' \in Seq(InboxEntry), Ids(inbox) \subseteq Ids(inbox'),
         UNCHANGED <<quotes, orders, provider, credited>>
  PROVE  TablesOK' /\ Grows
<1>1. Grows
  BY DEF Grows, Ids
<1>2. credited' \subseteq [inbox : Ids(inbox'), session : Sessions]
  BY DEF TablesOK, TableTypes
<1>3. ProviderOK'
  BY ProviderUntouched DEF TablesOK
<1> QED BY <1>1, <1>2, <1>3, OrdersUntouched DEF TablesOK, TableTypes, Ids

LEMMA CreditAdded ==
  ASSUME TablesOK, NEW i \in Ids(inbox), NEW s \in Sessions,
         credited' = credited \cup {[inbox |-> i, session |-> s]},
         UNCHANGED <<quotes, orders, provider, inbox>>
  PROVE  TablesOK' /\ Grows
<1>1. Grows
  BY DEF Grows, Ids
<1>2. credited' \subseteq [inbox : Ids(inbox'), session : Sessions]
  BY DEF TablesOK, TableTypes, Ids
<1>3. ProviderOK'
  BY ProviderUntouched DEF TablesOK
<1> QED BY <1>1, <1>2, <1>3, OrdersUntouched DEF TablesOK, TableTypes, Ids

-----------------------------------------------------------------------------
(***************************************************************************)
(* The steps                                                               *)
(***************************************************************************)

\* The jobs after a step of worker p.
JobMoves(p) ==
  /\ job' \in [Workers -> Job]
  /\ \A q \in Workers \ {p} : job'[q] = job[q]
  /\ JobOK(job[p])'

LEMMA StepKeeps ==
  ASSUME TradeInv, NEW p \in Workers, JobMoves(p), ServiceMoves, Grows, TablesOK'
  PROVE  TradeInv'
<1>1. CallTypes /\ References /\ JobsOK
  BY TypeParts, TypesGiveReferences DEF TradeInv
<1>2. (CallTypes /\ CallsOK /\ SessionsOK)'
  BY <1>1, ServiceKept DEF TradeInv
<1>3. JobsOK'
  BY <1>1, JobsKept DEF JobMoves
<1>4. Typed'
  BY <1>2, TypeParts DEF JobMoves, TablesOK, CallTypes, TableTypes, Typed, TablesTyped, Reference
<1> QED BY <1>2, <1>3, <1>4 DEF TradeInv, TablesOK

LEMMA JobGoes ==
  ASSUME job \in [Workers -> Job], NEW p \in Workers, NEW j \in Job, Goto(p, j)
  PROVE  /\ job' \in [Workers -> Job]
         /\ job'[p] = j
         /\ \A q \in Workers \ {p} : job'[q] = job[q]
BY DEF Goto

LEMMA NoJobType == NoJob \in Job /\ NoJob.step = "none"
BY DEF NoJob, Job, JobStep, Reported

LEMMA JobEnds ==
  ASSUME job \in [Workers -> Job], NEW p \in Workers, Finish(p)
  PROVE  JobMoves(p)
<1>1. /\ job' \in [Workers -> Job]
      /\ job'[p] = NoJob
      /\ \A q \in Workers \ {p} : job'[q] = job[q]
  BY NoJobType DEF Finish
<1>2. JobOK(job[p])'
  BY <1>1, NoJobType DEF JobOK, QuoteSteps, OrderSteps, PollSteps, InboxSteps
<1> QED BY <1>1, <1>2 DEF JobMoves

\* A caller takes the result, or the error, of its call.
LEMMA ResultMoves ==
  ASSUME NEW p \in Workers, ResultTaken(p, "ok") \/ Threw(p)
  PROVE  ServiceMoves
BY DEF ServiceMoves, Threw, Outcome

LEMMA AskMoves ==
  ASSUME NEW p \in Workers, NEW s \in Sessions,
         NEW to \in SessionState \ {"order_filled", "failed"}, NEW r \in TransitionReason, Ask(p, s, to, r)
  PROVE  ServiceMoves
<1>1. Warranted(s, to)'
  BY DEF Warranted
<1> QED BY <1>1 DEF ServiceMoves

\* The worker of a step has gone on to job j, which is as it should be.
LEMMA MovesTo ==
  ASSUME job \in [Workers -> Job], NEW p \in Workers, NEW j \in Job, Goto(p, j),
         job'[p] = j => JobOK(job[p])'
  PROVE  JobMoves(p)
BY JobGoes DEF JobMoves

LEMMA RequestQuoteKeeps ==
  ASSUME TradeInv, NEW p \in Workers, NEW s \in Sessions, RequestQuote(p, s)
  PROVE  TradeInv'
<1>0. TablesOK /\ job \in [Workers -> Job] /\ sessionState[s] \in SessionState \cup {Absent}
  BY TypeParts DEF TradeInv, TablesOK, CallTypes
<1> DEFINE j == [NoJob EXCEPT !.step = "expireQuotes", !.session = s, !.seen = sessionState[s]]
<1>1. j \in Job /\ j.step = "expireQuotes" /\ j.session = s
  BY <1>0 DEF NoJob, Job, JobStep, Reported
<1>2. Goto(p, j)
  BY DEF RequestQuote
<1> HIDE DEF j
<1>3. job'[p] = j => JobOK(job[p])'
  BY <1>1 DEF JobOK, QuoteSteps, OrderSteps, PollSteps, InboxSteps
<1>4. ServiceMoves /\ Grows /\ TablesOK'
  BY <1>0, NothingChanged DEF RequestQuote, ServiceMoves, tables
<1> QED BY <1>0, <1>1, <1>2, <1>3, <1>4, MovesTo, StepKeeps

LEMMA SeqOfFunction ==
  ASSUME NEW Row, NEW n \in Nat, NEW f \in [1..n -> Row]
  PROVE  f \in Seq(Row)
OBVIOUS

LEMMA QuoteStatus ==
  ASSUME NEW r \in Quote, NEW status \in {"ready", "accepted", "expired"}
  PROVE  /\ [r EXCEPT !.status = status] \in Quote
         /\ [r EXCEPT !.status = status].session = r.session
BY DEF Quote

LEMMA ExpireQuotesKeeps ==
  ASSUME TradeInv, NEW p \in Workers, ExpireQuotes(p)
  PROVE  TradeInv'
<1>0. TablesOK /\ job \in [Workers -> Job] /\ quotes \in Seq(Quote)
  BY TypeParts DEF TradeInv, TablesOK, TableTypes
<1>1. /\ job[p].step = "expireQuotes" /\ job[p] \in Job
      /\ job[p].session \in Sessions
  BY <1>0 DEF ExpireQuotes, TradeInv, JobsOK, JobOK, QuoteSteps
<1>2. Grows /\ TablesOK'
  <2>0. \A q \in 1..Len(quotes) :
          /\ quotes[q] \in Quote
          /\ [quotes[q] EXCEPT !.status = "expired"] \in Quote
          /\ [quotes[q] EXCEPT !.status = "expired"].session = quotes[q].session
    <3> SUFFICES ASSUME NEW q \in 1..Len(quotes)
                 PROVE  /\ quotes[q] \in Quote
                        /\ [quotes[q] EXCEPT !.status = "expired"] \in Quote
                        /\ [quotes[q] EXCEPT !.status = "expired"].session = quotes[q].session
      OBVIOUS
    <3>1. PICK r \in Quote : r = quotes[q]
      BY <1>0, ElementOfSeq
    <3>2. [r EXCEPT !.status = "expired"] \in Quote /\ [r EXCEPT !.status = "expired"].session = r.session
      BY QuoteStatus
    <3> QED BY <3>1, <3>2
  <2>1. quotes' \in [1..Len(quotes) -> Quote]
    BY <1>0, <2>0, LenProperties DEF ExpireQuotes, Ids
  <2>2. quotes' \in Seq(Quote)
    BY <1>0, <2>1, SeqOfFunction, LenProperties
  <2>3. \A q \in Ids(quotes) : q \in Ids(quotes') /\ quotes'[q].session = quotes[q].session
    BY <1>0, <2>0, LenProperties DEF ExpireQuotes, Ids
  <2> QED BY <1>0, <2>2, <2>3, QuotesChanged DEF ExpireQuotes
<1>3. CASE CallFrom(p, job[p].session, "quote_requested", "quote_requested",
                    [job[p] EXCEPT !.step = "quoteRequested"])
  <2> DEFINE j == [job[p] EXCEPT !.step = "quoteRequested"]
  <2>1. j \in Job /\ j.step = "quoteRequested" /\ j.session \in Sessions
    BY <1>1 DEF Job, JobStep
  <2>2. Goto(p, j)
    BY <1>3 DEF CallFrom
  <2> HIDE DEF j
  <2>3. job'[p] = j => JobOK(job[p])'
    BY <2>1 DEF JobOK, QuoteSteps, OrderSteps, PollSteps, InboxSteps
  <2>4. ServiceMoves
    BY <1>1, <1>3, AskMoves DEF CallFrom, SessionState, TransitionReason
  <2> QED BY <1>0, <1>2, <2>1, <2>2, <2>3, <2>4, MovesTo, StepKeeps
<1>4. CASE Goto(p, [job[p] EXCEPT !.step = "createQuote"]) /\ UNCHANGED serviceVars
  <2> DEFINE j == [job[p] EXCEPT !.step = "createQuote"]
  <2>1. j \in Job /\ j.step = "createQuote" /\ j.session \in Sessions
    BY <1>1 DEF Job, JobStep
  <2>2. Goto(p, j)
    BY <1>4
  <2> HIDE DEF j
  <2>3. job'[p] = j => JobOK(job[p])'
    BY <2>1 DEF JobOK, QuoteSteps, OrderSteps, PollSteps, InboxSteps
  <2>4. ServiceMoves
    BY <1>4 DEF ServiceMoves
  <2> QED BY <1>0, <1>2, <2>1, <2>2, <2>3, <2>4, MovesTo, StepKeeps
<1> QED BY <1>3, <1>4 DEF ExpireQuotes

LEMMA QuoteRequestedKeeps ==
  ASSUME TradeInv, NEW p \in Workers, QuoteRequested(p)
  PROVE  TradeInv'
<1>0. TablesOK /\ job \in [Workers -> Job]
  BY TypeParts DEF TradeInv, TablesOK
<1>1. Grows /\ TablesOK' /\ ServiceMoves
  BY <1>0, NothingChanged, ResultMoves DEF QuoteRequested
<1>2. CASE Finish(p)
  BY <1>0, <1>1, <1>2, JobEnds, StepKeeps
<1>3. CASE Goto(p, [job[p] EXCEPT !.step = "createQuote"])
  <2> DEFINE j == [job[p] EXCEPT !.step = "createQuote"]
  <2>0. job[p].session \in Sessions
    BY DEF QuoteRequested, TradeInv, JobsOK, JobOK, QuoteSteps
  <2>1. j \in Job /\ j.step = "createQuote" /\ j.session \in Sessions
    BY <1>0, <2>0 DEF Job, JobStep
  <2>2. Goto(p, j)
    BY <1>3
  <2> HIDE DEF j
  <2>3. job'[p] = j => JobOK(job[p])'
    BY <2>1 DEF JobOK, QuoteSteps, OrderSteps, PollSteps, InboxSteps
  <2> QED BY <1>0, <1>1, <2>1, <2>2, <2>3, MovesTo, StepKeeps
<1> QED BY <1>2, <1>3 DEF QuoteRequested

LEMMA CreateQuoteKeeps ==
  ASSUME TradeInv, NEW p \in Workers, CreateQuote(p)
  PROVE  TradeInv'
<1>0. TablesOK /\ job \in [Workers -> Job]
  BY TypeParts DEF TradeInv, TablesOK
<1>1. job[p] \in Job /\ job[p].session \in Sessions
  BY <1>0 DEF CreateQuote, TradeInv, JobsOK, JobOK, QuoteSteps
<1>2. [session |-> job[p].session, status |-> "ready", lapsed |-> FALSE] \in Quote
  BY <1>1 DEF Quote
<1>3. Grows /\ TablesOK'
  BY <1>0, <1>2, QuoteAdded DEF CreateQuote
<1> DEFINE j == [job[p] EXCEPT !.step = "quoteReady"]
<1>4. j \in Job /\ j.step = "quoteReady" /\ j.session \in Sessions
  BY <1>1 DEF Job, JobStep
<1>5. Goto(p, j)
  BY DEF CreateQuote, CallFrom
<1> HIDE DEF j
<1>6. job'[p] = j => JobOK(job[p])'
  BY <1>4 DEF JobOK, QuoteSteps, OrderSteps, PollSteps, InboxSteps
<1>7. ServiceMoves
  BY <1>1, AskMoves DEF CreateQuote, CallFrom, SessionState, TransitionReason
<1> QED BY <1>0, <1>3, <1>4, <1>5, <1>6, <1>7, MovesTo, StepKeeps

\* A job whose call was its last statement is over.
LEMMA CallsEnd ==
  ASSUME TradeInv, NEW p \in Workers, QuoteReady(p) \/ OrderSubmitted(p) \/ OrderMoved(p)
  PROVE  TradeInv'
<1>1. TablesOK /\ job \in [Workers -> Job]
  BY TypeParts DEF TradeInv, TablesOK
<1>2. Grows /\ TablesOK' /\ ServiceMoves /\ Finish(p)
  BY <1>1, NothingChanged, ResultMoves DEF QuoteReady, OrderSubmitted, OrderMoved
<1> QED BY <1>1, <1>2, JobEnds, StepKeeps

LEMMA AcceptQuoteKeeps ==
  ASSUME TradeInv, NEW p \in Workers, NEW q \in Ids(quotes), AcceptQuote(p, q)
  PROVE  TradeInv'
<1>0. TablesOK /\ job \in [Workers -> Job] /\ q \in Nat
  BY TypeParts, RowType DEF TradeInv, TablesOK, TableTypes
<1> DEFINE j == [NoJob EXCEPT !.step = "acceptQuote", !.quote = q]
<1>1. j \in Job /\ j.step = "acceptQuote" /\ j.quote = q
  BY <1>0 DEF NoJob, Job, JobStep, Reported
<1>2. Goto(p, j)
  BY DEF AcceptQuote
<1> HIDE DEF j
<1>3. ServiceMoves /\ Grows /\ TablesOK'
  BY <1>0, NothingChanged DEF AcceptQuote, ServiceMoves, tables
<1>4. job'[p] = j => JobOK(job[p])'
  BY <1>1, <1>3 DEF JobOK, QuoteSteps, OrderSteps, PollSteps, InboxSteps, Grows, Ids
<1> QED BY <1>0, <1>1, <1>2, <1>3, <1>4, MovesTo, StepKeeps

LEMMA WriteAcceptedKeeps ==
  ASSUME TradeInv, NEW p \in Workers, WriteAccepted(p)
  PROVE  TradeInv'
<1>0. TablesOK /\ job \in [Workers -> Job] /\ quotes \in Seq(Quote)
  BY TypeParts DEF TradeInv, TablesOK, TableTypes
<1>1. job[p].quote \in Ids(quotes)
  BY DEF WriteAccepted, TradeInv, JobsOK, JobOK
<1> DEFINE r == [quotes[job[p].quote] EXCEPT !.status = "accepted"]
<1>2. r \in Quote /\ r.session = quotes[job[p].quote].session
  BY <1>0, <1>1, RowType, QuoteStatus
<1>3. quotes' = [quotes EXCEPT ![job[p].quote] = r]
  BY DEF WriteAccepted
<1> HIDE DEF r
<1>4. Grows /\ TablesOK' /\ ServiceMoves
  BY <1>0, <1>1, <1>2, <1>3, QuoteWritten DEF WriteAccepted, ServiceMoves
<1> QED BY <1>0, <1>4, JobEnds, StepKeeps DEF WriteAccepted

LEMMA SubmitOrderKeeps ==
  ASSUME TradeInv, NEW p \in Workers, NEW s \in Sessions, NEW q \in Ids(quotes), SubmitOrder(p, s, q)
  PROVE  TradeInv'
<1>0. TablesOK /\ job \in [Workers -> Job] /\ q \in Nat
  BY TypeParts, RowType DEF TradeInv, TablesOK, TableTypes
<1> DEFINE j == [NoJob EXCEPT !.step = "placeOrder", !.session = s, !.quote = q]
<1>1. j \in Job /\ j.step = "placeOrder" /\ j.quote = q /\ j.session = s
  BY <1>0 DEF NoJob, Job, JobStep, Reported
<1>2. Goto(p, j) /\ quotes[q].session = s
  BY DEF SubmitOrder
<1> HIDE DEF j
<1>3. ServiceMoves /\ Grows /\ TablesOK'
  BY <1>0, NothingChanged DEF SubmitOrder, ServiceMoves, tables
<1>4. job'[p] = j => JobOK(job[p])'
  BY <1>1, <1>2, <1>3 DEF JobOK, QuoteSteps, OrderSteps, PollSteps, InboxSteps, Grows, Ids
<1> QED BY <1>0, <1>1, <1>2, <1>3, <1>4, MovesTo, StepKeeps

LEMMA PlaceOrderKeeps ==
  ASSUME TradeInv, NEW p \in Workers, PlaceOrder(p)
  PROVE  TradeInv'
<1>0. TablesOK /\ job \in [Workers -> Job] /\ provider \in Seq(ProviderOrder)
  BY TypeParts DEF TradeInv, TablesOK, TableTypes
<1>t. PICK told \in Reported :
        /\ provider' = Append(provider, Placed(told))
        /\ Goto(p, [job[p] EXCEPT !.step = "createOrder", !.provider = Len(provider'),
                                  !.answer = told])
  BY DEF PlaceOrder
<1>d. PICK r : r = Placed(told)
  OBVIOUS
<1>1. /\ r \in ProviderOrder /\ r.status = "submitted" /\ provider' = Append(provider, r)
      /\ told \in {"cleared", "rejected"} => r.compliance = told
  BY <1>t, <1>d DEF Placed, ProviderOrder, ComplianceStatus, Reported
<1>2. Grows /\ TablesOK' /\ ServiceMoves
  BY <1>0, <1>1, ProviderAdded DEF PlaceOrder, ServiceMoves
<1>3. /\ Len(provider') \in Ids(provider') /\ Len(provider') \in Nat
      /\ provider'[Len(provider')] = r
  BY <1>0, <1>1, RowAppended
<1>4. /\ job[p].session \in Sessions
      /\ job[p].quote \in Ids(quotes)
      /\ quotes[job[p].quote].session = job[p].session
  BY DEF PlaceOrder, TradeInv, JobsOK, JobOK, OrderSteps
<1> DEFINE j == [job[p] EXCEPT !.step = "createOrder", !.provider = Len(provider'),
                               !.answer = told]
<1>5. /\ j \in Job /\ j.step = "createOrder" /\ j.quote = job[p].quote
      /\ j.session = job[p].session /\ j.provider = Len(provider') /\ j.answer = told
  BY <1>0, <1>3 DEF Job, JobStep
<1>6. Goto(p, j)
  BY <1>t
<1> HIDE DEF j
<1>7. job'[p] = j => JobOK(job[p])'
  BY <1>1, <1>2, <1>3, <1>4, <1>5
     DEF JobOK, QuoteSteps, OrderSteps, PollSteps, InboxSteps, Grows, Ids
<1> QED BY <1>0, <1>2, <1>5, <1>6, <1>7, MovesTo, StepKeeps

LEMMA CreateOrderKeeps ==
  ASSUME TradeInv, NEW p \in Workers, CreateOrder(p)
  PROVE  TradeInv'
<1>0. TablesOK /\ job \in [Workers -> Job] /\ job[p] \in Job
  BY TypeParts DEF TradeInv, TablesOK
<1>1. /\ job[p].session \in Sessions
      /\ job[p].quote \in Ids(quotes)
      /\ quotes[job[p].quote].session = job[p].session
      /\ job[p].provider \in Ids(provider)
      /\ job[p].answer \in {"cleared", "rejected"} =>
           provider[job[p].provider].compliance = job[p].answer
  BY DEF CreateOrder, TradeInv, JobsOK, JobOK, OrderSteps
<1> DEFINE r == [ session |-> job[p].session, quote |-> job[p].quote,
                  provider |-> job[p].provider,
                  compliance |-> job[p].answer, status |-> "compliance_pending" ]
<1>2. /\ r \in Order /\ Reference(r) /\ r.status = "compliance_pending"
      /\ r.compliance \in {"cleared", "rejected"} =>
           provider[r.provider].compliance = r.compliance
  BY <1>0, <1>1 DEF Order, Reference, Job
<1>3. orders' = Append(orders, r) /\ UNCHANGED <<quotes, provider, inbox, credited>>
  BY DEF CreateOrder
<1> HIDE DEF r
<1>4. Grows /\ TablesOK'
  BY <1>0, <1>2, <1>3, OrderAdded
<1> DEFINE j == [job[p] EXCEPT !.step = "orderSubmitted"]
<1>5. j \in Job /\ j.step = "orderSubmitted"
  BY <1>0 DEF Job, JobStep
<1>6. Goto(p, j)
  BY DEF CreateOrder, CallFrom
<1> HIDE DEF j
<1>7. job'[p] = j => JobOK(job[p])'
  BY <1>5 DEF JobOK, QuoteSteps, OrderSteps, PollSteps, InboxSteps
<1>8. ServiceMoves
  BY <1>1, AskMoves DEF CreateOrder, CallFrom, SessionState, TransitionReason
<1> QED BY <1>0, <1>4, <1>5, <1>6, <1>7, <1>8, MovesTo, StepKeeps

LEMMA PollOrderKeeps ==
  ASSUME TradeInv, NEW p \in Workers, NEW o \in Ids(orders), PollOrder(p, o)
  PROVE  TradeInv'
<1>0. TablesOK /\ job \in [Workers -> Job] /\ orders[o] \in Order /\ o \in Nat
  BY TypeParts, RowType DEF TradeInv, TablesOK, TableTypes
<1> DEFINE j == [NoJob EXCEPT !.step = "askProvider", !.order = o,
                              !.session = orders[o].session, !.provider = orders[o].provider]
<1>1. /\ j \in Job /\ j.step = "askProvider" /\ j.order = o
      /\ j.session = orders[o].session /\ j.provider = orders[o].provider
  BY <1>0 DEF NoJob, Job, JobStep, Reported, Order
<1>2. Goto(p, j)
  BY DEF PollOrder
<1> HIDE DEF j
<1>3. ServiceMoves /\ Grows /\ TablesOK'
  BY <1>0, NothingChanged DEF PollOrder, ServiceMoves, tables
<1>4. job'[p] = j => JobOK(job[p])'
  BY <1>1, <1>3 DEF JobOK, QuoteSteps, OrderSteps, PollSteps, InboxSteps, Grows, Ids
<1> QED BY <1>0, <1>1, <1>2, <1>3, <1>4, MovesTo, StepKeeps

LEMMA AskProviderKeeps ==
  ASSUME TradeInv, NEW p \in Workers, AskProvider(p)
  PROVE  TradeInv'
<1>0. TablesOK /\ job \in [Workers -> Job] /\ job[p] \in Job
  BY TypeParts DEF TradeInv, TablesOK
<1>1. /\ job[p].order \in Ids(orders)
      /\ job[p].session = orders[job[p].order].session
      /\ job[p].provider = orders[job[p].order].provider
  BY DEF AskProvider, TradeInv, JobsOK, JobOK
<1>2. ServiceMoves /\ Grows /\ TablesOK' /\ UNCHANGED tables
  BY <1>0, NothingChanged DEF AskProvider, ServiceMoves, tables
<1>3. CASE Finish(p)
  BY <1>0, <1>2, <1>3, JobEnds, StepKeeps
<1>4. ASSUME NEW step \in PollSteps, Goto(p, [job[p] EXCEPT !.step = step]),
             step = "clearOrder" => provider[job[p].provider].compliance = "cleared",
             step = "rejectOrder" => provider[job[p].provider].compliance = "rejected",
             step = "fillOrder" => /\ DirectionOf[job[p].session] = "on_ramp"
                                   /\ provider[job[p].provider].status = "filled"
      PROVE  TradeInv'
  <2> DEFINE j == [job[p] EXCEPT !.step = step]
  <2>1. /\ j \in Job /\ j.step = step /\ j.order = job[p].order
        /\ j.session = job[p].session /\ j.provider = job[p].provider
    BY <1>0, <1>4 DEF Job, JobStep, PollSteps
  <2>2. Goto(p, j)
    BY <1>4
  <2> HIDE DEF j
  <2>3. job'[p] = j => JobOK(job[p])'
    BY <1>1, <1>2, <1>4, <2>1
       DEF JobOK, QuoteSteps, OrderSteps, PollSteps, InboxSteps, tables, Ids
  <2> QED BY <1>0, <1>2, <2>1, <2>2, <2>3, MovesTo, StepKeeps
<1> QED BY <1>3, <1>4 DEF AskProvider, PollSteps

\* A poll writes what it has heard.
LEMMA WriteOrderKeeps ==
  ASSUME TablesOK, NEW o \in Ids(orders), NEW compliance \in ComplianceStatus,
         NEW status \in {"submitted", "filled", "failed"},
         WriteOrder(o, compliance, status),
         compliance = "rejected" => ProviderOf(o).compliance = "rejected",
         compliance = "cleared" => Supported(o),
         status = "filled" => Supported(o),
         compliance = "rejected" => status = "failed",
         UNCHANGED <<quotes, provider, inbox, credited>>
  PROVE  TablesOK' /\ Grows
<1>1. orders[o] \in Order
  BY RowType DEF TablesOK, TableTypes
<1>d. PICK r : r = [orders[o] EXCEPT !.compliance = compliance, !.status = status]
  OBVIOUS
<1>2. /\ r \in Order /\ r.session = orders[o].session /\ r.quote = orders[o].quote
      /\ r.provider = orders[o].provider /\ r.compliance = compliance /\ r.status = status
  BY <1>1, <1>d DEF Order, Reported
<1>3. orders' = [orders EXCEPT ![o] = r]
  BY <1>d DEF WriteOrder
<1> QED BY <1>2, <1>3, OrderWritten

LEMMA ClearOrderKeeps ==
  ASSUME TradeInv, NEW p \in Workers, ClearOrder(p)
  PROVE  TradeInv'
<1>0. TablesOK /\ job \in [Workers -> Job]
  BY TypeParts DEF TradeInv, TablesOK
<1>1. job[p].order \in Ids(orders) /\ Supported(job[p].order)
  BY DEF ClearOrder, TradeInv, JobsOK, JobOK, PollSteps, Supported, ProviderOf
<1>2. TablesOK' /\ Grows /\ ServiceMoves
  BY <1>0, <1>1, WriteOrderKeeps DEF ClearOrder, ComplianceStatus, ServiceMoves
<1> QED BY <1>0, <1>2, JobEnds, StepKeeps DEF ClearOrder

\* The job of a poll waits for its call.
LEMMA PollCalls ==
  ASSUME job \in [Workers -> Job], NEW p \in Workers,
         Goto(p, [job[p] EXCEPT !.step = "orderMoved"])
  PROVE  JobMoves(p)
<1> DEFINE j == [job[p] EXCEPT !.step = "orderMoved"]
<1>1. j \in Job /\ j.step = "orderMoved" /\ Goto(p, j)
  BY DEF Job, JobStep
<1> HIDE DEF j
<1>2. job'[p] = j => JobOK(job[p])'
  BY <1>1 DEF JobOK, QuoteSteps, OrderSteps, PollSteps, InboxSteps
<1> QED BY <1>1, <1>2, MovesTo

LEMMA RejectOrderKeeps ==
  ASSUME TradeInv, NEW p \in Workers, RejectOrder(p)
  PROVE  TradeInv'
<1>0. TablesOK /\ job \in [Workers -> Job]
  BY TypeParts DEF TradeInv, TablesOK
<1>1. /\ job[p].order \in Ids(orders) /\ ProviderOf(job[p].order).compliance = "rejected"
      /\ job[p].session = orders[job[p].order].session
  BY DEF RejectOrder, TradeInv, JobsOK, JobOK, PollSteps, ProviderOf
<1>2. job[p].session \in Sessions
  <2>1. orders[job[p].order] \in Order
    BY <1>0, <1>1, RowType DEF TablesOK, TableTypes
  <2> QED BY <1>1, <2>1 DEF Order
<1>3. TablesOK' /\ Grows
  BY <1>0, <1>1, WriteOrderKeeps DEF RejectOrder, ComplianceStatus
<1>4. ServiceMoves
  <2>1. PICK s \in Sessions : s = job[p].session
    BY <1>2
  <2>2. Warranted(s, "failed")
    BY <1>1, <2>1 DEF Warranted, Rejected, OrdersOf
  <2>3. Warranted(s, "failed")'
    BY <1>0, <1>3, <2>2, WarrantStays, TypesGiveReferences DEF TablesOK
  <2> QED BY <2>1, <2>3 DEF RejectOrder, CallFrom, ServiceMoves, SessionState, TransitionReason
<1>5. JobMoves(p)
  BY <1>0, PollCalls DEF RejectOrder, CallFrom
<1> QED BY <1>3, <1>4, <1>5, StepKeeps

LEMMA FillOrderKeeps ==
  ASSUME TradeInv, NEW p \in Workers, FillOrder(p)
  PROVE  TradeInv'
<1>0. TablesOK /\ job \in [Workers -> Job]
  BY TypeParts DEF TradeInv, TablesOK
<1>1. /\ job[p].order \in Ids(orders)
      /\ job[p].session = orders[job[p].order].session
      /\ DirectionOf[job[p].session] = "on_ramp"
      /\ ProviderOf(job[p].order).status = "filled"
  BY DEF FillOrder, TradeInv, JobsOK, JobOK, PollSteps, ProviderOf
<1>2. job[p].session \in Sessions /\ Supported(job[p].order) /\ Settled(job[p].session)
  <2>1. orders[job[p].order] \in Order
    BY <1>0, <1>1, RowType DEF TablesOK, TableTypes
  <2> QED BY <1>1, <2>1 DEF Order, Supported, Settled, OrdersOf
<1>3. TablesOK' /\ Grows
  BY <1>0, <1>1, <1>2, WriteOrderKeeps DEF FillOrder, ComplianceStatus
<1>4. ServiceMoves
  <2>1. PICK s \in Sessions : s = job[p].session
    BY <1>2
  <2>2. Warranted(s, "order_filled")'
    BY <1>0, <1>2, <1>3, <2>1, WarrantStays, TypesGiveReferences DEF TablesOK, Warranted
  <2> QED BY <2>1, <2>2 DEF FillOrder, CallFrom, ServiceMoves, SessionState, TransitionReason
<1>5. JobMoves(p)
  BY <1>0, PollCalls DEF FillOrder, CallFrom
<1> QED BY <1>3, <1>4, <1>5, StepKeeps

\* The rest of a deposit's job keeps to its delivery.
LEMMA InboxStepKeeps ==
  ASSUME TradeInv, NEW p \in Workers, NEW j \in Job, Goto(p, j),
         job[p].inbox \in Ids(inbox), j.inbox = job[p].inbox,
         j.step \in {"findSessions", "findOrder", "depositMatched", "markProcessed"},
         Grows, TablesOK', ServiceMoves
  PROVE  TradeInv'
<1>0. job \in [Workers -> Job]
  BY TypeParts DEF TradeInv
<1>1. job'[p] = j => JobOK(job[p])'
  BY DEF JobOK, QuoteSteps, OrderSteps, PollSteps, InboxSteps, Grows, Ids
<1> QED BY <1>0, <1>1, MovesTo, StepKeeps

LEMMA ReceiveDepositKeeps ==
  ASSUME TradeInv, NEW p \in Workers, NEW d \in Deposits, ReceiveDeposit(p, d)
  PROVE  TradeInv'
<1>0. TablesOK /\ job \in [Workers -> Job] /\ inbox \in Seq(InboxEntry)
  BY TypeParts DEF TradeInv, TablesOK, TableTypes
<1> DEFINE r == [deposit |-> d, processed |-> FALSE]
<1>1. r \in InboxEntry /\ inbox' = Append(inbox, r)
  BY DEF ReceiveDeposit, InboxEntry
<1> HIDE DEF r
<1>2. /\ inbox' \in Seq(InboxEntry) /\ Ids(inbox) \subseteq Ids(inbox')
      /\ Len(inbox') \in Ids(inbox') /\ Len(inbox') \in Nat
  BY <1>0, <1>1, RowAppended
<1>3. Grows /\ TablesOK' /\ ServiceMoves
  BY <1>0, <1>2, InboxChanged DEF ReceiveDeposit, ServiceMoves
<1> DEFINE j == [NoJob EXCEPT !.step = "findAccount", !.inbox = Len(inbox')]
<1>4. j \in Job /\ j.step = "findAccount" /\ j.inbox = Len(inbox')
  BY <1>2 DEF NoJob, Job, JobStep, Reported
<1>5. Goto(p, j)
  BY DEF ReceiveDeposit
<1> HIDE DEF j
<1>6. job'[p] = j => JobOK(job[p])'
  BY <1>2, <1>4 DEF JobOK, QuoteSteps, OrderSteps, PollSteps, InboxSteps, Ids
<1> QED BY <1>0, <1>3, <1>4, <1>5, <1>6, MovesTo, StepKeeps

LEMMA FindAccountKeeps ==
  ASSUME TradeInv, NEW p \in Workers, FindAccount(p)
  PROVE  TradeInv'
<1>0. TablesOK /\ job[p] \in Job /\ job[p].inbox \in Ids(inbox)
  BY TypeParts DEF FindAccount, TradeInv, TablesOK, JobsOK, JobOK, InboxSteps
<1>1. Grows /\ TablesOK' /\ ServiceMoves
  BY <1>0, NothingChanged DEF FindAccount, ServiceMoves, tables
<1>2. PICK step \in {"markProcessed", "findSessions"} : Goto(p, [job[p] EXCEPT !.step = step])
  BY DEF FindAccount
<1>3. /\ [job[p] EXCEPT !.step = step] \in Job
      /\ [job[p] EXCEPT !.step = step].step = step
      /\ [job[p] EXCEPT !.step = step].inbox = job[p].inbox
  BY <1>0 DEF Job, JobStep
<1> QED BY <1>0, <1>1, <1>2, <1>3, InboxStepKeeps

LEMMA FindSessionsKeeps ==
  ASSUME TradeInv, NEW p \in Workers, FindSessions(p)
  PROVE  TradeInv'
<1>0. TablesOK /\ job[p] \in Job /\ job[p].inbox \in Ids(inbox)
  BY TypeParts DEF FindSessions, TradeInv, TablesOK, JobsOK, JobOK, InboxSteps
<1>1. Grows /\ TablesOK' /\ ServiceMoves
  BY <1>0, NothingChanged DEF FindSessions, ServiceMoves, tables
<1>2. PICK todo \in SUBSET Sessions :
        Goto(p, [job[p] EXCEPT !.step = "findOrder", !.todo = todo])
  BY DEF FindSessions, ActiveSessions
<1> DEFINE j == [job[p] EXCEPT !.step = "findOrder", !.todo = todo]
<1>3. j \in Job /\ j.step = "findOrder" /\ j.inbox = job[p].inbox
  BY <1>0 DEF Job, JobStep
<1>4. Goto(p, j)
  BY <1>2
<1> HIDE DEF j
<1> QED BY <1>0, <1>1, <1>3, <1>4, InboxStepKeeps

LEMMA FindOrderKeeps ==
  ASSUME TradeInv, NEW p \in Workers, FindOrder(p)
  PROVE  TradeInv'
<1>0. TablesOK /\ job \in [Workers -> Job] /\ job[p] \in Job /\ job[p].inbox \in Ids(inbox)
  BY TypeParts DEF FindOrder, TradeInv, TablesOK, JobsOK, JobOK, InboxSteps
<1>1. Grows /\ TablesOK' /\ ServiceMoves /\ UNCHANGED tables
  BY <1>0, NothingChanged DEF FindOrder, ServiceMoves, tables
<1>2. CASE Goto(p, [job[p] EXCEPT !.step = "markProcessed"])
  <2> DEFINE j == [job[p] EXCEPT !.step = "markProcessed"]
  <2>1. j \in Job /\ j.step = "markProcessed" /\ j.inbox = job[p].inbox /\ Goto(p, j)
    BY <1>0, <1>2 DEF Job, JobStep
  <2> HIDE DEF j
  <2> QED BY <1>0, <1>1, <2>1, InboxStepKeeps
<1>3. ASSUME NEW s \in Sessions, Goto(p, [job[p] EXCEPT !.todo = @ \ {s}])
      PROVE  TradeInv'
  <2> DEFINE j == [job[p] EXCEPT !.todo = @ \ {s}]
  <2>1. /\ j \in Job /\ j.step = "findOrder" /\ j.inbox = job[p].inbox /\ Goto(p, j)
    BY <1>0, <1>3 DEF Job, FindOrder
  <2> HIDE DEF j
  <2> QED BY <1>0, <1>1, <2>1, InboxStepKeeps
<1>4. ASSUME NEW s \in Sessions, NEW o \in OrdersOf(s), Goto(p, WithOrder(job[p], s, o))
      PROVE  TradeInv'
  <2>1. o \in Ids(orders) /\ orders[o].session = s
    BY DEF OrdersOf
  <2>2. orders[o] \in Order /\ o \in Nat /\ RowOK(o)
    BY <1>0, <2>1, RowType DEF TablesOK, TableTypes, RowsOK
  <2> DEFINE j == WithOrder(job[p], s, o)
  <2>3. /\ j \in Job /\ j.step = "recordDeposit" /\ j.inbox = job[p].inbox
        /\ j.order = o /\ j.session = s /\ j.row = orders[o] /\ Goto(p, j)
    BY <1>0, <1>4, <2>2 DEF WithOrder, Job, JobStep
  <2> HIDE DEF j
  <2>4. job'[p] = j => JobOK(job[p])'
    BY <1>0, <1>1, <2>1, <2>2, <2>3
       DEF JobOK, QuoteSteps, OrderSteps, PollSteps, InboxSteps, tables, Ids, RowOK,
           Supported, ProviderOf
  <2> QED BY <1>0, <1>1, <2>3, <2>4, MovesTo, StepKeeps
<1>5. job[p].todo \subseteq Sessions
  BY <1>0 DEF Job
<1> QED BY <1>2, <1>3, <1>4, <1>5 DEF FindOrder

LEMMA RecordDepositKeeps ==
  ASSUME TradeInv, NEW p \in Workers, RecordDeposit(p)
  PROVE  TradeInv'
<1>0. TablesOK /\ job \in [Workers -> Job] /\ job[p] \in Job
  BY TypeParts DEF TradeInv, TablesOK
<1>1. /\ job[p].inbox \in Ids(inbox) /\ job[p].order \in Ids(orders)
      /\ job[p].session = orders[job[p].order].session
      /\ job[p].row.compliance = "cleared" => Supported(job[p].order)
  BY DEF RecordDeposit, TradeInv, JobsOK, JobOK, InboxSteps
<1>2. job[p].session \in Sessions
  <2>1. orders[job[p].order] \in Order
    BY <1>0, <1>1, RowType DEF TablesOK, TableTypes
  <2> QED BY <1>1, <2>1 DEF Order
<1>3. Grows /\ TablesOK' /\ ServiceMoves
  BY <1>0, <1>1, <1>2, CreditAdded DEF RecordDeposit, ServiceMoves
<1>4. CASE ~ isOffRampFill(job[p])
  <2> DEFINE j == [job[p] EXCEPT !.step = "markProcessed"]
  <2>1. j \in Job /\ j.step = "markProcessed" /\ j.inbox = job[p].inbox
    BY <1>0 DEF Job, JobStep
  <2>2. Goto(p, j)
    BY <1>4 DEF RecordDeposit
  <2> HIDE DEF j
  <2> QED BY <1>0, <1>1, <1>3, <2>1, <2>2, InboxStepKeeps
<1>5. CASE isOffRampFill(job[p])
  <2>1. DirectionOf[job[p].session] = "off_ramp" /\ ProviderOf(job[p].order).compliance = "cleared"
    BY <1>1, <1>5 DEF isOffRampFill, Supported
  <2>2. [inbox |-> job[p].inbox, session |-> job[p].session] \in credited'
    BY DEF RecordDeposit
  <2>3. \E c \in credited' : c.session = job[p].session
    BY <2>2
  <2> DEFINE j == [job[p] EXCEPT !.step = "fillFromDeposit"]
  <2>4. /\ j \in Job /\ j.step = "fillFromDeposit" /\ j.inbox = job[p].inbox
        /\ j.order = job[p].order /\ j.session = job[p].session
    BY <1>0 DEF Job, JobStep
  <2>5. Goto(p, j)
    BY <1>5 DEF RecordDeposit
  <2>6. UNCHANGED <<orders, provider, inbox>>
    BY DEF RecordDeposit
  <2> HIDE DEF j
  <2>7. job'[p] = j => JobOK(job[p])'
    BY <1>1, <2>1, <2>3, <2>4, <2>6
       DEF JobOK, QuoteSteps, OrderSteps, PollSteps, InboxSteps, Ids, ProviderOf
  <2> QED BY <1>0, <1>3, <2>4, <2>5, <2>7, MovesTo, StepKeeps
<1> QED BY <1>4, <1>5

LEMMA FillFromDepositKeeps ==
  ASSUME TradeInv, NEW p \in Workers, FillFromDeposit(p)
  PROVE  TradeInv'
<1>0. TablesOK /\ job[p] \in Job
  BY TypeParts DEF TradeInv, TablesOK
<1> DEFINE o == job[p].order
           s == job[p].session
<1>1. /\ job[p].inbox \in Ids(inbox) /\ o \in Ids(orders) /\ s = orders[o].session
      /\ DirectionOf[s] = "off_ramp" /\ ProviderOf(o).compliance = "cleared"
      /\ \E c \in credited : c.session = s
  BY DEF FillFromDeposit, TradeInv, JobsOK, JobOK, InboxSteps
<1>2. orders[o] \in Order /\ RowOK(o)
  BY <1>0, <1>1, RowType DEF TablesOK, TableTypes, RowsOK
<1>3. s \in Sessions /\ Settled(s) /\ Supported(o)
  BY <1>1, <1>2 DEF Order, Settled, OrdersOf, Supported
<1>4. Grows /\ TablesOK'
  <2>1. PICK r : r = [orders[o] EXCEPT !.status = "filled"]
    OBVIOUS
  <2>2. /\ r \in Order /\ r.session = orders[o].session /\ r.quote = orders[o].quote
        /\ r.provider = orders[o].provider /\ r.compliance = orders[o].compliance
        /\ r.status = "filled"
    BY <1>2, <2>1 DEF Order
  <2>3. /\ orders' = [orders EXCEPT ![o] = r]
        /\ UNCHANGED <<quotes, provider, inbox, credited>>
    BY <2>1 DEF FillFromDeposit
  <2> QED BY <1>0, <1>1, <1>2, <1>3, <2>2, <2>3, OrderWritten DEF RowOK
<1>5. ServiceMoves
  <2>1. PICK t \in Sessions : t = s
    BY <1>3
  <2>2. Warranted(t, "order_filled")'
    BY <1>0, <1>3, <1>4, <2>1, WarrantStays, TypesGiveReferences DEF TablesOK, Warranted
  <2> QED BY <2>1, <2>2 DEF FillFromDeposit, CallFrom, ServiceMoves, SessionState, TransitionReason
<1> DEFINE j == [job[p] EXCEPT !.step = "depositMatched"]
<1>6. j \in Job /\ j.step = "depositMatched" /\ j.inbox = job[p].inbox
  BY <1>0 DEF Job, JobStep
<1>7. Goto(p, j)
  BY DEF FillFromDeposit, CallFrom
<1> HIDE DEF j
<1> QED BY <1>1, <1>4, <1>5, <1>6, <1>7, InboxStepKeeps

LEMMA DepositMatchedKeeps ==
  ASSUME TradeInv, NEW p \in Workers, DepositMatched(p)
  PROVE  TradeInv'
<1>0. TablesOK /\ job \in [Workers -> Job] /\ job[p] \in Job /\ job[p].inbox \in Ids(inbox)
  BY TypeParts DEF DepositMatched, TradeInv, TablesOK, JobsOK, JobOK, InboxSteps
<1>1. Grows /\ TablesOK' /\ ServiceMoves
  BY <1>0, NothingChanged, ResultMoves DEF DepositMatched
<1>2. CASE Finish(p)
  BY <1>0, <1>1, <1>2, JobEnds, StepKeeps
<1>3. CASE Goto(p, [job[p] EXCEPT !.step = "markProcessed"])
  <2> DEFINE j == [job[p] EXCEPT !.step = "markProcessed"]
  <2>1. j \in Job /\ j.step = "markProcessed" /\ j.inbox = job[p].inbox /\ Goto(p, j)
    BY <1>0, <1>3 DEF Job, JobStep
  <2> HIDE DEF j
  <2> QED BY <1>0, <1>1, <2>1, InboxStepKeeps
<1> QED BY <1>2, <1>3 DEF DepositMatched

LEMMA MarkProcessedKeeps ==
  ASSUME TradeInv, NEW p \in Workers, MarkProcessed(p)
  PROVE  TradeInv'
<1>0. TablesOK /\ job \in [Workers -> Job] /\ inbox \in Seq(InboxEntry)
      /\ job[p].inbox \in Ids(inbox)
  BY TypeParts DEF MarkProcessed, TradeInv, TablesOK, TableTypes, JobsOK, JobOK, InboxSteps
<1>1. PICK r : r = [inbox[job[p].inbox] EXCEPT !.processed = TRUE]
  OBVIOUS
<1>2. inbox[job[p].inbox] \in InboxEntry
  BY <1>0, RowType
<1>3. r \in InboxEntry /\ inbox' = [inbox EXCEPT ![job[p].inbox] = r]
  BY <1>1, <1>2 DEF MarkProcessed, InboxEntry
<1>4. inbox' \in Seq(InboxEntry) /\ Ids(inbox') = Ids(inbox)
  BY <1>0, <1>3, ExceptSeq, LenProperties DEF Ids
<1>5. Grows /\ TablesOK' /\ ServiceMoves
  BY <1>0, <1>4, InboxChanged DEF MarkProcessed, ServiceMoves
<1> QED BY <1>0, <1>5, JobEnds, StepKeeps DEF MarkProcessed

LEMMA JobFailsKeeps ==
  ASSUME TradeInv, NEW p \in Workers, JobFails(p)
  PROVE  TradeInv'
<1>0. TablesOK /\ job \in [Workers -> Job]
  BY TypeParts DEF TradeInv, TablesOK
<1>1. Grows /\ TablesOK' /\ ServiceMoves
  BY <1>0, NothingChanged DEF JobFails, ServiceMoves, tables
<1> QED BY <1>0, <1>1, JobEnds, StepKeeps DEF JobFails

\* The world outside moves no job.
LEMMA WorldKeeps ==
  ASSUME TradeInv, ServiceMoves, UNCHANGED job, Grows, TablesOK'
  PROVE  TradeInv'
<1>0. /\ References /\ CallTypes /\ CallsOK /\ SessionsOK
      /\ job \in [Workers -> Job] /\ JobsOK
  BY TypeParts, TypesGiveReferences DEF TradeInv
<1>1. (CallTypes /\ CallsOK /\ SessionsOK)'
  BY <1>0, ServiceKept
<1>2. JobsOK'
  <2> SUFFICES ASSUME NEW p \in Workers PROVE JobOK(job[p])'
    BY DEF JobsOK
  <2>1. PICK j : j = job'[p] /\ JobOK(j)
    BY <1>0 DEF JobsOK
  <2>2. JobOK(j)'
    BY <1>0, <2>1, JobStays
  <2> QED BY <2>1, <2>2 DEF JobOK, Supported, ProviderOf, Ids
<1>3. Typed'
  BY <1>0, <1>1 DEF TablesOK, CallTypes, TableTypes, Typed, TablesTyped, Reference
<1> QED BY <1>1, <1>2, <1>3 DEF TradeInv, TablesOK

LEMMA QuoteLapsesKeeps ==
  ASSUME TradeInv, NEW q \in Ids(quotes), QuoteLapses(q)
  PROVE  TradeInv'
<1>0. TablesOK /\ quotes[q] \in Quote
  BY TypeParts, RowType DEF TradeInv, TablesOK, TableTypes
<1>1. PICK r : r = [quotes[q] EXCEPT !.lapsed = TRUE]
  OBVIOUS
<1>2. r \in Quote /\ r.session = quotes[q].session /\ quotes' = [quotes EXCEPT ![q] = r]
  BY <1>0, <1>1 DEF QuoteLapses, Quote
<1>3. Grows /\ TablesOK'
  BY <1>0, <1>2, QuoteWritten DEF QuoteLapses
<1> QED BY <1>3, WorldKeeps DEF QuoteLapses, ServiceMoves

LEMMA ProviderDecidesKeeps ==
  ASSUME TradeInv, NEW k \in Ids(provider), NEW v \in {"cleared", "rejected"}, ProviderDecides(k, v)
  PROVE  TradeInv'
<1>0. TablesOK /\ provider[k] \in ProviderOrder
  BY TypeParts, RowType DEF TradeInv, TablesOK, TableTypes
<1>1. PICK r : r = [provider[k] EXCEPT !.compliance = v]
  OBVIOUS
<1>2. /\ r \in ProviderOrder /\ r.compliance = v /\ r.status = provider[k].status
      /\ provider' = [provider EXCEPT ![k] = r]
  BY <1>0, <1>1 DEF ProviderDecides, ProviderOrder, ComplianceStatus
<1>3. Grows /\ TablesOK'
  BY <1>0, <1>2, ProviderWritten DEF ProviderDecides
<1> QED BY <1>3, WorldKeeps DEF ProviderDecides, ServiceMoves

LEMMA ProviderFillsKeeps ==
  ASSUME TradeInv, NEW k \in Ids(provider), ProviderFills(k)
  PROVE  TradeInv'
<1>0. TablesOK /\ provider[k] \in ProviderOrder
  BY TypeParts, RowType DEF TradeInv, TablesOK, TableTypes
<1>1. PICK r : r = [provider[k] EXCEPT !.status = "filled"]
  OBVIOUS
<1>2. /\ r \in ProviderOrder /\ r.compliance = provider[k].compliance /\ r.status = "filled"
      /\ provider' = [provider EXCEPT ![k] = r]
  BY <1>0, <1>1 DEF ProviderFills, ProviderOrder
<1>3. Grows /\ TablesOK'
  BY <1>0, <1>2, ProviderWritten DEF ProviderFills
<1> QED BY <1>3, WorldKeeps DEF ProviderFills, ServiceMoves

-----------------------------------------------------------------------------
(***************************************************************************)
(* Any step                                                                *)
(***************************************************************************)

JobBegins(p) ==
  \/ \E s \in Sessions : RequestQuote(p, s)
  \/ \E q \in Ids(quotes) : AcceptQuote(p, q)
  \/ \E s \in Sessions, q \in Ids(quotes) : SubmitOrder(p, s, q)
  \/ \E o \in Ids(orders) : PollOrder(p, o)
  \/ \E d \in Deposits : ReceiveDeposit(p, d)

TradeStep ==
  \/ \E p \in Workers : JobBegins(p) \/ JobStepOf(p) \/ JobFails(p)
  \/ \E q \in Ids(quotes) : QuoteLapses(q)
  \/ \E k \in Ids(provider) :
       \/ \E v \in {"cleared", "rejected"} : ProviderDecides(k, v)
       \/ ProviderFills(k)

\* What runs beside the jobs calls transition() for nothing but its own ends.
Elsewhere == ServiceMoves /\ UNCHANGED <<tables, job>>

LEMMA TradeKept ==
  ASSUME TradeInv, TradeStep \/ Elsewhere
  PROVE  TradeInv'
<1>1. CASE Elsewhere
  <2>1. TablesOK
    BY TypeParts DEF TradeInv, TablesOK
  <2> QED BY <1>1, <2>1, NothingChanged, WorldKeeps DEF Elsewhere
<1>2. ASSUME NEW p \in Workers, JobBegins(p) PROVE TradeInv'
  BY <1>2, RequestQuoteKeeps, AcceptQuoteKeeps, SubmitOrderKeeps, PollOrderKeeps,
     ReceiveDepositKeeps DEF JobBegins
<1>3. ASSUME NEW p \in Workers, JobStepOf(p) PROVE TradeInv'
  BY <1>3, ExpireQuotesKeeps, QuoteRequestedKeeps, CreateQuoteKeeps, CallsEnd,
     WriteAcceptedKeeps, PlaceOrderKeeps, CreateOrderKeeps, AskProviderKeeps,
     ClearOrderKeeps, RejectOrderKeeps, FillOrderKeeps, FindAccountKeeps,
     FindSessionsKeeps, FindOrderKeeps, RecordDepositKeeps, FillFromDepositKeeps,
     DepositMatchedKeeps, MarkProcessedKeeps DEF JobStepOf
<1>4. ASSUME NEW p \in Workers, JobFails(p) PROVE TradeInv'
  BY <1>4, JobFailsKeeps
<1>5. ASSUME NEW q \in Ids(quotes), QuoteLapses(q) PROVE TradeInv'
  BY <1>5, QuoteLapsesKeeps
<1>6. ASSUME NEW k \in Ids(provider),
             \/ \E v \in {"cleared", "rejected"} : ProviderDecides(k, v)
             \/ ProviderFills(k)
      PROVE  TradeInv'
  BY <1>6, ProviderDecidesKeeps, ProviderFillsKeeps
<1> QED BY <1>1, <1>2, <1>3, <1>4, <1>5, <1>6 DEF TradeStep

LEMMA OutcomesFromInv == TradeInv => FilledOnSettlement /\ FailedOnRejection
BY DEF TradeInv, SessionsOK, Warranted, Settled, Rejected, FilledOnSettlement, FailedOnRejection

\* An order row with the provider's decision keeps it, and a rejected one is at
\* most marked failed.
DecisionKept(o) ==
  /\ orders[o].compliance \in {"cleared", "rejected"}
       => orders'[o].compliance = orders[o].compliance
  /\ orders[o].compliance = "rejected"
       => orders'[o] \in {orders[o], [orders[o] EXCEPT !.status = "failed"]}

LEMMA WrittenDecision ==
  ASSUME TradeInv, NEW o \in Ids(orders), NEW k \in Ids(orders), NEW r \in Order,
         orders' = [orders EXCEPT ![k] = r],
         o = k => /\ orders[o].compliance \in {"cleared", "rejected"}
                       => r.compliance = orders[o].compliance
                  /\ orders[o].compliance = "rejected"
                       => r \in {orders[o], [orders[o] EXCEPT !.status = "failed"]}
  PROVE  DecisionKept(o)
<1>1. orders \in Seq(Order)
  BY TypeParts DEF TradeInv, TableTypes
<1>2. orders'[k] = r /\ \A i \in Ids(orders) \ {k} : orders'[i] = orders[i]
  BY <1>1, ExceptSeq, LenProperties DEF Ids
<1> QED BY <1>2 DEF DecisionKept

\* A poll writes what it was told, and the provider has decided once.
LEMMA VerdictWritten ==
  ASSUME TradeInv, NEW o \in Ids(orders), NEW k \in Ids(orders),
         NEW compliance \in {"cleared", "rejected"},
         NEW status \in {"submitted", "filled", "failed"},
         WriteOrder(k, compliance, status),
         compliance = "cleared" => Supported(k),
         compliance = "rejected" => ProviderOf(k).compliance = "rejected" /\ status = "failed"
  PROVE  DecisionKept(o)
<1>1. orders[k] \in Order /\ orders[k].provider \in Ids(provider) /\ RowOK(k)
  BY TypeParts, RowType DEF TradeInv, TableTypes, Reference, RowsOK
<1>2. PICK r : r = [orders[k] EXCEPT !.compliance = compliance, !.status = status]
  OBVIOUS
<1>3. r \in Order /\ r.compliance = compliance /\ orders' = [orders EXCEPT ![k] = r]
  BY <1>1, <1>2 DEF WriteOrder, Order, ComplianceStatus, Reported
<1>4. Supported(k) => ProviderOf(k).compliance # "rejected"
  BY <1>1 DEF TradeInv, ProviderOK, Supported, ProviderOf
<1>5. CASE compliance = "cleared"
  BY <1>1, <1>3, <1>4, <1>5, WrittenDecision DEF RowOK, Order, ComplianceStatus
<1>6. CASE compliance = "rejected"
  <2>1. orders[k].compliance # "cleared"
    BY <1>1, <1>4, <1>6 DEF RowOK
  <2>2. orders[k].compliance = "rejected" => r = [orders[k] EXCEPT !.status = "failed"]
    BY <1>1, <1>2, <1>6 DEF RowOK, Order
  <2> QED BY <1>1, <1>3, <1>6, <2>1, <2>2, WrittenDecision DEF Order, ComplianceStatus
<1> QED BY <1>5, <1>6

LEMMA FillDecides ==
  ASSUME TradeInv, NEW o \in Ids(orders), NEW p \in Workers, FillFromDeposit(p)
  PROVE  DecisionKept(o)
<1>1. /\ job[p].order \in Ids(orders) /\ ProviderOf(job[p].order).compliance = "cleared"
  BY DEF FillFromDeposit, TradeInv, JobsOK, JobOK
<1>2. PICK k : k = job[p].order
  OBVIOUS
<1>3. orders[k] \in Order /\ RowOK(k)
  BY <1>1, <1>2, TypeParts, RowType DEF TradeInv, TableTypes, RowsOK
<1>4. PICK r : r = [orders[k] EXCEPT !.status = "filled"]
  OBVIOUS
<1>5. r \in Order /\ r.compliance = orders[k].compliance /\ orders' = [orders EXCEPT ![k] = r]
  BY <1>2, <1>3, <1>4 DEF FillFromDeposit, Order
<1>6. orders[k].compliance # "rejected"
  BY <1>1, <1>2, <1>3 DEF RowOK
<1> QED BY <1>1, <1>2, <1>5, <1>6, WrittenDecision

LEMMA DecisionsKept ==
  ASSUME TradeInv, TradeStep \/ Elsewhere, NEW o \in Ids(orders)
  PROVE  DecisionKept(o)
<1>1. CASE UNCHANGED orders
  BY <1>1 DEF DecisionKept
<1>2. ASSUME NEW p \in Workers, CreateOrder(p) PROVE DecisionKept(o)
  <2>1. orders \in Seq(Order) /\ job[p] \in Job
    BY TypeParts DEF TradeInv, TableTypes
  <2>2. /\ job[p].session \in Sessions /\ job[p].quote \in Nat /\ job[p].provider \in Nat
    BY <1>2, <2>1 DEF CreateOrder, TradeInv, JobsOK, JobOK, OrderSteps, Job
  <2>3. PICK r : r = [ session |-> job[p].session, quote |-> job[p].quote, provider |-> job[p].provider,
                       compliance |-> job[p].answer, status |-> "compliance_pending" ]
    OBVIOUS
  <2>4. r \in Order
    BY <2>1, <2>2, <2>3 DEF Order, Job
  <2>5. orders' = Append(orders, r)
    BY <1>2, <2>3 DEF CreateOrder
  <2>6. orders'[o] = orders[o]
    BY <2>1, <2>4, <2>5, RowAppended
  <2> QED BY <2>6 DEF DecisionKept
<1>3. ASSUME NEW p \in Workers, ClearOrder(p) PROVE DecisionKept(o)
  <2>1. job[p].order \in Ids(orders) /\ Supported(job[p].order)
    BY <1>3 DEF ClearOrder, TradeInv, JobsOK, JobOK, PollSteps, Supported, ProviderOf
  <2> QED BY <1>3, <2>1, VerdictWritten DEF ClearOrder
<1>4. ASSUME NEW p \in Workers, RejectOrder(p) PROVE DecisionKept(o)
  <2>1. job[p].order \in Ids(orders) /\ ProviderOf(job[p].order).compliance = "rejected"
    BY <1>4 DEF RejectOrder, TradeInv, JobsOK, JobOK, PollSteps, ProviderOf
  <2> QED BY <1>4, <2>1, VerdictWritten DEF RejectOrder
<1>5. ASSUME NEW p \in Workers, FillOrder(p) PROVE DecisionKept(o)
  <2>1. job[p].order \in Ids(orders) /\ Supported(job[p].order)
    BY <1>5 DEF FillOrder, TradeInv, JobsOK, JobOK, PollSteps, Supported, ProviderOf
  <2> QED BY <1>5, <2>1, VerdictWritten DEF FillOrder
<1>6. ASSUME NEW p \in Workers, JobStepOf(p) PROVE DecisionKept(o)
  <2>1. CASE \/ ExpireQuotes(p) \/ QuoteRequested(p) \/ CreateQuote(p) \/ QuoteReady(p)
             \/ WriteAccepted(p) \/ PlaceOrder(p) \/ OrderSubmitted(p)
    BY <1>1, <2>1 DEF ExpireQuotes, QuoteRequested, CreateQuote, QuoteReady, WriteAccepted, PlaceOrder,
       OrderSubmitted, tables
  <2>2. CASE \/ AskProvider(p) \/ OrderMoved(p) \/ FindAccount(p) \/ FindSessions(p) \/ FindOrder(p)
             \/ RecordDeposit(p) \/ DepositMatched(p) \/ MarkProcessed(p)
    BY <1>1, <2>2 DEF AskProvider, OrderMoved, FindAccount, FindSessions, FindOrder, RecordDeposit,
       DepositMatched, MarkProcessed, tables
  <2> QED BY <1>2, <1>3, <1>4, <1>5, <1>6, <2>1, <2>2, FillDecides DEF JobStepOf
<1>7. ASSUME NEW p \in Workers, JobBegins(p) \/ JobFails(p) PROVE DecisionKept(o)
  BY <1>1, <1>7 DEF JobBegins, JobFails, RequestQuote, AcceptQuote, SubmitOrder, PollOrder,
     ReceiveDeposit, tables
<1>8. ASSUME \/ \E q \in Ids(quotes) : QuoteLapses(q)
             \/ \E k \in Ids(provider) :
                  (\E v \in {"cleared", "rejected"} : ProviderDecides(k, v)) \/ ProviderFills(k)
             \/ Elsewhere
      PROVE  DecisionKept(o)
  BY <1>1, <1>8 DEF QuoteLapses, ProviderDecides, ProviderFills, Elsewhere, tables
<1> QED BY <1>6, <1>7, <1>8 DEF TradeStep

LEMMA RowsMatchFromInv == TradeInv => RowsMatchProvider
<1> SUFFICES ASSUME TradeInv PROVE RowsMatchProvider
  OBVIOUS
<1>1. \A o \in Ids(orders) :
        /\ RowOK(o)
        /\ ProviderOf(o).status = "filled" => ProviderOf(o).compliance # "rejected"
  BY TypeParts, TypesGiveReferences DEF TradeInv, RowsOK, ProviderOK, References, ProviderOf
<1> QED BY <1>1 DEF RowsMatchProvider, RowOK, Supported

-----------------------------------------------------------------------------
(***************************************************************************)
(* Fills and deliveries                                                    *)
(***************************************************************************)

\* The jobs of a delivery that has not been credited yet.
Early == {"findAccount", "findSessions", "findOrder", "recordDeposit"}

\* Their deliveries are not in the ledger, and each is of one job.
Fresh ==
  /\ \A p \in Workers : job[p].step \in Early => \A c \in credited : c.inbox # job[p].inbox
  /\ \A p, q \in Workers :
       job[p].step \in Early /\ job[q].step \in Early /\ job[p].inbox = job[q].inbox => p = q

Filled(s)  == {o \in OrdersOf(s) : orders[o].status = "filled"}
Filling(s) == {p \in Workers : job[p].step = "fillFromDeposit" /\ job[p].session = s}
Credits(s) == {c \in credited : c.session = s}

\* Orders filled, and those about to be, each have a credit.
Backed ==
  \A s \in Sessions :
    DirectionOf[s] = "off_ramp" =>
      Cardinality(Filled(s)) + Cardinality(Filling(s)) <= Cardinality(Credits(s))

DeliveryInv == TradeInv /\ IsFiniteSet(credited) /\ Fresh /\ Backed

\* A step that neither credits, nor begins a fill, nor fills off-ramp orders.
OrdersQuiet ==
  \A o \in Ids(orders') :
    orders'[o].status = "filled" /\ DirectionOf[orders'[o].session] = "off_ramp"
      => o \in Ids(orders) /\ orders[o].status = "filled" /\ orders'[o].session = orders[o].session

JobQuiet(p) ==
  /\ \A q \in Workers \ {p} : job'[q] = job[q]
  /\ job'[p].step # "fillFromDeposit"
  /\ job'[p].step \in Early => job[p].step \in Early /\ job'[p].inbox = job[p].inbox

LEMMA Countable ==
  ASSUME DeliveryInv, NEW s \in Sessions
  PROVE  /\ IsFiniteSet(Filled(s)) /\ Cardinality(Filled(s)) \in Nat
         /\ IsFiniteSet(Filling(s)) /\ Cardinality(Filling(s)) \in Nat
         /\ IsFiniteSet(Credits(s)) /\ Cardinality(Credits(s)) \in Nat
<1>1. IsFiniteSet(Filled(s))
  <2>1. Ids(orders) = 1..Len(orders) /\ Len(orders) \in Nat
    BY TypeParts, LenProperties DEF DeliveryInv, TradeInv, TableTypes, Ids
  <2>2. IsFiniteSet(1..Len(orders))
    BY <2>1, FS_Interval
  <2> QED BY <2>1, <2>2, FS_Subset DEF Filled, OrdersOf
<1>2. IsFiniteSet(Filling(s))
  BY WorkersAssumption, FS_Subset DEF Filling
<1>3. IsFiniteSet(Credits(s))
  BY FS_Subset DEF DeliveryInv, Credits
<1> QED BY <1>1, <1>2, <1>3, FS_CardinalityType

LEMMA FewerBacked ==
  ASSUME DeliveryInv, NEW s \in Sessions, DirectionOf[s] = "off_ramp",
         Filled(s)' \subseteq Filled(s), Filling(s)' \subseteq Filling(s),
         Credits(s)' = Credits(s)
  PROVE  Cardinality(Filled(s)') + Cardinality(Filling(s)') <= Cardinality(Credits(s)')
<1>1. /\ Cardinality(Filled(s)') \in Nat /\ Cardinality(Filled(s)') <= Cardinality(Filled(s))
      /\ Cardinality(Filling(s)') \in Nat /\ Cardinality(Filling(s)') <= Cardinality(Filling(s))
  BY Countable, FS_Subset, FS_CardinalityType
<1>2. Cardinality(Filled(s)) + Cardinality(Filling(s)) <= Cardinality(Credits(s))
  BY DEF DeliveryInv, Backed
<1> DEFINE a == Cardinality(Filled(s))
           b == Cardinality(Filling(s))
           c == Cardinality(Credits(s))
           a2 == Cardinality(Filled(s)')
           b2 == Cardinality(Filling(s)')
<1>3. a \in Nat /\ b \in Nat /\ c \in Nat /\ a2 \in Nat /\ b2 \in Nat
  BY <1>1, Countable
<1>4. a + b <= c /\ a2 <= a /\ b2 <= b /\ Cardinality(Credits(s)') = c
  BY <1>1, <1>2
<1> HIDE DEF a, b, c, a2, b2
<1>5. a2 + b2 <= c
  BY <1>3, <1>4
<1> QED BY <1>4, <1>5 DEF a2, b2

LEMMA OrdersQuietFewer ==
  ASSUME OrdersQuiet, NEW s, DirectionOf[s] = "off_ramp"
  PROVE  Filled(s)' \subseteq Filled(s)
BY DEF OrdersQuiet, Filled, OrdersOf, Ids

LEMMA QuietStep ==
  ASSUME DeliveryInv, TradeInv', OrdersQuiet, credited' = credited,
         job' = job \/ \E p \in Workers : JobQuiet(p)
  PROVE  DeliveryInv'
<1>1. Fresh'
  <2>1. \A p \in Workers :
          job'[p].step \in Early => job[p].step \in Early /\ job'[p].inbox = job[p].inbox
    BY DEF JobQuiet
  <2> QED BY <2>1 DEF DeliveryInv, Fresh
<1>2. \A s \in Sessions : DirectionOf[s] = "off_ramp" =>
        Cardinality(Filled(s)') + Cardinality(Filling(s)') <= Cardinality(Credits(s)')
  <2> SUFFICES ASSUME NEW s \in Sessions, DirectionOf[s] = "off_ramp"
               PROVE  Cardinality(Filled(s)') + Cardinality(Filling(s)') <= Cardinality(Credits(s)')
    OBVIOUS
  <2>1. Filled(s)' \subseteq Filled(s)
    BY OrdersQuietFewer
  <2>2. Filling(s)' \subseteq Filling(s)
    BY DEF Filling, JobQuiet
  <2>3. Credits(s)' = Credits(s)
    BY DEF Credits
  <2> QED BY <2>1, <2>2, <2>3, FewerBacked
<1>3. Backed'
  BY <1>2 DEF Backed
<1> QED BY <1>1, <1>3 DEF DeliveryInv

\* Rows of orders that no step but a fill makes filled.
LEMMA SameOrdersQuiet ==
  ASSUME orders' = orders PROVE OrdersQuiet
BY DEF OrdersQuiet, Ids

LEMMA WrittenOrderQuiet ==
  ASSUME TradeInv, NEW o \in Ids(orders), NEW compliance, NEW status,
         WriteOrder(o, compliance, status),
         status # "filled" \/ DirectionOf[orders[o].session] # "off_ramp"
  PROVE  OrdersQuiet
<1>1. orders \in Seq(Order) /\ orders[o] \in Order
  BY TypeParts, RowType DEF TradeInv, TableTypes
<1>2. PICK r : r = [orders[o] EXCEPT !.compliance = compliance, !.status = status]
  OBVIOUS
<1>3. r.session = orders[o].session /\ r.status = status
  BY <1>1, <1>2 DEF Order
<1>4. Ids(orders) = 1..Len(orders)
  BY <1>1, LenProperties DEF Ids
<1>5. orders' = [orders EXCEPT ![o] = r]
  BY <1>2 DEF WriteOrder
<1>6. Ids(orders') = Ids(orders) /\ orders'[o] = r
      /\ \A k \in Ids(orders) \ {o} : orders'[k] = orders[k]
  BY <1>4, <1>5 DEF Ids
<1> QED BY <1>3, <1>6 DEF OrdersQuiet

LEMMA NewOrderQuiet ==
  ASSUME TradeInv, NEW p \in Workers, CreateOrder(p)
  PROVE  OrdersQuiet
<1>1. orders \in Seq(Order)
  BY TypeParts DEF TradeInv, TableTypes
<1>2. job[p] \in Job /\ job[p].session \in Sessions
  BY TypeParts DEF CreateOrder, TradeInv, JobsOK, JobOK, OrderSteps
<1> DEFINE r == [ session |-> job[p].session, quote |-> job[p].quote,
                  provider |-> job[p].provider,
                  compliance |-> job[p].answer, status |-> "compliance_pending" ]
<1>3. r \in Order /\ r.status = "compliance_pending" /\ orders' = Append(orders, r)
  BY <1>2 DEF CreateOrder, Order, Job
<1> HIDE DEF r
<1>4. PICK n : n = Len(orders) + 1
  OBVIOUS
<1>5. /\ \A o \in Ids(orders) : o \in Ids(orders') /\ orders'[o] = orders[o]
      /\ \A o \in Ids(orders') : o \in Ids(orders) \/ o = n
      /\ orders'[n] = r
  BY <1>1, <1>3, <1>4, RowAppended
<1> QED BY <1>3, <1>5 DEF OrdersQuiet

\* A job that goes on at another step.
LEMMA StepQuiet ==
  ASSUME job \in [Workers -> Job], NEW p \in Workers, NEW j, Goto(p, j),
         j.step # "fillFromDeposit",
         j.step \in Early => job[p].step \in Early /\ j.inbox = job[p].inbox
  PROVE  JobQuiet(p)
BY DEF Goto, JobQuiet

LEMMA FinishQuiet ==
  ASSUME job \in [Workers -> Job], NEW p \in Workers, Finish(p)
  PROVE  JobQuiet(p)
BY DEF Finish, NoJob, JobQuiet, Early

LEMMA NamedStepQuiet ==
  ASSUME job \in [Workers -> Job], NEW p \in Workers,
         NEW step \in JobStep \ (Early \cup {"fillFromDeposit"}),
         Goto(p, [job[p] EXCEPT !.step = step])
  PROVE  JobQuiet(p)
<1>1. PICK j : j = [job[p] EXCEPT !.step = step]
  OBVIOUS
<1>2. j.step = step /\ Goto(p, j)
  BY <1>1 DEF Job
<1> QED BY <1>2, StepQuiet

LEMMA StartJobQuiet ==
  ASSUME DeliveryInv, TradeInv', NEW p \in Workers,
         \/ \E s \in Sessions : RequestQuote(p, s)
         \/ \E q \in Ids(quotes) : AcceptQuote(p, q)
         \/ \E s \in Sessions, q \in Ids(quotes) : SubmitOrder(p, s, q)
         \/ \E o \in Ids(orders) : PollOrder(p, o)
  PROVE  DeliveryInv'
<1>1. job \in [Workers -> Job]
  BY TypeParts DEF DeliveryInv, TradeInv
<1>2. UNCHANGED <<orders, credited>>
  BY DEF RequestQuote, AcceptQuote, SubmitOrder, PollOrder, tables
<1>3. PICK j : Goto(p, j) /\ j.step \in {"expireQuotes", "acceptQuote", "placeOrder", "askProvider"}
  <2>1. ASSUME NEW s \in Sessions, RequestQuote(p, s)
        PROVE  \E j : Goto(p, j) /\ j.step = "expireQuotes"
    <3>1. PICK j : j = [NoJob EXCEPT !.step = "expireQuotes", !.session = s, !.seen = sessionState[s]]
      OBVIOUS
    <3>2. Goto(p, j) /\ j.step = "expireQuotes"
      BY <2>1, <3>1 DEF RequestQuote, NoJob
    <3> QED BY <3>2
  <2>2. ASSUME NEW q \in Ids(quotes), AcceptQuote(p, q)
        PROVE  \E j : Goto(p, j) /\ j.step = "acceptQuote"
    <3>1. PICK j : j = [NoJob EXCEPT !.step = "acceptQuote", !.quote = q]
      OBVIOUS
    <3>2. Goto(p, j) /\ j.step = "acceptQuote"
      BY <2>2, <3>1 DEF AcceptQuote, NoJob
    <3> QED BY <3>2
  <2>3. ASSUME NEW s \in Sessions, NEW q \in Ids(quotes), SubmitOrder(p, s, q)
        PROVE  \E j : Goto(p, j) /\ j.step = "placeOrder"
    <3>1. PICK j : j = [NoJob EXCEPT !.step = "placeOrder", !.session = s, !.quote = q]
      OBVIOUS
    <3>2. Goto(p, j) /\ j.step = "placeOrder"
      BY <2>3, <3>1 DEF SubmitOrder, NoJob
    <3> QED BY <3>2
  <2>4. ASSUME NEW o \in Ids(orders), PollOrder(p, o)
        PROVE  \E j : Goto(p, j) /\ j.step = "askProvider"
    <3>1. PICK j : j = [NoJob EXCEPT !.step = "askProvider", !.order = o, !.session = orders[o].session, !.provider = orders[o].provider]
      OBVIOUS
    <3>2. Goto(p, j) /\ j.step = "askProvider"
      BY <2>4, <3>1 DEF PollOrder, NoJob
    <3> QED BY <3>2
  <2> QED BY <2>1, <2>2, <2>3, <2>4
<1>4. JobQuiet(p)
  BY <1>1, <1>3, StepQuiet DEF Early
<1> QED BY <1>2, <1>4, SameOrdersQuiet, QuietStep

LEMMA JobStepQuiet ==
  ASSUME DeliveryInv, TradeInv', NEW p \in Workers,
         JobStepOf(p), ~ RecordDeposit(p), ~ FillFromDeposit(p)
  PROVE  DeliveryInv'
<1>0. job \in [Workers -> Job] /\ TradeInv /\ job[p] \in Job
  BY TypeParts DEF DeliveryInv, TradeInv
<1>1. CASE \/ ExpireQuotes(p) \/ QuoteRequested(p) \/ CreateQuote(p) \/ QuoteReady(p)
           \/ WriteAccepted(p) \/ AskProvider(p) \/ DepositMatched(p) \/ MarkProcessed(p)
           \/ OrderSubmitted(p) \/ OrderMoved(p)
  <2>1. UNCHANGED <<orders, credited>>
    BY <1>1 DEF ExpireQuotes, QuoteRequested, CreateQuote, QuoteReady, WriteAccepted,
       AskProvider, DepositMatched, MarkProcessed, OrderSubmitted, OrderMoved, tables
  <2>2. \/ Finish(p)
        \/ \E step \in JobStep \ (Early \cup {"fillFromDeposit"}) :
             Goto(p, [job[p] EXCEPT !.step = step])
    <3> DEFINE Moves == \E step \in JobStep \ (Early \cup {"fillFromDeposit"}) :
                          Goto(p, [job[p] EXCEPT !.step = step])
    <3>1. \A step \in {"quoteRequested", "createQuote", "quoteReady", "clearOrder",
                       "rejectOrder", "fillOrder", "markProcessed"} :
            Goto(p, [job[p] EXCEPT !.step = step]) => Moves
      BY DEF JobStep, Early
    <3> HIDE DEF Moves
    <3>2. Finish(p) \/ Moves
      BY <1>1, <3>1 DEF ExpireQuotes, QuoteRequested, CreateQuote, QuoteReady, WriteAccepted,
         AskProvider, DepositMatched, MarkProcessed, OrderSubmitted, OrderMoved, CallFrom
    <3> QED BY <3>2 DEF Moves
  <2>3. JobQuiet(p)
    BY <1>0, <2>2, FinishQuiet, NamedStepQuiet
  <2> QED BY <2>1, <2>3, SameOrdersQuiet, QuietStep
<1>2. CASE PlaceOrder(p)
  <2>1. PICK told, j : /\ j = [job[p] EXCEPT !.step = "createOrder", !.provider = Len(provider'),
                                             !.answer = told]
                       /\ Goto(p, j)
    BY <1>2 DEF PlaceOrder
  <2>2. j.step = "createOrder" /\ Goto(p, j) /\ UNCHANGED <<orders, credited>>
    BY <1>0, <1>2, <2>1 DEF PlaceOrder, Job
  <2>3. JobQuiet(p)
    BY <1>0, <2>2, StepQuiet DEF Early
  <2> QED BY <2>2, <2>3, SameOrdersQuiet, QuietStep
<1>3. CASE CreateOrder(p)
  <2>1. Goto(p, [job[p] EXCEPT !.step = "orderSubmitted"]) /\ UNCHANGED credited
    BY <1>3 DEF CreateOrder, CallFrom
  <2>2. JobQuiet(p)
    BY <1>0, <2>1, NamedStepQuiet DEF JobStep, Early
  <2> QED BY <1>0, <1>3, <2>1, <2>2, NewOrderQuiet, QuietStep
<1>4. CASE ClearOrder(p)
  <2>1. job[p].order \in Ids(orders)
    BY <1>0, <1>4 DEF ClearOrder, TradeInv, JobsOK, JobOK, PollSteps
  <2>2. OrdersQuiet /\ JobQuiet(p) /\ UNCHANGED credited
    BY <1>0, <1>4, <2>1, WrittenOrderQuiet, FinishQuiet DEF ClearOrder
  <2> QED BY <2>2, QuietStep
<1>5. CASE RejectOrder(p) \/ FillOrder(p)
  <2>1. /\ job[p].order \in Ids(orders)
        /\ FillOrder(p) => DirectionOf[orders[job[p].order].session] = "on_ramp"
    BY <1>0, <1>5 DEF RejectOrder, FillOrder, TradeInv, JobsOK, JobOK, PollSteps
  <2>2. OrdersQuiet /\ UNCHANGED credited
    BY <1>0, <1>5, <2>1, WrittenOrderQuiet DEF RejectOrder, FillOrder
  <2>3. Goto(p, [job[p] EXCEPT !.step = "orderMoved"])
    BY <1>5 DEF RejectOrder, FillOrder, CallFrom
  <2>4. JobQuiet(p)
    BY <1>0, <2>3, NamedStepQuiet DEF JobStep, Early
  <2> QED BY <2>2, <2>4, QuietStep
<1>6. CASE FindAccount(p) \/ FindSessions(p) \/ FindOrder(p)
  <2>1. UNCHANGED <<orders, credited>> /\ job[p].step \in Early
    BY <1>6 DEF FindAccount, FindSessions, FindOrder, tables, Early
  <2>2. \A step : [job[p] EXCEPT !.step = step].inbox = job[p].inbox
                  /\ [job[p] EXCEPT !.step = step].step = step
    BY <1>0 DEF Job
  <2>3. \A todo : /\ [job[p] EXCEPT !.step = "findOrder", !.todo = todo].inbox = job[p].inbox
                  /\ [job[p] EXCEPT !.step = "findOrder", !.todo = todo].step = "findOrder"
    BY <1>0 DEF Job
  <2>4. \A s : /\ [job[p] EXCEPT !.todo = @ \ {s}].inbox = job[p].inbox
               /\ [job[p] EXCEPT !.todo = @ \ {s}].step = job[p].step
    BY <1>0 DEF Job
  <2>5. \A s, o : /\ WithOrder(job[p], s, o).inbox = job[p].inbox
                  /\ WithOrder(job[p], s, o).step = "recordDeposit"
    BY <1>0 DEF WithOrder, Job
  <2>6. \E j : Goto(p, j) /\ j.inbox = job[p].inbox /\ j.step # "fillFromDeposit"
    <3>1. CASE FindAccount(p)
      BY <2>2, <3>1 DEF FindAccount
    <3>2. CASE FindSessions(p)
      BY <2>3, <3>2 DEF FindSessions
    <3>3. CASE FindOrder(p)
      <4>1. ASSUME NEW j, Goto(p, j), j.inbox = job[p].inbox, j.step # "fillFromDeposit"
            PROVE  \E i : Goto(p, i) /\ i.inbox = job[p].inbox /\ i.step # "fillFromDeposit"
        BY <4>1
      <4>2. CASE Goto(p, [job[p] EXCEPT !.step = "markProcessed"])
        BY <2>2, <4>1, <4>2
      <4>3. ASSUME NEW s, Goto(p, [job[p] EXCEPT !.todo = @ \ {s}])
            PROVE  \E j : Goto(p, j) /\ j.inbox = job[p].inbox /\ j.step # "fillFromDeposit"
        BY <2>1, <2>4, <4>1, <4>3 DEF Early
      <4>4. ASSUME NEW s, NEW o, Goto(p, WithOrder(job[p], s, o))
            PROVE  \E j : Goto(p, j) /\ j.inbox = job[p].inbox /\ j.step # "fillFromDeposit"
        BY <2>5, <4>1, <4>4
      <4> QED BY <3>3, <4>2, <4>3, <4>4 DEF FindOrder
    <3> QED BY <1>6, <3>1, <3>2, <3>3
  <2>7. JobQuiet(p)
    BY <1>0, <2>1, <2>6, StepQuiet
  <2> QED BY <2>1, <2>7, SameOrdersQuiet, QuietStep
<1> QED BY <1>1, <1>2, <1>3, <1>4, <1>5, <1>6 DEF JobStepOf

LEMMA ReceiveDepositDelivers ==
  ASSUME DeliveryInv, TradeInv', NEW p \in Workers, NEW d \in Deposits, ReceiveDeposit(p, d)
  PROVE  DeliveryInv'
<1>0. /\ job \in [Workers -> Job]
      /\ inbox \in Seq(InboxEntry)
      /\ credited \subseteq [inbox : Ids(inbox), session : Sessions]
      /\ JobsOK
  BY TypeParts DEF DeliveryInv, TradeInv, TableTypes
<1>1. PICK n : n = Len(inbox) + 1
  OBVIOUS
<1>2. n \notin Ids(inbox) /\ Len(inbox') = n
  BY <1>0, <1>1, LenProperties DEF Ids, ReceiveDeposit, InboxEntry
<1>3. PICK j : j = [NoJob EXCEPT !.step = "findAccount", !.inbox = Len(inbox')]
  OBVIOUS
<1>4. j.step = "findAccount" /\ j.inbox = n /\ job' = [job EXCEPT ![p] = j]
  BY <1>2, <1>3 DEF ReceiveDeposit, Goto, NoJob
<1>5. job'[p] = j /\ \A q \in Workers \ {p} : job'[q] = job[q]
  BY <1>0, <1>4
<1>6. \A c \in credited : c.inbox # n
  BY <1>0, <1>2
<1>7. \A q \in Workers : job[q].step \in Early => job[q].inbox # n
  BY <1>0, <1>2 DEF JobsOK, JobOK, InboxSteps, Early
<1>8. UNCHANGED <<orders, credited>>
  BY DEF ReceiveDeposit
<1>9. Fresh'
  <2>1. \A q \in Workers : job'[q].step \in Early => \A c \in credited : c.inbox # job'[q].inbox
    BY <1>4, <1>5, <1>6 DEF DeliveryInv, Fresh
  <2>2. \A q, r \in Workers :
          job'[q].step \in Early /\ job'[r].step \in Early /\ job'[q].inbox = job'[r].inbox => q = r
    BY <1>4, <1>5, <1>7 DEF DeliveryInv, Fresh
  <2> QED BY <1>8, <2>1, <2>2 DEF Fresh
<1>10. \A s \in Sessions : DirectionOf[s] = "off_ramp" =>
         Cardinality(Filled(s)') + Cardinality(Filling(s)') <= Cardinality(Credits(s)')
  <2> SUFFICES ASSUME NEW s \in Sessions, DirectionOf[s] = "off_ramp"
               PROVE  Cardinality(Filled(s)') + Cardinality(Filling(s)') <= Cardinality(Credits(s)')
    OBVIOUS
  <2>1. Filled(s)' \subseteq Filled(s)
    BY <1>8, SameOrdersQuiet, OrdersQuietFewer
  <2>2. Filling(s)' \subseteq Filling(s)
    BY <1>4, <1>5 DEF Filling
  <2>3. Credits(s)' = Credits(s)
    BY <1>8 DEF Credits
  <2> QED BY <2>1, <2>2, <2>3, FewerBacked
<1> QED BY <1>8, <1>9, <1>10 DEF DeliveryInv, Backed

LEMMA OneMore ==
  ASSUME NEW S, NEW x, IsFiniteSet(S)
  PROVE  /\ IsFiniteSet(S \cup {x}) /\ Cardinality(S \cup {x}) \in Nat
         /\ Cardinality(S \cup {x}) <= Cardinality(S) + 1
<1>1. IsFiniteSet(S \cup {x})
  BY FS_AddElement
<1>2. PICK a : a = Cardinality(S)
  OBVIOUS
<1>3. PICK b : b = Cardinality(S \cup {x})
  OBVIOUS
<1>4. a \in Nat /\ b \in Nat
  BY <1>1, <1>2, <1>3, FS_CardinalityType
<1>5. b = a \/ b = a + 1
  BY <1>2, <1>3, FS_AddElement
<1> QED BY <1>1, <1>2, <1>3, <1>4, <1>5

\* The credit is new, so that the fill it may begin has one of its own.
LEMMA RecordDepositDelivers ==
  ASSUME DeliveryInv, TradeInv', NEW p \in Workers, RecordDeposit(p)
  PROVE  DeliveryInv'
<1>0. job \in [Workers -> Job] /\ job[p] \in Job /\ job[p].step = "recordDeposit"
  BY TypeParts DEF DeliveryInv, TradeInv, RecordDeposit
<1>1. PICK c : c = [inbox |-> job[p].inbox, session |-> job[p].session]
  OBVIOUS
<1>2. /\ c \notin credited /\ c.session = job[p].session /\ c.inbox = job[p].inbox
      /\ credited' = credited \cup {c}
      /\ UNCHANGED orders
  BY <1>0, <1>1 DEF DeliveryInv, Fresh, Early, RecordDeposit
<1>3. PICK j : /\ j = [job[p] EXCEPT !.step = IF isOffRampFill(job[p]) THEN "fillFromDeposit"
                                                                      ELSE "markProcessed"]
  OBVIOUS
<1>4. /\ j.step \in {"fillFromDeposit", "markProcessed"}
      /\ j.session = job[p].session
      /\ job' = [job EXCEPT ![p] = j]
  BY <1>0, <1>3 DEF RecordDeposit, Goto, Job
<1>5. job'[p] = j /\ \A q \in Workers \ {p} : job'[q] = job[q]
  BY <1>0, <1>4
<1>6. Fresh'
  <2>1. \A q \in Workers : job'[q].step \in Early => q # p /\ job'[q] = job[q]
    BY <1>4, <1>5 DEF Early
  <2>2. \A q \in Workers : job'[q].step \in Early => job[q].inbox # c.inbox
    BY <1>0, <1>2, <2>1 DEF DeliveryInv, Fresh, Early
  <2>3. \A q \in Workers : job'[q].step \in Early => \A e \in credited' : e.inbox # job'[q].inbox
    BY <1>2, <2>1, <2>2 DEF DeliveryInv, Fresh
  <2>4. \A q, r \in Workers :
          job'[q].step \in Early /\ job'[r].step \in Early /\ job'[q].inbox = job'[r].inbox => q = r
    BY <2>1 DEF DeliveryInv, Fresh
  <2> QED BY <2>3, <2>4 DEF Fresh
<1>7. IsFiniteSet(credited')
  BY <1>2, FS_AddElement DEF DeliveryInv
<1>8. \A s \in Sessions : DirectionOf[s] = "off_ramp" =>
        Cardinality(Filled(s)') + Cardinality(Filling(s)') <= Cardinality(Credits(s)')
  <2> SUFFICES ASSUME NEW s \in Sessions, DirectionOf[s] = "off_ramp"
               PROVE  Cardinality(Filled(s)') + Cardinality(Filling(s)') <= Cardinality(Credits(s)')
    OBVIOUS
  <2>1. Filled(s)' = Filled(s)
    BY <1>2 DEF Filled, OrdersOf, Ids
  <2>2. CASE s # c.session
    <3>1. Filling(s)' \subseteq Filling(s)
      BY <1>2, <1>4, <1>5, <2>2 DEF Filling
    <3>2. Credits(s)' = Credits(s)
      BY <1>2, <2>2 DEF Credits
    <3> QED BY <2>1, <3>1, <3>2, FewerBacked
  <2>3. CASE s = c.session
    <3>1. Filling(s)' \subseteq Filling(s) \cup {p}
      BY <1>5 DEF Filling
    <3>2. Credits(s)' = Credits(s) \cup {c} /\ c \notin Credits(s)
      BY <1>2, <2>3 DEF Credits
    <3>3. Cardinality(Credits(s)') = Cardinality(Credits(s)) + 1
      BY <3>2, Countable, FS_AddElement
    <3>4. /\ IsFiniteSet(Filling(s) \cup {p})
          /\ Cardinality(Filling(s) \cup {p}) \in Nat
          /\ Cardinality(Filling(s) \cup {p}) <= Cardinality(Filling(s)) + 1
      BY Countable, OneMore
    <3>5. /\ Cardinality(Filling(s)') \in Nat
          /\ Cardinality(Filling(s)') <= Cardinality(Filling(s) \cup {p})
      BY <3>1, <3>4, FS_Subset, FS_CardinalityType
    <3>6. Cardinality(Filled(s)) + Cardinality(Filling(s)) <= Cardinality(Credits(s))
      BY DEF DeliveryInv, Backed
    <3>7. \A a, b, d, e, f \in Nat : a + b <= d /\ e <= b + 1 /\ f <= e => a + f <= d + 1
      OBVIOUS
    <3> QED BY <2>1, <3>3, <3>4, <3>5, <3>6, <3>7, Countable
  <2> QED BY <2>2, <2>3
<1> QED BY <1>6, <1>7, <1>8 DEF DeliveryInv, Backed

\* The job that was filling the order has filled it.
LEMMA FillFromDepositDelivers ==
  ASSUME DeliveryInv, TradeInv', NEW p \in Workers, FillFromDeposit(p)
  PROVE  DeliveryInv'
<1>0. /\ job \in [Workers -> Job] /\ job[p] \in Job /\ job[p].step = "fillFromDeposit"
      /\ orders \in Seq(Order)
      /\ job[p].order \in Ids(orders)
      /\ orders[job[p].order].session = job[p].session
  BY TypeParts DEF DeliveryInv, TradeInv, FillFromDeposit, TableTypes, JobsOK, JobOK
<1>1. PICK o : o = job[p].order
  OBVIOUS
<1>2. PICK r : r = [orders[o] EXCEPT !.status = "filled"]
  OBVIOUS
<1>3. /\ o \in Ids(orders) /\ orders[o].session = job[p].session /\ orders[o] \in Order
      /\ orders' = [orders EXCEPT ![o] = r] /\ UNCHANGED credited
  BY <1>0, <1>1, <1>2, RowType DEF FillFromDeposit
<1>4. r.session = orders[o].session
  BY <1>2, <1>3 DEF Order
<1>5. /\ Ids(orders') = Ids(orders) /\ orders'[o] = r
      /\ \A k \in Ids(orders) \ {o} : orders'[k] = orders[k]
  BY <1>0, <1>3, LenProperties DEF Ids
<1>6. PICK j : j = [job[p] EXCEPT !.step = "depositMatched"]
  OBVIOUS
<1>7. j.step = "depositMatched" /\ job' = [job EXCEPT ![p] = j]
  BY <1>0, <1>6 DEF FillFromDeposit, CallFrom, Goto, Job
<1>8. job'[p] = j /\ \A q \in Workers \ {p} : job'[q] = job[q]
  BY <1>0, <1>7
<1>9. Fresh'
  <2>1. \A q \in Workers : job'[q].step \in Early => job'[q] = job[q]
    BY <1>7, <1>8 DEF Early
  <2> QED BY <1>3, <2>1 DEF DeliveryInv, Fresh
<1>10. \A s \in Sessions : DirectionOf[s] = "off_ramp" =>
         Cardinality(Filled(s)') + Cardinality(Filling(s)') <= Cardinality(Credits(s)')
  <2> SUFFICES ASSUME NEW s \in Sessions, DirectionOf[s] = "off_ramp"
               PROVE  Cardinality(Filled(s)') + Cardinality(Filling(s)') <= Cardinality(Credits(s)')
    OBVIOUS
  <2>1. Credits(s)' = Credits(s)
    BY <1>3 DEF Credits
  <2>2. Filling(s)' \subseteq Filling(s) \ {p}
    BY <1>7, <1>8 DEF Filling
  <2>3. CASE s # job[p].session
    <3>1. Filled(s)' \subseteq Filled(s)
      BY <1>3, <1>4, <1>5, <2>3 DEF Filled, OrdersOf, Ids
    <3> QED BY <2>1, <2>2, <3>1, FewerBacked
  <2>4. CASE s = job[p].session
    <3>1. Filled(s)' \subseteq Filled(s) \cup {o}
      BY <1>5 DEF Filled, OrdersOf, Ids
    <3>2. p \in Filling(s)
      BY <1>0, <2>4 DEF Filling
    <3>3. /\ IsFiniteSet(Filled(s) \cup {o}) /\ Cardinality(Filled(s) \cup {o}) \in Nat
          /\ Cardinality(Filled(s) \cup {o}) <= Cardinality(Filled(s)) + 1
      BY Countable, OneMore
    <3>4. /\ IsFiniteSet(Filling(s) \ {p}) /\ Cardinality(Filling(s) \ {p}) \in Nat
          /\ Cardinality(Filling(s) \ {p}) = Cardinality(Filling(s)) - 1
      BY <3>2, Countable, FS_RemoveElement, FS_CardinalityType
    <3>5. /\ Cardinality(Filled(s)') \in Nat
          /\ Cardinality(Filled(s)') <= Cardinality(Filled(s) \cup {o})
      BY <3>1, <3>3, FS_Subset, FS_CardinalityType
    <3>6. /\ Cardinality(Filling(s)') \in Nat
          /\ Cardinality(Filling(s)') <= Cardinality(Filling(s) \ {p})
      BY <2>2, <3>4, FS_Subset, FS_CardinalityType
    <3>7. Cardinality(Filled(s)) + Cardinality(Filling(s)) <= Cardinality(Credits(s))
      BY DEF DeliveryInv, Backed
    <3>8. \A a, b, d, e, f, g, h \in Nat :
            a + b <= d /\ e <= a + 1 /\ f <= e /\ g = b - 1 /\ h <= g => f + h <= d
      OBVIOUS
    <3> QED BY <2>1, <3>3, <3>4, <3>5, <3>6, <3>7, <3>8, Countable
  <2> QED BY <2>3, <2>4
<1> QED BY <1>3, <1>9, <1>10 DEF DeliveryInv, Backed

\* No order, no delivery and no call: nothing has been settled.
LEMMA NothingSettled ==
  ASSUME sessionState \in [Sessions -> (SessionState \cup {Absent}) \ {"order_filled", "failed"}],
         call = [p \in Workers |-> IdleFrame],
         quotes = <<>>, orders = <<>>, provider = <<>>, inbox = <<>>, credited = {},
         job = [p \in Workers |-> NoJob]
  PROVE  DeliveryInv
<1>1. Typed
  <2>1. CallTypes
    BY FrameKinds DEF CallTypes, Frame
  <2>2. TableTypes
    BY EmptySeq DEF TableTypes, Ids
  <2> QED BY <2>1, <2>2, NoJobType, TypeParts
<1>2. RowsOK /\ ProviderOK
  BY DEF RowsOK, ProviderOK, Ids
<1>3. JobsOK
  BY DEF JobsOK, JobOK, NoJob, QuoteSteps, OrderSteps, PollSteps, InboxSteps
<1>4. CallsOK /\ SessionsOK
  BY DEF CallsOK, InFlight, IdleFrame, Awaited, SessionsOK, Warranted
<1>5. Fresh
  BY DEF NoJob, Fresh, Early
<1>6. \A s \in Sessions : Filled(s) = {} /\ Filling(s) = {} /\ Credits(s) = {}
  BY DEF NoJob, Filled, Filling, Credits, OrdersOf, Ids
<1>7. Backed
  <2>1. \A s \in Sessions : /\ Cardinality(Filled(s)) = 0
                           /\ Cardinality(Filling(s)) = 0
                           /\ Cardinality(Credits(s)) = 0
    BY <1>6, FS_EmptySet, Zenon
  <2> QED BY <2>1, 0 + 0 <= 0 DEF Backed
<1> QED BY <1>1, <1>2, <1>3, <1>4, <1>5, <1>7, FS_EmptySet DEF DeliveryInv, TradeInv

LEMMA DeliveryKept ==
  ASSUME DeliveryInv, TradeStep \/ Elsewhere
  PROVE  DeliveryInv'
<1>0. TradeInv' /\ job \in [Workers -> Job]
  BY TradeKept, TypeParts DEF DeliveryInv, TradeInv
<1>1. CASE UNCHANGED <<orders, credited, job>>
  BY <1>0, <1>1, SameOrdersQuiet, QuietStep
<1>2. ASSUME NEW p \in Workers, JobBegins(p) PROVE DeliveryInv'
  BY <1>0, <1>2, StartJobQuiet, ReceiveDepositDelivers DEF JobBegins
<1>3. ASSUME NEW p \in Workers, JobStepOf(p) PROVE DeliveryInv'
  BY <1>0, <1>3, JobStepQuiet, RecordDepositDelivers, FillFromDepositDelivers
<1>4. ASSUME NEW p \in Workers, JobFails(p) PROVE DeliveryInv'
  <2>1. JobQuiet(p) /\ UNCHANGED <<orders, credited>>
    BY <1>0, <1>4, FinishQuiet DEF JobFails, tables
  <2> QED BY <1>0, <2>1, SameOrdersQuiet, QuietStep
<1>5. CASE Elsewhere
  BY <1>1, <1>5 DEF Elsewhere, tables
<1>6. ASSUME NEW q \in Ids(quotes), QuoteLapses(q) PROVE DeliveryInv'
  BY <1>1, <1>6 DEF QuoteLapses
<1>7. ASSUME NEW k \in Ids(provider),
             (\E v \in {"cleared", "rejected"} : ProviderDecides(k, v)) \/ ProviderFills(k)
      PROVE  DeliveryInv'
  BY <1>1, <1>7 DEF ProviderDecides, ProviderFills
<1> QED BY <1>2, <1>3, <1>4, <1>5, <1>6, <1>7 DEF TradeStep

LEMMA FillsDeliveredFromInv == DeliveryInv => FillsAreDelivered
<1> SUFFICES ASSUME DeliveryInv, NEW s \in Sessions, DirectionOf[s] = "off_ramp"
             PROVE  Cardinality(Filled(s)) <= Cardinality(Credits(s))
  BY DEF FillsAreDelivered, Filled, Credits
<1>1. Cardinality(Filled(s)) + Cardinality(Filling(s)) <= Cardinality(Credits(s))
  BY DEF DeliveryInv, Backed
<1> QED BY <1>1, Countable

-----------------------------------------------------------------------------
(***************************************************************************)
(* Calls that do not overlap                                               *)
(*                                                                         *)
(* The code has no lock on a session, and a session does leave a terminal  *)
(* state.  Were no two calls for one session under way at a time, what a   *)
(* call read would still be so when it writes, and every change would be   *)
(* an edge of the graph, whatever fails half-way.                          *)
(***************************************************************************)

OneCallPerSession ==
  \A p, q \in Workers :
    InFlight(p) /\ InFlight(q) /\ call[p].session = call[q].session => p = q

Edge(from, to) ==
  from \in SessionState \ TERMINAL_STATES /\ isGraphEdgeAllowed(from, to, RelaxStateGuards)

FreshFrame(f) ==
  /\ f.step \in {"loadFlags", "updateState"} =>
       f.from = sessionState[f.session] /\ f.from \in SessionState
  /\ f.step = "updateState" => Edge(f.from, f.to)

SerialInv == CallTypes /\ \A p \in Workers : FreshFrame(call[p])

\* What a step does to the sessions that exist.
OnGraph ==
  \A s \in Sessions :
    sessionState[s] # Absent /\ sessionState'[s] # sessionState[s]
      => Edge(sessionState[s], sessionState'[s])

\* A call is made, has returned, or is given up: nothing is read or written.
CallerMoves ==
  /\ UNCHANGED sessionState
  /\ \/ UNCHANGED call
     \/ \E p \in Workers : \E g :
          call' = [call EXCEPT ![p] = g] /\ g.step \in {"idle", "findSession", "returned"}

LEMMA RestSteps ==
  /\ IdleFrame.step = "idle"
  /\ \A o : Returned(o).step = "returned"
  /\ \A s, to, r : Called(s, to, r).step = "findSession"
BY DEF IdleFrame, Returned, Called

LEMMA AskIsCallerMove ==
  ASSUME NEW p \in Workers, NEW s, NEW to, NEW r, Ask(p, s, to, r) PROVE CallerMoves
<1>1. PICK g : g = Called(s, to, r)
  OBVIOUS
<1>2. call' = [call EXCEPT ![p] = g] /\ UNCHANGED sessionState /\ g.step = "findSession"
  BY <1>1, RestSteps DEF Ask
<1> QED BY <1>2 DEF CallerMoves

LEMMA ResultIsCallerMove ==
  ASSUME NEW p \in Workers, Threw(p) \/ \E e : ResultTaken(p, e) PROVE CallerMoves
BY RestSteps DEF Threw, ResultTaken, CallerMoves

LEMMA NoCallIsCallerMove == UNCHANGED serviceVars => CallerMoves
BY DEF serviceVars, CallerMoves

LEMMA QueryFailsIsCallerMove ==
  ASSUME NEW p \in Workers, QueryFails(p) PROVE CallerMoves
BY RestSteps DEF QueryFails, CallerMoves

LEMMA TradeIsCallerMove ==
  ASSUME TradeStep PROVE CallerMoves
<1>1. ASSUME NEW p \in Workers, JobBegins(p) \/ JobFails(p) PROVE CallerMoves
  BY <1>1, NoCallIsCallerMove DEF JobBegins, JobFails, RequestQuote, AcceptQuote, SubmitOrder,
     PollOrder, ReceiveDeposit
<1>2. ASSUME NEW p \in Workers, JobStepOf(p) PROVE CallerMoves
  <2>1. CASE QuoteRequested(p) \/ QuoteReady(p) \/ OrderSubmitted(p) \/ OrderMoved(p) \/ DepositMatched(p)
    BY <2>1, ResultIsCallerMove DEF QuoteRequested, QuoteReady, OrderSubmitted, OrderMoved, DepositMatched
  <2>2. CASE CreateQuote(p) \/ CreateOrder(p) \/ RejectOrder(p) \/ FillOrder(p) \/ FillFromDeposit(p)
    BY <2>2, AskIsCallerMove DEF CreateQuote, CreateOrder, RejectOrder, FillOrder, FillFromDeposit, CallFrom
  <2>3. CASE ExpireQuotes(p)
    BY <2>3, AskIsCallerMove, NoCallIsCallerMove DEF ExpireQuotes, CallFrom
  <2>4. CASE \/ WriteAccepted(p) \/ PlaceOrder(p) \/ AskProvider(p) \/ ClearOrder(p)
             \/ FindAccount(p) \/ FindSessions(p) \/ FindOrder(p) \/ RecordDeposit(p)
             \/ MarkProcessed(p)
    BY <2>4, NoCallIsCallerMove DEF WriteAccepted, PlaceOrder, AskProvider, ClearOrder, FindAccount,
       FindSessions, FindOrder, RecordDeposit, MarkProcessed
  <2> QED BY <1>2, <2>1, <2>2, <2>3, <2>4 DEF JobStepOf
<1>3. ASSUME \/ \E q \in Ids(quotes) : QuoteLapses(q)
             \/ \E k \in Ids(provider) :
                  (\E v \in {"cleared", "rejected"} : ProviderDecides(k, v)) \/ ProviderFills(k)
      PROVE  CallerMoves
  BY <1>3, NoCallIsCallerMove DEF QuoteLapses, ProviderDecides, ProviderFills
<1> QED BY <1>1, <1>2, <1>3 DEF TradeStep

\* An accepted call takes an edge of the graph, from a state that is not final.
LEMMA AcceptedIsEdge ==
  ASSUME NEW f, NEW held, f.from \in SessionState, Verdict(f, held) = "ok"
  PROVE  Edge(f.from, f.to)
BY DEF Verdict, assertCanTransition, Edge

\* Where no other call for the session is under way, a step of a call keeps
\* what all calls have read.
LEMMA SerialCallStep ==
  ASSUME SerialInv, OneCallPerSession, NEW p \in Workers, CallGoesOn(p), CallTypes'
  PROVE  SerialInv' /\ OnGraph
<1>0. /\ call[p] \in CallFrame /\ call[p].step \in Awaited /\ call[p].session \in Sessions
      /\ sessionState \in [Sessions -> SessionState \cup {Absent}]
      /\ call \in [Workers -> Frame]
  <2>1. call[p].step \in Awaited
    BY DEF CallGoesOn, FindSession, LoadFlags, UpdateState, AppendEvent, Awaited
  <2> QED BY <2>1, Awaiting DEF SerialInv, CallTypes, CallFrame
<1>1. ASSUME NEW g, call' = [call EXCEPT ![p] = g], UNCHANGED sessionState, FreshFrame(g)
      PROVE  SerialInv' /\ OnGraph
  <2>1. \A q \in Workers : FreshFrame(call'[q])
    BY <1>0, <1>1 DEF SerialInv
  <2> QED BY <1>1, <2>1 DEF SerialInv, FreshFrame, OnGraph
<1>2. CASE FindSession(p)
  <2>1. PICK from : from = sessionState[call[p].session]
    OBVIOUS
  <2>2. from \in SessionState \cup {Absent}
    BY <1>0, <2>1
  <2>3. CASE from = Absent \/ from = call[p].to
    <3>1. StateFound(call[p], from).step = "returned"
      BY <2>3, RestSteps DEF StateFound
    <3> QED BY <1>1, <1>2, <2>1, <3>1 DEF FindSession, FreshFrame
  <2>4. CASE from # Absent /\ from # call[p].to
    <3>1. PICK g : g = [call[p] EXCEPT !.step = "loadFlags", !.from = from]
      OBVIOUS
    <3>2. g.step = "loadFlags" /\ g.from = from /\ g.session = call[p].session
      BY <1>0, <3>1 DEF CallFrame
    <3>3. StateFound(call[p], from) = g
      BY <2>4, <3>1 DEF StateFound
    <3> QED BY <1>1, <1>2, <2>1, <2>2, <2>4, <3>2, <3>3 DEF FindSession, FreshFrame
  <2> QED BY <2>3, <2>4
<1>3. ASSUME NEW held, LoadFlags(p, held) PROVE SerialInv' /\ OnGraph
  <2>0. /\ call[p].step = "loadFlags" /\ call[p].from = sessionState[call[p].session]
        /\ call[p].from \in SessionState
    BY <1>3 DEF LoadFlags, SerialInv, FreshFrame
  <2>1. CASE Verdict(call[p], held) = "ok"
    <3>1. PICK g : g = [call[p] EXCEPT !.step = "updateState"]
      OBVIOUS
    <3>2. /\ g.step = "updateState" /\ g.from = call[p].from /\ g.to = call[p].to
          /\ g.session = call[p].session
      BY <1>0, <3>1 DEF CallFrame
    <3>3. FreshFrame(g)
      BY <2>0, <2>1, <3>2, AcceptedIsEdge DEF FreshFrame
    <3> QED BY <1>1, <1>3, <2>1, <3>1, <3>3 DEF LoadFlags
  <2>2. CASE Verdict(call[p], held) # "ok"
    <3>1. PICK g : g = Returned(Verdict(call[p], held))
      OBVIOUS
    <3>2. FreshFrame(g)
      BY <3>1, RestSteps DEF FreshFrame
    <3> QED BY <1>1, <1>3, <2>2, <3>1, <3>2 DEF LoadFlags
  <2> QED BY <2>1, <2>2
<1>4. CASE UpdateState(p)
  <2>0. /\ call[p].step = "updateState" /\ call[p].from = sessionState[call[p].session]
        /\ Edge(call[p].from, call[p].to)
    BY <1>4 DEF UpdateState, SerialInv, FreshFrame
  <2>1. PICK g : g = [call[p] EXCEPT !.step = "appendEvent"]
    OBVIOUS
  <2>2. g.step = "appendEvent"
    BY <1>0, <2>1 DEF CallFrame
  <2>3. /\ call'[p] = g /\ \A q \in Workers \ {p} : call'[q] = call[q]
        /\ \A s \in Sessions :
             sessionState'[s] = IF s = call[p].session THEN call[p].to ELSE sessionState[s]
    BY <1>0, <1>4, <2>1 DEF UpdateState
  <2>4. ASSUME NEW q \in Workers PROVE FreshFrame(call[q])'
    <3>1. CASE q = p
      BY <2>2, <2>3, <3>1 DEF FreshFrame
    <3>2. CASE q # p /\ call[q].step \in {"loadFlags", "updateState"}
      <4>1. call[q].session \in Sessions /\ call[q].session # call[p].session
        <5>1. call[q].step \in Awaited
          BY <3>2 DEF Awaited
        <5> QED BY <1>0, <3>2, <5>1, Awaiting DEF OneCallPerSession, InFlight, CallFrame
      <4>2. sessionState'[call[q].session] = sessionState[call[q].session]
        BY <2>3, <4>1
      <4>3. FreshFrame(call[q]) /\ call'[q] = call[q]
        BY <2>3, <3>2 DEF SerialInv
      <4> QED BY <4>2, <4>3 DEF FreshFrame
    <3>3. CASE q # p /\ call[q].step \notin {"loadFlags", "updateState"}
      BY <2>3, <3>3 DEF FreshFrame
    <3> QED BY <3>1, <3>2, <3>3
  <2>5. OnGraph
    BY <2>0, <2>3 DEF OnGraph
  <2> QED BY <2>4, <2>5 DEF SerialInv
<1>5. CASE AppendEvent(p)
  BY <1>1, <1>5, RestSteps DEF AppendEvent, FreshFrame
<1> QED BY <1>2, <1>3, <1>4, <1>5 DEF CallGoesOn

\* What is read and written is left to the steps of calls.
LEMMA SerialKept ==
  ASSUME SerialInv, OneCallPerSession, CallTypes', TradeStep \/ Elsewhere
  PROVE  SerialInv' /\ OnGraph
<1>1. CASE CallerMoves
  <2>1. UNCHANGED sessionState /\ OnGraph
    BY <1>1 DEF CallerMoves, OnGraph
  <2>2. ASSUME NEW q \in Workers PROVE FreshFrame(call[q])'
    <3>1. FreshFrame(call[q])
      BY DEF SerialInv
    <3>2. call'[q] = call[q] \/ call'[q].step \in {"idle", "findSession", "returned"}
      BY <1>1 DEF CallerMoves, SerialInv, CallTypes
    <3> QED BY <2>1, <3>1, <3>2 DEF FreshFrame
  <2> QED BY <2>1, <2>2 DEF SerialInv
<1>2. ASSUME NEW p \in Workers, CallGoesOn(p) PROVE SerialInv' /\ OnGraph
  BY <1>2, SerialCallStep
<1>3. ASSUME NEW s \in Sessions, CreateSession(s) PROVE SerialInv' /\ OnGraph
  <2>0. /\ sessionState \in [Sessions -> SessionState \cup {Absent}]
        /\ call \in [Workers -> Frame]
    BY DEF SerialInv, CallTypes
  <2>1. /\ sessionState[s] = Absent /\ call' = call
        /\ \A t \in Sessions \ {s} : sessionState'[t] = sessionState[t]
    BY <1>3, <2>0 DEF CreateSession
  <2>2. OnGraph
    BY <2>1 DEF OnGraph
  <2>3. ASSUME NEW q \in Workers PROVE FreshFrame(call[q])'
    <3>1. CASE call[q].step \in {"loadFlags", "updateState"}
      <4>1. call[q].session \in Sessions
        <5>1. call[q].step \in Awaited
          BY <3>1 DEF Awaited
        <5> QED BY <2>0, <5>1, Awaiting DEF CallFrame
      <4>2. FreshFrame(call[q]) /\ call[q].session # s
        BY <2>1, <3>1, AbsentAssumption DEF SerialInv, FreshFrame
      <4> QED BY <2>1, <4>1, <4>2 DEF FreshFrame
    <3>2. CASE call[q].step \notin {"loadFlags", "updateState"}
      BY <2>1, <3>2 DEF FreshFrame
    <3> QED BY <3>1, <3>2
  <2> QED BY <2>2, <2>3 DEF SerialInv
<1>4. CASE TradeStep
  BY <1>1, <1>4, TradeIsCallerMove
<1>5. CASE Elsewhere
  <2>1. CASE UNCHANGED serviceVars
    BY <1>1, <2>1, NoCallIsCallerMove
  <2>2. ASSUME NEW p \in Workers,
               \/ QueryFails(p)
               \/ \E e \in Outcome : ResultTaken(p, e)
               \/ \E s \in Sessions, to \in SessionState, r \in TransitionReason : Ask(p, s, to, r)
        PROVE  SerialInv' /\ OnGraph
    BY <1>1, <2>2, QueryFailsIsCallerMove, ResultIsCallerMove, AskIsCallerMove
  <2> QED BY <1>2, <1>3, <1>5, <2>1, <2>2 DEF Elsewhere, ServiceMoves
<1> QED BY <1>4, <1>5

LEMMA SerialAtFirst ==
  ASSUME CallTypes, call = [p \in Workers |-> IdleFrame] PROVE SerialInv
BY RestSteps DEF SerialInv, FreshFrame

=============================================================================
