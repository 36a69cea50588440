----------------------------- MODULE Settlement -----------------------------
(***************************************************************************)
(* The jobs of SettlementJobs for users who have passed every gate of      *)
(* onboarding, the transition service they call, and the routing provider. *)
(***************************************************************************)
EXTENDS SettlementJobs

vars == <<serviceVars, tables, job>>

-----------------------------------------------------------------------------

\* The user has passed every gate of onboarding.
Init ==
  /\ sessionState = [s \in Sessions |-> "bank_link_required"]
  /\ audited = [s \in Sessions |-> "bank_link_required"]
  /\ call = [p \in Workers |-> IdleFrame]
  /\ quotes = <<>>
  /\ orders = <<>>
  /\ provider = <<>>
  /\ inbox = <<>>
  /\ credited = {}
  /\ job = [p \in Workers |-> NoJob]

\* The steps of transition() for a user of whom every fact is true.
TransitionStep(p) ==
  \/ FindSession(p)
  \/ LoadFlags(p, UserFlag)
  \/ UpdateState(p)
  \/ AppendEvent(p)

StartJob(p) ==
  \/ \E s \in Sessions : RequestQuote(p, s)
  \/ \E q \in Ids(quotes) : AcceptQuote(p, q)
  \/ \E s \in Sessions, q \in Ids(quotes) : SubmitOrder(p, s, q)
  \/ \E o \in Ids(orders) : PollOrder(p, o)
  \/ \E d \in Deposits : ReceiveDeposit(p, d)

Work(p) ==
  \/ TransitionStep(p) /\ UNCHANGED <<tables, job>>
  \/ JobStepOf(p)

Next ==
  \/ \E p \in Workers :
       \/ StartJob(p)
       \/ Work(p)
       \/ QueryFails(p) /\ UNCHANGED <<tables, job>>
       \/ JobFails(p)
  \/ \E q \in Ids(quotes) : QuoteLapses(q)
  \/ \E k \in Ids(provider) :
       \/ \E v \in {"cleared", "rejected"} : ProviderDecides(k, v)
       \/ ProviderFills(k)

Spec == Init /\ [][Next]_vars

\* A job under way is resumed when its statement is answered.
FairSpec == Spec /\ \A p \in Workers : WF_vars(Work(p))

-----------------------------------------------------------------------------
(***************************************************************************)
(* Properties                                                              *)
(***************************************************************************)

TypeOK ==
  /\ sessionState \in [Sessions -> SessionState]
  /\ call \in [Workers -> Frame]
  /\ TablesTyped

\* With queries that do not fail every delivery is eventually processed.
DeliveriesProcessed ==
  \A i \in 1..MaxInbox :
    i \in Ids(inbox) ~> (i \in Ids(inbox) /\ inbox[i].processed)

\* A deposit of its user's would settle the session: no newer one of theirs has
\* an order, and its own newest is cleared.
WaitsForDeposit(s) ==
  /\ DirectionOf[s] = "off_ramp"
  /\ sessionState[s] = "compliance_pending"
  /\ \E o \in OrdersOf(s) :
       Newest(o, OrdersOf(s)) /\ orders[o].compliance = "cleared"
  /\ \A t \in Sessions : UserOf[t] = UserOf[s] /\ t > s => OrdersOf(t) = {}

\* A deposit received while a session of its user waits for one fills it.
DepositFillsClearedOrder ==
  \A s \in {t \in Sessions : DirectionOf[t] = "off_ramp"} :
    ( /\ WaitsForDeposit(s)
      /\ \E p \in Workers : job[p].step = "findAccount" /\ Payer(job[p]) = UserOf[s] )
    ~> sessionState[s] = "order_filled"

\* No delivery is lost on the way: on an idle server all have been processed, so
\* no transition a delivery asks for is ever refused.
IdleServerProcessed ==
  (\A p \in Workers : Idle(p)) => \A i \in Ids(inbox) : inbox[i].processed

\* A delivery is not marked processed while a session of its user still waits
\* for a deposit, whichever of the user's sessions it was matched to.
NonePassedOver ==
  \A p \in Workers, s \in Sessions :
    job[p].step = "markProcessed" /\ Payer(job[p]) = UserOf[s] => ~ WaitsForDeposit(s)

\* Nothing leaves a terminal state.
TerminalIsFinal ==
  [][ \A s \in Sessions :
        sessionState[s] \in TERMINAL_STATES => sessionState'[s] = sessionState[s] ]_vars

\* The checkpoint's verdict is final in the order row, whether the submission
\* brought it or a poll: no poll, however late it writes what it heard, and no
\* deposit takes it back, and all that becomes of a rejected order is that it is
\* marked failed.
VerdictStays ==
  [][ \A o \in Ids(orders) :
        /\ orders[o].compliance \in {"cleared", "rejected"}
             => orders'[o].compliance = orders[o].compliance
        /\ orders[o].compliance = "rejected"
             => orders'[o] \in {orders[o], [orders[o] EXCEPT !.status = "failed"]} ]_vars

\* A filled order stays filled.
FilledStaysFilled ==
  [][ \A o \in Ids(orders) :
        orders[o].status = "filled" => orders'[o].status = "filled" ]_vars

=============================================================================
