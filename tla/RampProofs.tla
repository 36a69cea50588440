----------------------------- MODULE RampProofs -----------------------------
(***************************************************************************)
(* What the composed server promises: that the gates of onboarding stand   *)
(* before every order, and that its handlers are callers the theorems of   *)
(* SessionTransitions are about.                                           *)
(*                                                                         *)
(* Every step of a handler is a Move: a step of the transition service, a  *)
(* fact learnt, or nothing to the service.  A Move keeps GateInv and is a  *)
(* step of the abstract service, whichever handler takes it; what is left  *)
(* is that each handler's step is one, for which FactsHeld says that the   *)
(* flags read were learnt, and OneCall that a worker which begins a call   *)
(* has none under way.                                                     *)
(*                                                                         *)
(* That orders stand behind the gates is carried along the trade: a quote  *)
(* is made by a job that saw its session in quote_requested, or whose own  *)
(* call took it there (Requested), and either is behind the gates; a row   *)
(* once made stays gated (RowsGated), since facts that held stay recorded; *)
(* and an order is made from a quote of its session.                       *)
(***************************************************************************)
EXTENDS Ramp, SessionGatesProofs, SettlementJobsProofs

LEMMA OnboardingRules ==
  ASSUME NEW from, NEW to, NEW s, NEW held, NEW reason, NEW relax
  PROVE  O!assertCanTransition(from, to, O!Context(s, held), reason, relax)
           = assertCanTransition(from, to, Context(s, held), reason, relax)
<1>1. O!BASE_TRANSITIONS(from) = BASE_TRANSITIONS(from)
  BY DEF O!BASE_TRANSITIONS, BASE_TRANSITIONS, O!Abandon, Abandon
<1>2. O!TERMINAL_STATES = TERMINAL_STATES
  BY DEF O!TERMINAL_STATES, TERMINAL_STATES
<1>3. O!isGraphEdgeAllowed(from, to, relax) <=> isGraphEdgeAllowed(from, to, relax)
  BY <1>1, <1>2 DEF O!isGraphEdgeAllowed, isGraphEdgeAllowed, O!allowedTargets, allowedTargets,
     O!QUOTE_RELAX_TARGETS, QUOTE_RELAX_TARGETS
<1>4. O!Context(s, held) = Context(s, held)
  BY DEF O!Context, Context
<1>5. PICK ctx : ctx = Context(s, held)
  OBVIOUS
<1>6. O!checkPrerequisites(from, to, ctx, reason, relax) = checkPrerequisites(from, to, ctx, reason, relax)
  BY DEF O!checkPrerequisites, checkPrerequisites, O!Prerequisite, Prerequisite, O!needsWallet,
     needsWallet, O!SETTLEMENT_REASONS, SETTLEMENT_REASONS
<1>7. O!assertCanTransition(from, to, ctx, reason, relax) = assertCanTransition(from, to, ctx, reason, relax)
  BY <1>2, <1>3, <1>6 DEF O!assertCanTransition, assertCanTransition
<1> QED BY <1>4, <1>5, <1>7

LEMMA OnboardingService ==
  ASSUME NEW p
  PROVE  /\ O!FindSession(p) <=> FindSession(p)
         /\ \A held : O!LoadFlags(p, held) <=> LoadFlags(p, held)
         /\ O!UpdateState(p) <=> UpdateState(p)
         /\ O!AppendEvent(p) <=> AppendEvent(p)
         /\ \A s : O!CreateSession(s) <=> CreateSession(s)
         /\ \A s, to, reason : O!Ask(p, s, to, reason) <=> Ask(p, s, to, reason)
         /\ \A e : O!ResultTaken(p, e) <=> ResultTaken(p, e)
<1> USE DEF O!Returned, Returned, O!IdleFrame, IdleFrame
<1>1. O!FindSession(p) <=> FindSession(p)
  BY DEF O!FindSession, FindSession, O!StateFound, StateFound
<1>2. ASSUME NEW held PROVE O!LoadFlags(p, held) <=> LoadFlags(p, held)
  <2>1. O!Verdict(call[p], held) = Verdict(call[p], held)
    BY OnboardingRules DEF O!Verdict, Verdict
  <2> QED BY <2>1 DEF O!LoadFlags, LoadFlags
<1>3. (O!UpdateState(p) <=> UpdateState(p)) /\ (O!AppendEvent(p) <=> AppendEvent(p))
  BY DEF O!UpdateState, UpdateState, O!AppendEvent, AppendEvent
<1>4. \A s : O!CreateSession(s) <=> CreateSession(s)
  BY DEF O!CreateSession, CreateSession, O!initialSessionState, initialSessionState
<1>5. \A s, to, reason : O!Ask(p, s, to, reason) <=> Ask(p, s, to, reason)
  BY DEF O!Ask, Ask, O!Called, Called
<1>6. \A e : O!ResultTaken(p, e) <=> ResultTaken(p, e)
  BY DEF O!ResultTaken, ResultTaken
<1> QED BY <1>1, <1>2, <1>3, <1>4, <1>5, <1>6

LEMMA AbstractRules ==
  ASSUME NEW from, NEW to, NEW s, NEW held, NEW reason, NEW relax
  PROVE  Service!assertCanTransition(from, to, Service!Context(s, held), reason, relax)
           = assertCanTransition(from, to, Context(s, held), reason, relax)
<1>1. Service!BASE_TRANSITIONS(from) = BASE_TRANSITIONS(from)
  BY DEF Service!BASE_TRANSITIONS, BASE_TRANSITIONS, Service!Abandon, Abandon
<1>2. Service!TERMINAL_STATES = TERMINAL_STATES
  BY DEF Service!TERMINAL_STATES, TERMINAL_STATES
<1>3. Service!isGraphEdgeAllowed(from, to, relax) <=> isGraphEdgeAllowed(from, to, relax)
  BY <1>1, <1>2 DEF Service!isGraphEdgeAllowed, isGraphEdgeAllowed, Service!allowedTargets, allowedTargets,
     Service!QUOTE_RELAX_TARGETS, QUOTE_RELAX_TARGETS
<1>4. Service!Context(s, held) = Context(s, held)
  BY DEF Service!Context, Context
<1>5. PICK ctx : ctx = Context(s, held)
  OBVIOUS
<1>6. Service!checkPrerequisites(from, to, ctx, reason, relax) = checkPrerequisites(from, to, ctx, reason, relax)
  BY DEF Service!checkPrerequisites, checkPrerequisites, Service!Prerequisite, Prerequisite, Service!needsWallet,
     needsWallet, Service!SETTLEMENT_REASONS, SETTLEMENT_REASONS
<1>7. Service!assertCanTransition(from, to, ctx, reason, relax) = assertCanTransition(from, to, ctx, reason, relax)
  BY <1>2, <1>3, <1>6 DEF Service!assertCanTransition, assertCanTransition
<1> QED BY <1>4, <1>5, <1>7

LEMMA AbstractService ==
  ASSUME NEW p
  PROVE  /\ FindSession(p) => Service!FindSession(p)
         /\ \A held : LoadFlags(p, held) => Service!LoadFlags(p, held)
         /\ UpdateState(p) => Service!UpdateState(p)
         /\ AppendEvent(p) => Service!AppendEvent(p)
         /\ QueryFails(p) => Service!QueryFails(p)
         /\ \A s : CreateSession(s) => Service!CreateSession(s)
         /\ \A s, c : call[p].step = "idle" /\ Ask(p, s, c.to, c.reason) => Service!Call(p, s, c)
         /\ \A e : ResultTaken(p, e) => Service!TakeResult(p)
<1> USE DEF Service!Returned, Returned, Service!IdleFrame, IdleFrame
<1>1. FindSession(p) => Service!FindSession(p)
  BY DEF Service!FindSession, FindSession, Service!StateFound, StateFound
<1>2. ASSUME NEW held PROVE LoadFlags(p, held) => Service!LoadFlags(p, held)
  <2>1. Service!Verdict(call[p], held) = Verdict(call[p], held)
    BY AbstractRules DEF Service!Verdict, Verdict
  <2> QED BY <2>1 DEF Service!LoadFlags, LoadFlags
<1>3. /\ UpdateState(p) => Service!UpdateState(p)
      /\ AppendEvent(p) => Service!AppendEvent(p)
      /\ QueryFails(p) => Service!QueryFails(p)
  BY DEF Service!UpdateState, UpdateState, Service!AppendEvent, AppendEvent,
     Service!QueryFails, QueryFails, Service!InFlight, InFlight, Service!Awaited, Awaited
<1>4. \A s : CreateSession(s) => Service!CreateSession(s)
  BY DEF Service!CreateSession, CreateSession, Service!initialSessionState, initialSessionState
<1>5. \A s, c : call[p].step = "idle" /\ Ask(p, s, c.to, c.reason) => Service!Call(p, s, c)
  BY DEF Service!Call, Ask, Service!Called, Called
<1>6. \A e : ResultTaken(p, e) => Service!TakeResult(p)
  BY DEF ResultTaken, Service!TakeResult
<1> QED BY <1>1, <1>2, <1>3, <1>4, <1>5, <1>6

-----------------------------------------------------------------------------
(***************************************************************************)
(* What the handlers' steps are to the transition service                  *)
(***************************************************************************)

\* One of the service's own steps, a fact learnt, or nothing to it.
Move ==
  \/ UNCHANGED <<serviceVars, everHeld>>
  \/ /\ UNCHANGED everHeld
     /\ \/ \E s \in Sessions : CreateSession(s)
        \/ \E p \in Workers :
             \/ FindSession(p)
             \/ \E held \in SUBSET everHeld[UserOf[call[p].session]] :
                  /\ everHeld[UserOf[call[p].session]] \cap {"kycApproved", "hasWallet"}
                       \subseteq held
                  /\ LoadFlags(p, held)
             \/ UpdateState(p)
             \/ AppendEvent(p)
             \/ QueryFails(p)
             \/ \E e \in Outcome : ResultTaken(p, e)
             \/ /\ call[p].step = "idle"
                /\ \E s \in Sessions, c \in CodeCalls : Ask(p, s, c.to, c.reason)
  \/ /\ UNCHANGED serviceVars
     /\ \E u \in Users, f \in UserFlag : everHeld' = [everHeld EXCEPT ![u] = @ \cup {f}]

LEMMA CodeCallTypes ==
  \A c \in CodeCalls : c.to \in SessionState /\ c.reason \in TransitionReason
BY DEF CodeCalls, SessionState, TransitionReason

LEMMA MoveGates ==
  ASSUME GateInv, Move PROVE GateInv'
<1>1. CASE UNCHANGED <<serviceVars, everHeld>>
  BY <1>1, GatesKept DEF serviceVars
<1>2. ASSUME NEW s \in Sessions, CreateSession(s), UNCHANGED everHeld PROVE GateInv'
  BY <1>2, CreateSessionGates
<1>3. ASSUME NEW p \in Workers, NEW held \in SUBSET everHeld[UserOf[call[p].session]],
             LoadFlags(p, held), UNCHANGED everHeld
      PROVE  GateInv'
  BY <1>3, LoadFlagsGates
<1>4. ASSUME NEW p \in Workers, UNCHANGED everHeld,
             FindSession(p) \/ UpdateState(p) \/ AppendEvent(p) \/ QueryFails(p)
      PROVE  GateInv'
  BY <1>4, FindSessionGates, UpdateStateGates, AppendEventGates, QueryFailsGates
<1>5. ASSUME NEW p \in Workers, NEW e \in Outcome, ResultTaken(p, e), UNCHANGED everHeld
      PROVE  GateInv'
  BY <1>5, ResultGates DEF ResultTaken
<1>6. ASSUME NEW p \in Workers, NEW s \in Sessions, NEW c \in CodeCalls,
             Ask(p, s, c.to, c.reason), UNCHANGED everHeld
      PROVE  GateInv'
  BY <1>6, CodeCallTypes, AskGates
<1>7. ASSUME NEW u \in Users, NEW f \in UserFlag, UNCHANGED serviceVars,
             everHeld' = [everHeld EXCEPT ![u] = @ \cup {f}]
      PROVE  GateInv'
  <2>1. /\ everHeld' \in [Users -> SUBSET UserFlag]
        /\ \A v \in Users : everHeld[v] \subseteq everHeld'[v]
    BY <1>7 DEF GateInv, ServiceTypes
  <2> QED BY <1>7, <2>1, HeldGrowsGates DEF serviceVars
<1> QED BY <1>1, <1>2, <1>3, <1>4, <1>5, <1>6, <1>7 DEF Move

LEMMA MoveIsStep ==
  ASSUME GateInv, Move PROVE [Service!Next]_(Service!vars)
<1>1. CASE UNCHANGED <<serviceVars, everHeld>>
  BY <1>1 DEF Service!vars, Service!serviceVars, serviceVars
<1>2. ASSUME NEW s \in Sessions, CreateSession(s), UNCHANGED everHeld PROVE Service!Next
  BY <1>2, AbstractService DEF Service!Next
<1>3. ASSUME NEW p \in Workers, UNCHANGED everHeld, Service!ServiceStep(p) PROVE Service!Next
  BY <1>3 DEF Service!Next
<1>4. ASSUME NEW p \in Workers, NEW held \in SUBSET everHeld[UserOf[call[p].session]],
             everHeld[UserOf[call[p].session]] \cap {"kycApproved", "hasWallet"} \subseteq held,
             LoadFlags(p, held)
      PROVE  Service!ServiceStep(p)
  <2>1. Service!LoadFlags(p, held) /\ call[p].step = "loadFlags"
    BY <1>4, AbstractService DEF LoadFlags
  <2>2. Service!LoadUserFlags(p)
    BY <1>4, <2>1 DEF Service!LoadUserFlags, Service!Monotone
  <2> QED BY <2>2 DEF Service!ServiceStep, Service!Advance
<1>5. ASSUME NEW p \in Workers,
             FindSession(p) \/ UpdateState(p) \/ AppendEvent(p) \/ QueryFails(p)
      PROVE  Service!ServiceStep(p)
  BY <1>5, AbstractService DEF Service!ServiceStep, Service!Advance
<1>6. ASSUME NEW p \in Workers, NEW e \in Outcome, ResultTaken(p, e)
      PROVE  Service!ServiceStep(p)
  BY <1>6, AbstractService DEF Service!ServiceStep
<1>7. ASSUME NEW p \in Workers, call[p].step = "idle", NEW s \in Sessions, NEW c \in CodeCalls,
             Ask(p, s, c.to, c.reason)
      PROVE  Service!ServiceStep(p)
  <2>1. Service!Call(p, s, c)
    BY <1>7, AbstractService
  <2> QED BY <2>1 DEF Service!ServiceStep
<1>8. ASSUME NEW u \in Users, NEW f \in UserFlag, UNCHANGED serviceVars,
             everHeld' = [everHeld EXCEPT ![u] = @ \cup {f}]
      PROVE  [Service!Next]_(Service!vars)
  <2>1. CASE f \in everHeld[u]
    <3>1. everHeld' = everHeld
      BY <1>8, <2>1 DEF GateInv, ServiceTypes
    <3> QED BY <1>8, <3>1 DEF Service!vars, Service!serviceVars, serviceVars
  <2>2. CASE f \notin everHeld[u]
    <3>1. Service!Establish(u, f)
      BY <1>8, <2>2 DEF Service!Establish, Service!serviceVars, serviceVars
    <3>2. f \in Service!UserFlag
      BY DEF Service!UserFlag, UserFlag
    <3> QED BY <3>1, <3>2 DEF Service!Next
  <2> QED BY <2>1, <2>2
<1> QED BY <1>1, <1>2, <1>3, <1>4, <1>5, <1>6, <1>7, <1>8 DEF Move

-----------------------------------------------------------------------------
(***************************************************************************)
(* What the handlers keep                                                  *)
(***************************************************************************)

May(s) == Gated(s, "quote_requested")

OnboardingTables ==
  /\ submission \in [Users -> PartnerAnswers \cup {Absent}]
  /\ accounts \in [Users -> Seq({"active", "pending"})]
  /\ \A u \in Users : Len(accounts[u]) <= MaxAccounts

SettlementTables ==
  /\ quotes \in Seq(Quote)
  /\ orders \in Seq(Order)
  /\ provider \in Seq(ProviderOrder)
  /\ inbox \in Seq(InboxEntry)

\* What loadUserFlags reads was learnt, and the lasting facts it does read.
FactsHeld ==
  \A u \in Users :
    /\ u \in approved <=> "kycApproved" \in everHeld[u]
    /\ submission[u] = "approved" => "complianceSubmissionApproved" \in everHeld[u]
    /\ \A i \in DOMAIN accounts[u] :
         accounts[u][i] = "active" => "namedAccountActive" \in everHeld[u]
    /\ "hasWallet" \notin everHeld[u]

KycJobOK(j) ==
  /\ j \in O!Job
  /\ j.step # "none" => j.user \in Users
  /\ j.step \in {"findSessions", "nextSession", "sessionMoved"} => j.loop \in O!Loop
  /\ j.step = "createSubmission" => j.answer \in PartnerAnswers
  /\ j.step = "saveAccount" => j.answer \in {"active", "pending"}

\* The steps of a job that is about a session.
InSession ==
  { "expireQuotes", "quoteRequested", "createQuote", "quoteReady",
    "placeOrder", "createOrder", "orderSubmitted",
    "askProvider", "clearOrder", "rejectOrder", "fillOrder", "orderMoved",
    "recordDeposit", "fillFromDeposit", "depositMatched" }

\* A job that is going to make a quote or an order has met a gate on its way.
GatedJob(j) ==
  /\ j \in Job
  /\ j.step \in InSession => j.session \in Sessions
  /\ j.step = "expireQuotes" /\ j.seen = "quote_requested" => May(j.session)
  /\ j.step \in {"createQuote", "placeOrder", "createOrder"} => May(j.session)

\* The steps at which a job waits for transition().
Waiting == {"quoteRequested", "quoteReady", "orderSubmitted", "orderMoved", "depositMatched"}

\* A worker does one job, and only a job that waits for a call has one.
OneCall(p) ==
  /\ O!Idle(p) \/ Idle(p)
  /\ call[p].step # "idle" => kycJob[p].step = "sessionMoved" \/ job[p].step \in Waiting

\* The call a quote waits for moves its session to quote_requested, and comes
\* back well only from there.
Requested(p) ==
  job[p].step = "quoteRequested" =>
    /\ InFlight(p) => call[p].session = job[p].session /\ call[p].to = "quote_requested"
    /\ call[p].step = "appendEvent" => May(job[p].session)
    /\ call[p].step = "returned" /\ call[p].outcome = "ok" => May(job[p].session)

RowsGated ==
  /\ \A q \in DOMAIN quotes : May(quotes[q].session)
  /\ \A o \in DOMAIN orders : May(orders[o].session)

KycJobs == kycJob \in [Workers -> O!Job] /\ \A p \in Workers : KycJobOK(kycJob[p])
TradeJobs == job \in [Workers -> Job] /\ \A p \in Workers : GatedJob(job[p])
CallsInOrder == \A p \in Workers : OneCall(p) /\ Requested(p)

IInv ==
  /\ GateInv
  /\ OnboardingTables /\ SettlementTables
  /\ FactsHeld
  /\ KycJobs /\ TradeJobs /\ CallsInOrder
  /\ RowsGated

LEMMA NoJobs ==
  /\ KycJobOK(O!NoJob) /\ O!NoJob \in O!Job /\ O!NoJob.step = "none"
  /\ GatedJob(NoJob) /\ NoJob \in Job /\ NoJob.step = "none"
<1>1. O!NoJob \in O!Job /\ O!NoJob.step = "none"
  BY AccountsAssumption DEF O!NoJob, O!Job, O!JobStep
<1>2. NoJob \in Job /\ NoJob.step = "none"
  BY DEF NoJob, Job, JobStep, Reported
<1>3. KycJobOK(O!NoJob)
  BY <1>1 DEF KycJobOK
<1>4. GatedJob(NoJob)
  BY <1>2 DEF GatedJob, InSession
<1> QED BY <1>1, <1>2, <1>3, <1>4

LEMMA InvInit == Init => IInv
<1> SUFFICES ASSUME Init PROVE IInv
  OBVIOUS
<1>1. GateInv
  BY GatesAtFirst DEF Init, O!Init, O!IdleFrame, IdleFrame
<1>2. OnboardingTables
  BY AccountsAssumption DEF Init, O!Init, OnboardingTables
<1>3. SettlementTables /\ RowsGated
  BY DEF Init, SettlementTables, RowsGated
<1>4. FactsHeld
  BY PartnerAssumption DEF Init, O!Init, FactsHeld
<1>5. KycJobs /\ TradeJobs
  BY NoJobs DEF Init, O!Init, KycJobs, TradeJobs
<1>6. CallsInOrder
  BY NoJobs DEF Init, O!Init, CallsInOrder, OneCall, Requested, O!Idle, Idle, O!IdleFrame
<1> QED BY <1>1, <1>2, <1>3, <1>4, <1>5, <1>6 DEF IInv

-----------------------------------------------------------------------------
(***************************************************************************)
(* Kinds of steps                                                          *)
(***************************************************************************)

handlerTables == <<approved, submission, accounts, everHeld, kycJob>>

FactsGrow == \A u \in Users : everHeld[u] \subseteq everHeld'[u]

LEMMA JobStaysOK ==
  ASSUME FactsGrow, NEW j, GatedJob(j) PROVE GatedJob(j)'
<1>1. j \in Job /\ (j.step \in InSession => j.session \in Sessions)
  BY DEF GatedJob
<1>2. ASSUME j.session \in Sessions, May(j.session) PROVE May(j.session)'
  BY <1>2, HeldGrows DEF FactsGrow, May
<1> QED BY <1>1, <1>2 DEF GatedJob, InSession

LEMMA RowIn ==
  ASSUME NEW Row, NEW table \in Seq(Row), NEW i \in DOMAIN table
  PROVE  table[i] \in Row /\ i \in Nat
BY LenProperties

LEMMA RowSessions ==
  ASSUME SettlementTables
  PROVE  /\ \A q \in DOMAIN quotes : quotes[q] \in Quote /\ quotes[q].session \in Sessions /\ q \in Nat
         /\ \A o \in DOMAIN orders : orders[o] \in Order /\ orders[o].session \in Sessions /\ o \in Nat
<1>1. \A q \in DOMAIN quotes : quotes[q] \in Quote /\ q \in Nat
  BY RowIn DEF SettlementTables
<1>2. \A o \in DOMAIN orders : orders[o] \in Order /\ o \in Nat
  BY RowIn DEF SettlementTables
<1> QED BY <1>1, <1>2 DEF Quote, Order

LEMMA RowsStayGated ==
  ASSUME IInv, FactsGrow, UNCHANGED <<quotes, orders>> PROVE RowsGated'
<1>1. \A q \in DOMAIN quotes : quotes[q].session \in Sessions
  BY RowSessions DEF IInv
<1>2. \A o \in DOMAIN orders : orders[o].session \in Sessions
  BY RowSessions DEF IInv
<1>3. \A s \in Sessions : May(s) => May(s)'
  BY HeldGrows DEF FactsGrow, May
<1> QED BY <1>1, <1>2, <1>3 DEF IInv, RowsGated, May, Gated

LEMMA RequestedStays ==
  ASSUME IInv, FactsGrow, NEW q \in Workers, job'[q] = job[q], call'[q] = call[q]
  PROVE  Requested(q)'
<1>1. Requested(q) /\ (job[q].step = "quoteRequested" => job[q].session \in Sessions)
  BY DEF IInv, CallsInOrder, TradeJobs, GatedJob, InSession
<1>2. \A s \in Sessions : May(s) => May(s)'
  BY HeldGrows DEF FactsGrow, May
<1> QED BY <1>1, <1>2 DEF Requested, InFlight, May, Gated

\* A step of transition() in worker p.
LEMMA ServiceKeeps ==
  ASSUME IInv, Move, UNCHANGED <<handlerTables, settlementVars>>,
         NEW p \in Workers, \A q \in Workers \ {p} : call'[q] = call[q],
         call[p].step # "idle",
         Requested(p)'
  PROVE  IInv'
<1>1. FactsGrow /\ GateInv'
  BY MoveGates DEF FactsGrow, handlerTables, IInv
<1>2. OnboardingTables' /\ FactsHeld' /\ KycJobs'
  BY DEF IInv, OnboardingTables, FactsHeld, KycJobs, KycJobOK, handlerTables
<1>3. SettlementTables' /\ RowsGated' /\ job' = job
  BY <1>1, RowsStayGated DEF IInv, SettlementTables, settlementVars, tables
<1>4. TradeJobs'
  <2>1. \A q \in Workers : GatedJob(job[q])'
    <3> TAKE q \in Workers
    <3>1. PICK j : j = job[q]
      OBVIOUS
    <3>2. GatedJob(j)'
      BY <1>1, <3>1, JobStaysOK DEF IInv, TradeJobs
    <3> QED BY <1>3, <3>1, <3>2 DEF GatedJob, May, Gated
  <2> QED BY <1>3, <2>1 DEF IInv, TradeJobs
<1>5. \A q \in Workers : OneCall(q)'
  BY <1>3 DEF IInv, CallsInOrder, OneCall, O!Idle, Idle, handlerTables
<1>6. \A q \in Workers : Requested(q)'
  BY <1>1, <1>3, RequestedStays
<1> QED BY <1>1, <1>2, <1>3, <1>4, <1>5, <1>6 DEF IInv, CallsInOrder

\* A step of the KYC webhook in worker p.
LEMMA KycKeeps ==
  ASSUME IInv, Move, UNCHANGED settlementVars,
         OnboardingTables', FactsHeld', FactsGrow,
         NEW p \in Workers, \A q \in Workers \ {p} : call'[q] = call[q],
         Idle(p),
         NEW j, KycJobOK(j), kycJob' = [kycJob EXCEPT ![p] = j],
         call'[p].step # "idle" => j.step = "sessionMoved"
  PROVE  IInv'
<1>1. GateInv'
  BY MoveGates DEF IInv
<1>2. SettlementTables' /\ RowsGated' /\ job' = job
  BY RowsStayGated DEF IInv, SettlementTables, settlementVars, tables
<1>3. kycJob'[p] = j /\ \A q \in Workers \ {p} : kycJob'[q] = kycJob[q]
  BY DEF IInv, KycJobs
<1>4. KycJobs'
  BY <1>3 DEF IInv, KycJobs, KycJobOK
<1>5. TradeJobs'
  <2>1. \A q \in Workers : GatedJob(job[q])'
    <3> TAKE q \in Workers
    <3>1. PICK i : i = job[q]
      OBVIOUS
    <3>2. GatedJob(i)'
      BY <3>1, JobStaysOK DEF IInv, TradeJobs
    <3> QED BY <1>2, <3>1, <3>2 DEF GatedJob, May, Gated
  <2> QED BY <1>2, <2>1 DEF IInv, TradeJobs
<1>6. \A q \in Workers : OneCall(q)'
  BY <1>2, <1>3 DEF IInv, CallsInOrder, OneCall, O!Idle, Idle
<1>7. \A q \in Workers : Requested(q)'
  <2>1. \A q \in Workers \ {p} : Requested(q)'
    BY <1>2, RequestedStays
  <2>2. Requested(p)'
    BY <1>2 DEF Requested, Idle
  <2> QED BY <2>1, <2>2
<1> QED BY <1>1, <1>2, <1>4, <1>5, <1>6, <1>7 DEF IInv, CallsInOrder

\* A step of a quote, order, poll or deposit in worker p.
LEMMA TradeKeeps ==
  ASSUME IInv, Move, UNCHANGED onboardingVars,
         SettlementTables', RowsGated',
         NEW p \in Workers, \A q \in Workers \ {p} : call'[q] = call[q],
         O!Idle(p),
         NEW j, GatedJob(j), job' = [job EXCEPT ![p] = j],
         call'[p].step # "idle" => j.step \in Waiting,
         j.step = "quoteRequested" =>
           /\ call'[p].step = "findSession"
           /\ call'[p].session = j.session
           /\ call'[p].to = "quote_requested"
  PROVE  IInv'
<1>1. FactsGrow /\ GateInv' /\ UNCHANGED everHeld
  BY MoveGates DEF FactsGrow, onboardingVars, IInv
<1>2. OnboardingTables' /\ FactsHeld' /\ KycJobs'
  BY DEF IInv, OnboardingTables, FactsHeld, KycJobs, KycJobOK, onboardingVars
<1>3. job'[p] = j /\ \A q \in Workers \ {p} : job'[q] = job[q]
  BY DEF IInv, TradeJobs
<1>4. TradeJobs'
  <2>1. \A q \in Workers : GatedJob(job'[q])
    BY <1>3 DEF IInv, TradeJobs
  <2>2. job' \in [Workers -> Job]
    BY DEF IInv, TradeJobs, GatedJob
  <2> QED BY <1>1, <2>1, <2>2 DEF TradeJobs, GatedJob, May, Gated
<1>5. \A q \in Workers : OneCall(q)'
  BY <1>3 DEF IInv, CallsInOrder, OneCall, O!Idle, Idle, onboardingVars
<1>6. \A q \in Workers : Requested(q)'
  <2>1. \A q \in Workers \ {p} : Requested(q)'
    BY <1>1, <1>3, RequestedStays
  <2>2. Requested(p)'
    BY <1>3 DEF Requested, InFlight
  <2> QED BY <2>1, <2>2
<1> QED BY <1>1, <1>2, <1>4, <1>5, <1>6 DEF IInv, CallsInOrder

-----------------------------------------------------------------------------
(***************************************************************************)
(* transition()                                                            *)
(***************************************************************************)

LEMMA FlagsAreHeld ==
  ASSUME FactsHeld, NEW u \in Users, NEW held \in O!Flags(u)
  PROVE  /\ held \subseteq everHeld[u]
         /\ everHeld[u] \cap {"kycApproved", "hasWallet"} \subseteq held
<1> DEFINE firm == {f \in {"kycApproved", "complianceSubmissionApproved"} :
                      \/ f = "kycApproved" /\ u \in approved
                      \/ f = "complianceSubmissionApproved" /\ submission[u] = "approved"}
<1>1. firm \subseteq everHeld[u] /\ everHeld[u] \cap {"kycApproved", "hasWallet"} \subseteq firm
  BY DEF FactsHeld
<1>2. \/ held = firm
      \/ \E i \in DOMAIN accounts[u] :
           held = firm \cup {f \in {"namedAccountActive"} : accounts[u][i] = "active"}
  BY DEF O!Flags
<1>3. ASSUME NEW i \in DOMAIN accounts[u],
             held = firm \cup {f \in {"namedAccountActive"} : accounts[u][i] = "active"}
      PROVE  held \subseteq everHeld[u] /\ firm \subseteq held
  BY <1>1, <1>3 DEF FactsHeld
<1> QED BY <1>1, <1>2, <1>3

LEMMA CallStays ==
  ASSUME IInv, NEW p \in Workers, NEW f, call' = [call EXCEPT ![p] = f]
  PROVE  call'[p] = f /\ \A q \in Workers \ {p} : call'[q] = call[q]
BY DEF IInv, GateInv, ServiceTypes

\* What a call knows when it has gone one statement further.
LEMMA RequestedOn ==
  ASSUME IInv, NEW p \in Workers, NEW f, call'[p] = f, job'[p] = job[p], UNCHANGED everHeld,
         call[p].step \in Awaited,
         \/ /\ f.step \in {"loadFlags", "updateState"}
            /\ f.session = call[p].session /\ f.to = call[p].to
         \/ /\ f.step = "appendEvent"
            /\ f.session = call[p].session /\ f.to = call[p].to
            /\ Gated(call[p].session, call[p].to)
         \/ f.step = "returned" /\ f.outcome # "ok"
         \/ /\ f.step = "returned"
            /\ Gated(call[p].session, call[p].to) \/ call[p].step = "appendEvent"
  PROVE  Requested(p)'
<1>1. Requested(p) /\ (job[p].step = "quoteRequested" => InFlight(p))
  BY DEF IInv, CallsInOrder, InFlight
<1>2. f.step \in {"loadFlags", "updateState", "appendEvent", "returned"}
  OBVIOUS
<1>3. CASE f.step \in {"loadFlags", "updateState"}
  BY <1>1, <1>3 DEF Requested, InFlight, Awaited
<1>4. CASE f.step = "appendEvent"
  BY <1>1, <1>4 DEF Requested, InFlight, Awaited, May, Gated
<1>5. CASE f.step = "returned"
  BY <1>1, <1>5 DEF Requested, InFlight, Awaited, May, Gated
<1> QED BY <1>2, <1>3, <1>4, <1>5

LEMMA TransitionKeeps ==
  ASSUME IInv, NEW p \in Workers, UNCHANGED <<handlerTables, settlementVars>>,
         \/ FindSession(p) \/ UpdateState(p) \/ AppendEvent(p) \/ QueryFails(p)
         \/ \E s \in Sessions :
              call[p].session = s /\ \E held \in O!Flags(UserOf[s]) : LoadFlags(p, held)
  PROVE  Move /\ IInv'
<1>0. UNCHANGED everHeld /\ job'[p] = job[p] /\ GateInv /\ call[p] \in Frame
  BY DEF handlerTables, settlementVars, IInv, GateInv, ServiceTypes
<1>1. CASE FindSession(p)
  <2>1. Move
    BY <1>0, <1>1 DEF Move
  <2>2. PICK f : f = StateFound(call[p], sessionState[call[p].session])
    OBVIOUS
  <2>3. call[p].step \in Awaited /\ call[p] \in CallFrame
    BY <1>0, <1>1, AwaitingFrame DEF FindSession, Awaited
  <2>4. call' = [call EXCEPT ![p] = f]
    BY <1>1, <2>2 DEF FindSession
  <2>5. \/ f = Returned("session_not_found")
        \/ f = Returned("ok") /\ sessionState[call[p].session] = call[p].to
        \/ f = [call[p] EXCEPT !.step = "loadFlags", !.from = sessionState[call[p].session]]
    BY <2>2 DEF StateFound
  <2>6. sessionState[call[p].session] = call[p].to => Gated(call[p].session, call[p].to)
    BY <1>0, <2>3, AbsentAssumption DEF GateInv, SessionsGated, CallFrame
  <2>7. \/ /\ f.step \in {"loadFlags", "updateState"}
           /\ f.session = call[p].session /\ f.to = call[p].to
        \/ f.step = "returned" /\ f.outcome # "ok"
        \/ f.step = "returned" /\ Gated(call[p].session, call[p].to)
    BY <2>3, <2>5, <2>6 DEF CallFrame, Returned, IdleFrame
  <2>8. call'[p] = f /\ \A q \in Workers \ {p} : call'[q] = call[q]
    BY <2>4, CallStays
  <2>9. Requested(p)'
    BY <1>0, <2>3, <2>7, <2>8, RequestedOn
  <2>10. call[p].step # "idle"
    BY <2>3 DEF Awaited
  <2> QED BY <2>1, <2>8, <2>9, <2>10, ServiceKeeps
<1>2. ASSUME NEW s \in Sessions, call[p].session = s, NEW held \in O!Flags(UserOf[s]),
             LoadFlags(p, held)
      PROVE  Move /\ IInv'
  <2>1. Move
    <3>1. /\ held \subseteq everHeld[UserOf[s]]
          /\ everHeld[UserOf[s]] \cap {"kycApproved", "hasWallet"} \subseteq held
      BY FlagsAreHeld, UserOfAssumption DEF IInv
    <3> QED BY <1>0, <1>2, <3>1 DEF Move
  <2>2. PICK f : f = IF Verdict(call[p], held) = "ok" THEN [call[p] EXCEPT !.step = "updateState"]
                                                      ELSE Returned(Verdict(call[p], held))
    OBVIOUS
  <2>3. call[p].step \in Awaited /\ call[p] \in CallFrame
    BY <1>0, <1>2, AwaitingFrame DEF LoadFlags, Awaited
  <2>4. call' = [call EXCEPT ![p] = f]
    BY <1>2, <2>2 DEF LoadFlags
  <2>5. \/ /\ f.step = "updateState"
           /\ f.session = call[p].session /\ f.to = call[p].to
        \/ f.step = "returned" /\ f.outcome # "ok"
    BY <2>2, <2>3 DEF CallFrame, Returned, IdleFrame
  <2>6. call'[p] = f /\ \A q \in Workers \ {p} : call'[q] = call[q]
    BY <2>4, CallStays
  <2>7. Requested(p)'
    BY <1>0, <2>3, <2>5, <2>6, RequestedOn
  <2>8. call[p].step # "idle"
    BY <2>3 DEF Awaited
  <2> QED BY <2>1, <2>6, <2>7, <2>8, ServiceKeeps
<1>3. CASE UpdateState(p)
  <2>1. Move
    BY <1>0, <1>3 DEF Move
  <2>2. PICK f : f = [call[p] EXCEPT !.step = "appendEvent"]
    OBVIOUS
  <2>3. call[p].step \in Awaited /\ call[p] \in CallFrame /\ Gated(call[p].session, call[p].to)
    BY <1>0, <1>3, AwaitingFrame DEF UpdateState, Awaited, GateInv, FramesOK, FrameOK
  <2>4. call' = [call EXCEPT ![p] = f]
    BY <1>3, <2>2 DEF UpdateState
  <2>5. f.step = "appendEvent" /\ f.session = call[p].session /\ f.to = call[p].to
    BY <2>2, <2>3 DEF CallFrame
  <2>6. call'[p] = f /\ \A q \in Workers \ {p} : call'[q] = call[q]
    BY <2>4, CallStays
  <2>7. Requested(p)'
    BY <1>0, <2>3, <2>5, <2>6, RequestedOn
  <2>8. call[p].step # "idle"
    BY <2>3 DEF Awaited
  <2> QED BY <2>1, <2>6, <2>7, <2>8, ServiceKeeps
<1>4. CASE AppendEvent(p) \/ QueryFails(p)
  <2>1. Move
    BY <1>0, <1>4 DEF Move
  <2>2. PICK f : /\ call' = [call EXCEPT ![p] = f]
                 /\ \/ f = Returned("ok") /\ call[p].step = "appendEvent"
                    \/ f = Returned("query_failed")
    BY <1>4 DEF AppendEvent, QueryFails
  <2>3. call[p].step \in Awaited
    BY <1>4 DEF AppendEvent, QueryFails, InFlight, Awaited
  <2>4. \/ f.step = "returned" /\ f.outcome # "ok"
        \/ f.step = "returned" /\ call[p].step = "appendEvent"
    BY <2>2 DEF Returned, IdleFrame
  <2>5. call'[p] = f /\ \A q \in Workers \ {p} : call'[q] = call[q]
    BY <2>2, CallStays
  <2>6. Requested(p)'
    BY <1>0, <2>3, <2>4, <2>5, RequestedOn
  <2>7. call[p].step # "idle"
    BY <2>3 DEF Awaited
  <2> QED BY <2>1, <2>5, <2>6, <2>7, ServiceKeeps
<1> QED BY <1>1, <1>2, <1>3, <1>4

\* The caller has its result.
LEMMA ResultStays ==
  ASSUME IInv, NEW p \in Workers, NEW e, ResultTaken(p, e)
  PROVE  call'[p].step = "idle" /\ \A q \in Workers \ {p} : call'[q] = call[q]
<1>1. PICK f : f = IdleFrame
  OBVIOUS
<1>2. call' = [call EXCEPT ![p] = f] /\ f.step = "idle"
  BY <1>1 DEF ResultTaken, IdleFrame
<1> QED BY <1>2, CallStays

-----------------------------------------------------------------------------
(***************************************************************************)
(* The KYC webhook                                                         *)
(***************************************************************************)

LEMMA KycWorker ==
  ASSUME IInv, NEW p \in Workers, kycJob[p].step # "none"
  PROVE  /\ Idle(p) /\ KycJobOK(kycJob[p]) /\ kycJob[p] \in O!Job
         /\ kycJob[p].user \in Users
         /\ kycJob[p].step # "sessionMoved" => call[p].step = "idle"
BY DEF IInv, CallsInOrder, OneCall, KycJobs, KycJobOK, O!Idle, Idle, Waiting

LEMMA FactsUntouched ==
  ASSUME IInv, UNCHANGED O!tables
  PROVE  OnboardingTables' /\ FactsHeld' /\ FactsGrow /\ UNCHANGED everHeld
BY DEF IInv, OnboardingTables, FactsHeld, FactsGrow, O!tables

\* The job goes on, and nothing else changes.
LEMMA KycGoes ==
  ASSUME IInv, UNCHANGED <<serviceVars, O!tables, settlementVars>>,
         NEW p \in Workers, Idle(p), call[p].step = "idle",
         NEW j, KycJobOK(j), O!Goto(p, j)
  PROVE  Move /\ IInv'
<1>1. OnboardingTables' /\ FactsHeld' /\ FactsGrow /\ Move /\ call' = call
  BY FactsUntouched DEF Move, serviceVars
<1>2. kycJob' = [kycJob EXCEPT ![p] = j] /\ UNCHANGED settlementVars
  BY DEF O!Goto
<1> QED BY <1>1, <1>2, KycKeeps

LEMMA InLoopOK ==
  ASSUME NEW j \in O!Job, j.user \in Users, NEW loop \in O!Loop
  PROVE  KycJobOK(O!InLoop(j, loop)) /\ O!InLoop(j, loop) \in O!Job
<1>1. PICK i : i = [j EXCEPT !.step = "findSessions", !.loop = loop]
  OBVIOUS
<1>2. i \in O!Job /\ i.step = "findSessions" /\ i.loop = loop /\ i.user = j.user
  BY <1>1 DEF O!Job, O!JobStep
<1> QED BY <1>1, <1>2 DEF KycJobOK, O!InLoop

\* The job at a step that asks nothing more of it.
LEMMA StepOK ==
  ASSUME NEW j \in O!Job, j.user \in Users,
         NEW step \in {"submitPack", "findAccount", "provision"}
  PROVE  KycJobOK([j EXCEPT !.step = step])
<1>1. PICK i : i = [j EXCEPT !.step = step]
  OBVIOUS
<1>2. i \in O!Job /\ i.step = step /\ i.user = j.user
  BY <1>1 DEF O!Job, O!JobStep
<1> QED BY <1>1, <1>2 DEF KycJobOK

LEMMA AfterOK ==
  ASSUME NEW j, KycJobOK(j), j.step = "nextSession"
  PROVE  KycJobOK(O!After(j))
<1>1. j \in O!Job /\ j.user \in Users /\ j.loop \in O!Loop
  BY DEF KycJobOK
<1>2. \/ O!After(j) = O!NoJob
      \/ \E loop \in O!Loop : O!After(j) = O!InLoop(j, loop)
      \/ \E step \in {"submitPack", "findAccount", "provision"} :
           O!After(j) = [j EXCEPT !.step = step]
  BY <1>1 DEF O!After, O!Loop
<1> QED BY <1>1, <1>2, NoJobs, InLoopOK, StepOK

LEMMA KycWebhookKeeps ==
  ASSUME IInv, UNCHANGED settlementVars, NEW p \in Workers, NEW u \in Users,
         O!KycWebhook(p, u), Idle(p)
  PROVE  Move /\ IInv'
<1>1. PICK j : j = [O!NoJob EXCEPT !.step = "saveProfile", !.user = u]
  OBVIOUS
<1>2. j.step = "saveProfile" /\ j.user = u /\ j \in O!Job
  BY <1>1, NoJobs DEF O!Job, O!JobStep
<1>3. KycJobOK(j)
  BY <1>2 DEF KycJobOK
<1>4. call[p].step = "idle"
  BY DEF O!KycWebhook, O!Idle, Idle, IInv, CallsInOrder, OneCall, Waiting
<1>5. O!Goto(p, j) /\ UNCHANGED <<serviceVars, O!tables>>
  BY <1>1 DEF O!KycWebhook, O!serviceVars, serviceVars
<1> QED BY <1>3, <1>4, <1>5, KycGoes

LEMMA FindSessionsGated ==
  ASSUME IInv, UNCHANGED settlementVars, NEW p \in Workers, O!FindSessions(p)
  PROVE  Move /\ IInv'
<1>1. PICK todo : todo = {s \in Sessions : /\ UserOf[s] = kycJob[p].user
                                           /\ sessionState[s] = O!Source(kycJob[p].loop)}
  OBVIOUS
<1>2. PICK j : j = [kycJob[p] EXCEPT !.step = "nextSession", !.todo = todo]
  OBVIOUS
<1>3. kycJob[p].step = "findSessions" /\ O!Goto(p, j) /\ UNCHANGED <<serviceVars, O!tables>>
  BY <1>1, <1>2 DEF O!FindSessions, O!serviceVars, serviceVars
<1>4. /\ Idle(p) /\ KycJobOK(kycJob[p]) /\ kycJob[p] \in O!Job /\ call[p].step = "idle"
  BY <1>3, KycWorker
<1>5. /\ j \in O!Job /\ j.step = "nextSession" /\ j.user = kycJob[p].user
      /\ j.loop = kycJob[p].loop
  BY <1>1, <1>2, <1>4 DEF O!Job, O!JobStep
<1>6. KycJobOK(j)
  BY <1>3, <1>4, <1>5 DEF KycJobOK
<1> QED BY <1>3, <1>4, <1>6, KycGoes

LEMMA LoopCalls ==
  ASSUME NEW loop \in O!Loop
  PROVE  \E c \in CodeCalls : c.to = loop /\ c.reason = O!Reason(loop)
<1>1. [to |-> loop, reason |-> O!Reason(loop)] \in CodeCalls
  BY DEF O!Loop, O!Reason, CodeCalls
<1> QED BY <1>1

LEMMA NextSessionKeeps ==
  ASSUME IInv, UNCHANGED settlementVars, NEW p \in Workers, O!NextSession(p)
  PROVE  Move /\ IInv'
<1>1. /\ kycJob[p].step = "nextSession" /\ UNCHANGED O!tables
      /\ Idle(p) /\ KycJobOK(kycJob[p]) /\ kycJob[p] \in O!Job /\ call[p].step = "idle"
  BY KycWorker DEF O!NextSession
<1>2. kycJob[p].loop \in O!Loop /\ kycJob[p].todo \subseteq Sessions
  BY <1>1 DEF KycJobOK, O!Job
<1>3. ASSUME NEW s \in kycJob[p].todo,
             O!Ask(p, s, kycJob[p].loop, O!Reason(kycJob[p].loop)),
             O!Goto(p, [kycJob[p] EXCEPT !.step = "sessionMoved", !.todo = @ \ {s}])
      PROVE  Move /\ IInv'
  <2>1. Ask(p, s, kycJob[p].loop, O!Reason(kycJob[p].loop))
    BY <1>3, OnboardingService
  <2>2. Move
    BY <1>1, <1>2, <1>3, <2>1, LoopCalls, FactsUntouched DEF Move
  <2>3. PICK j : j = [kycJob[p] EXCEPT !.step = "sessionMoved", !.todo = @ \ {s}]
    OBVIOUS
  <2>4. /\ j \in O!Job /\ j.step = "sessionMoved" /\ j.user = kycJob[p].user
        /\ j.loop = kycJob[p].loop
    BY <1>1, <1>2, <2>3 DEF O!Job, O!JobStep
  <2>5. KycJobOK(j)
    BY <1>1, <2>4 DEF KycJobOK
  <2>6. \A q \in Workers \ {p} : call'[q] = call[q]
    BY <2>1, CallStays DEF Ask
  <2>7. kycJob' = [kycJob EXCEPT ![p] = j]
    BY <1>3, <2>3 DEF O!Goto
  <2> QED BY <1>1, <2>2, <2>4, <2>5, <2>6, <2>7, FactsUntouched, KycKeeps
<1>4. CASE O!Goto(p, O!After(kycJob[p])) /\ UNCHANGED O!serviceVars
  <2>1. PICK j : j = O!After(kycJob[p])
    OBVIOUS
  <2>2. KycJobOK(j)
    BY <1>1, <2>1, AfterOK
  <2> QED BY <1>1, <1>4, <2>1, <2>2, KycGoes DEF O!serviceVars, serviceVars
<1> QED BY <1>3, <1>4 DEF O!NextSession

LEMMA SessionMovedKeeps ==
  ASSUME IInv, UNCHANGED settlementVars, NEW p \in Workers, O!SessionMoved(p)
  PROVE  Move /\ IInv'
<1>1. /\ kycJob[p].step = "sessionMoved" /\ UNCHANGED O!tables
      /\ Idle(p) /\ KycJobOK(kycJob[p]) /\ kycJob[p] \in O!Job
  BY KycWorker DEF O!SessionMoved
<1>2. PICK e \in Outcome : ResultTaken(p, e)
  <2>1. PICK e \in Outcome : O!ResultTaken(p, e)
    BY DEF O!SessionMoved, O!Outcome, Outcome
  <2> QED BY <2>1, OnboardingService
<1>3. Move
  BY <1>1, <1>2, FactsUntouched DEF Move
<1>4. call'[p].step = "idle" /\ \A q \in Workers \ {p} : call'[q] = call[q]
  BY <1>2, ResultStays
<1>5. PICK i : i = [kycJob[p] EXCEPT !.step = "nextSession"]
  OBVIOUS
<1>6. /\ i \in O!Job /\ i.step = "nextSession" /\ i.user = kycJob[p].user
      /\ i.loop = kycJob[p].loop
  BY <1>1, <1>5 DEF O!Job, O!JobStep
<1>7. KycJobOK(i)
  BY <1>1, <1>6 DEF KycJobOK
<1>8. PICK j : KycJobOK(j) /\ kycJob' = [kycJob EXCEPT ![p] = j]
  BY <1>5, <1>7, NoJobs DEF O!SessionMoved, O!Goto, O!Finish
<1> QED BY <1>1, <1>3, <1>4, <1>8, FactsUntouched, KycKeeps

-----------------------------------------------------------------------------
\* What is learnt of a user is one fact more.
LEMMA Learning ==
  ASSUME IInv, NEW u \in Users, NEW f \in UserFlag, O!Learn(u, f), UNCHANGED serviceVars
  PROVE  /\ Move /\ FactsGrow
         /\ \A v \in Users : \A g :
              g \in everHeld'[v] <=> g \in everHeld[v] \/ (v = u /\ g = f)
<1>1. everHeld' = [everHeld EXCEPT ![u] = @ \cup {f}] /\ everHeld \in [Users -> SUBSET UserFlag]
  BY DEF O!Learn, IInv, GateInv, ServiceTypes
<1>2. Move
  BY <1>1 DEF Move
<1>3. \A v \in Users : everHeld'[v] = IF v = u THEN everHeld[v] \cup {f} ELSE everHeld[v]
  BY <1>1
<1> QED BY <1>2, <1>3 DEF FactsGrow

LEMMA SaveProfileKeeps ==
  ASSUME IInv, UNCHANGED settlementVars, NEW p \in Workers, O!SaveProfile(p)
  PROVE  Move /\ IInv'
<1>1. /\ kycJob[p].step = "saveProfile" /\ UNCHANGED <<serviceVars, submission, accounts>>
      /\ approved' = approved \cup {kycJob[p].user}
      /\ O!Learn(kycJob[p].user, "kycApproved")
  BY DEF O!SaveProfile, O!serviceVars, serviceVars
<1>2. /\ Idle(p) /\ kycJob[p] \in O!Job /\ kycJob[p].user \in Users /\ call[p].step = "idle"
  BY <1>1, KycWorker
<1>3. /\ Move /\ FactsGrow
      /\ \A v \in Users : \A g :
           g \in everHeld'[v] <=> g \in everHeld[v] \/ (v = kycJob[p].user /\ g = "kycApproved")
  BY <1>1, <1>2, Learning DEF UserFlag
<1>4. OnboardingTables'
  BY <1>1 DEF IInv, OnboardingTables
<1>5. FactsHeld'
  BY <1>1, <1>3 DEF IInv, FactsHeld
<1>6. PICK j : j = O!InLoop(kycJob[p], "kyc_ok")
  OBVIOUS
<1>7. KycJobOK(j)
  BY <1>2, <1>6, InLoopOK DEF O!Loop
<1>8. kycJob' = [kycJob EXCEPT ![p] = j] /\ call' = call
  BY <1>1, <1>6 DEF O!SaveProfile, O!Goto, serviceVars
<1> QED BY <1>2, <1>3, <1>4, <1>5, <1>7, <1>8, KycKeeps

LEMMA SubmitPackKeeps ==
  ASSUME IInv, UNCHANGED settlementVars, NEW p \in Workers,
         NEW answer \in PartnerAnswers, O!SubmitPack(p, answer)
  PROVE  Move /\ IInv'
<1>1. kycJob[p].step = "submitPack" /\ UNCHANGED <<serviceVars, O!tables>>
  BY DEF O!SubmitPack, O!serviceVars, serviceVars
<1>2. Idle(p) /\ kycJob[p] \in O!Job /\ kycJob[p].user \in Users /\ call[p].step = "idle"
  BY <1>1, KycWorker
<1>3. PICK j : j = [kycJob[p] EXCEPT !.step = "createSubmission", !.answer = answer]
  OBVIOUS
<1>4. /\ j \in O!Job /\ j.step = "createSubmission" /\ j.user = kycJob[p].user
      /\ j.answer = answer
  BY <1>2, <1>3 DEF O!Job, O!JobStep
<1>5. KycJobOK(j)
  BY <1>2, <1>4 DEF KycJobOK
<1>6. O!Goto(p, j)
  BY <1>3 DEF O!SubmitPack
<1> QED BY <1>1, <1>2, <1>5, <1>6, KycGoes

LEMMA CreateSubmissionKeeps ==
  ASSUME IInv, UNCHANGED settlementVars, NEW p \in Workers, O!CreateSubmission(p)
  PROVE  Move /\ IInv'
<1>1. /\ kycJob[p].step = "createSubmission" /\ UNCHANGED <<serviceVars, approved, accounts>>
      /\ submission' = [submission EXCEPT ![kycJob[p].user] = kycJob[p].answer]
  BY DEF O!CreateSubmission, O!serviceVars, serviceVars
<1>2. /\ Idle(p) /\ kycJob[p] \in O!Job /\ kycJob[p].user \in Users /\ call[p].step = "idle"
      /\ kycJob[p].answer \in PartnerAnswers
  BY <1>1, KycWorker DEF KycJobOK
<1>3. /\ Move /\ FactsGrow
      /\ \A v \in Users : \A g :
           g \in everHeld'[v] <=>
             \/ g \in everHeld[v]
             \/ /\ kycJob[p].answer = "approved"
                /\ v = kycJob[p].user /\ g = "complianceSubmissionApproved"
  <2>1. CASE kycJob[p].answer = "approved"
    BY <1>1, <1>2, <2>1, Learning DEF UserFlag, O!CreateSubmission
  <2>2. CASE kycJob[p].answer # "approved"
    BY <1>1, <2>2 DEF O!CreateSubmission, Move, FactsGrow
  <2> QED BY <2>1, <2>2
<1>4. \A v \in Users : submission'[v] = IF v = kycJob[p].user THEN kycJob[p].answer ELSE submission[v]
  BY <1>1, <1>2 DEF IInv, OnboardingTables
<1>5. OnboardingTables'
  BY <1>1, <1>2 DEF IInv, OnboardingTables
<1>6. FactsHeld'
  BY <1>1, <1>3, <1>4 DEF IInv, FactsHeld
<1>7. PICK j : j = O!InLoop(kycJob[p], "compliance_handoff_pending")
  OBVIOUS
<1>8. KycJobOK(j)
  BY <1>2, <1>7, InLoopOK DEF O!Loop
<1>9. kycJob' = [kycJob EXCEPT ![p] = j] /\ call' = call
  BY <1>1, <1>7 DEF O!CreateSubmission, O!Goto, serviceVars
<1> QED BY <1>2, <1>3, <1>5, <1>6, <1>8, <1>9, KycKeeps

LEMMA FindAccountGated ==
  ASSUME IInv, UNCHANGED settlementVars, NEW p \in Workers, O!FindAccount(p)
  PROVE  Move /\ IInv'
<1>1. kycJob[p].step = "findAccount" /\ UNCHANGED <<serviceVars, O!tables>>
  BY DEF O!FindAccount, O!serviceVars, serviceVars
<1>2. Idle(p) /\ kycJob[p] \in O!Job /\ kycJob[p].user \in Users /\ call[p].step = "idle"
  BY <1>1, KycWorker
<1>3. CASE O!Goto(p, O!InLoop(kycJob[p], "bank_link_required"))
  BY <1>1, <1>2, <1>3, InLoopOK, KycGoes DEF O!Loop
<1>4. ASSUME O!Goto(p, [O!InLoop(kycJob[p], "named_account_pending")
                          EXCEPT !.account = Len(accounts[kycJob[p].user])])
      PROVE  Move /\ IInv'
  <2>1. PICK n : n = Len(accounts[kycJob[p].user])
    OBVIOUS
  <2>2. n \in 0..MaxAccounts
    BY <1>2, <2>1, AccountsAssumption, LenProperties DEF IInv, OnboardingTables
  <2>3. PICK i : i = O!InLoop(kycJob[p], "named_account_pending")
    OBVIOUS
  <2>4. KycJobOK(i) /\ i \in O!Job /\ i.step = "findSessions"
    <3>1. KycJobOK(i) /\ i \in O!Job
      BY <1>2, <2>3, InLoopOK DEF O!Loop
    <3>2. i.step = "findSessions"
      BY <1>2, <2>3 DEF O!InLoop, O!Job
    <3> QED BY <3>1, <3>2
  <2>5. PICK j : j = [i EXCEPT !.account = n]
    OBVIOUS
  <2>6. j \in O!Job /\ j.step = "findSessions" /\ j.user = i.user /\ j.loop = i.loop
    BY <2>2, <2>4, <2>5 DEF O!Job
  <2>7. KycJobOK(j)
    BY <2>4, <2>6 DEF KycJobOK
  <2>8. O!Goto(p, j)
    BY <1>4, <2>1, <2>3, <2>5
  <2> QED BY <1>1, <1>2, <2>7, <2>8, KycGoes
<1> QED BY <1>3, <1>4 DEF O!FindAccount

LEMMA ProvisionKeeps ==
  ASSUME IInv, UNCHANGED settlementVars, NEW p \in Workers,
         NEW reply \in BankReplies, O!Provision(p, reply)
  PROVE  Move /\ IInv'
<1>1. kycJob[p].step = "provision" /\ UNCHANGED <<serviceVars, O!tables>>
  BY DEF O!Provision, O!serviceVars, serviceVars
<1>2. Idle(p) /\ kycJob[p] \in O!Job /\ kycJob[p].user \in Users /\ call[p].step = "idle"
  BY <1>1, KycWorker
<1>3. PICK answer : answer = O!provisionNamedAccount(reply)
  OBVIOUS
<1>4. answer \in {"refused", "active", "pending"}
  BY <1>3, BankAssumption DEF O!provisionNamedAccount, O!NoToken
<1>5. CASE answer = "refused"
  BY <1>1, <1>2, <1>3, <1>5, NoJobs, KycGoes DEF O!Provision, O!Finish
<1>6. CASE answer # "refused"
  <2>1. PICK j : j = [kycJob[p] EXCEPT !.step = "saveAccount", !.answer = answer]
    OBVIOUS
  <2>2. j \in O!Job /\ j.step = "saveAccount" /\ j.user = kycJob[p].user /\ j.answer = answer
    BY <1>2, <1>4, <1>6, <2>1 DEF O!Job, O!JobStep
  <2>3. KycJobOK(j)
    BY <1>2, <1>4, <1>6, <2>2 DEF KycJobOK
  <2>4. O!Goto(p, j)
    BY <1>3, <1>6, <2>1 DEF O!Provision
  <2> QED BY <1>1, <1>2, <2>3, <2>4, KycGoes
<1> QED BY <1>5, <1>6

LEMMA SaveAccountKeeps ==
  ASSUME IInv, UNCHANGED settlementVars, NEW p \in Workers, O!SaveAccount(p)
  PROVE  Move /\ IInv'
<1> DEFINE u == kycJob[p].user
           rows == accounts[u]
           answer == kycJob[p].answer
           i == kycJob[p].account
<1>1. /\ kycJob[p].step = "saveAccount" /\ UNCHANGED <<serviceVars, approved, submission>>
      /\ i = 0 => Len(rows) < MaxAccounts
      /\ accounts' = [accounts EXCEPT ![u] = IF i = 0 THEN Append(rows, answer)
                                                      ELSE [rows EXCEPT ![i] = answer]]
  BY DEF O!SaveAccount, O!serviceVars, serviceVars
<1>2. /\ Idle(p) /\ kycJob[p] \in O!Job /\ u \in Users /\ call[p].step = "idle"
      /\ answer \in {"active", "pending"} /\ i \in Nat
  BY <1>1, KycWorker DEF KycJobOK, O!Job
<1>3. /\ Move /\ FactsGrow
      /\ \A v \in Users : \A g :
           g \in everHeld'[v] <=>
             \/ g \in everHeld[v]
             \/ /\ answer = "active"
                /\ v = u /\ g = "namedAccountActive"
  <2>1. CASE answer = "active"
    BY <1>1, <1>2, <2>1, Learning DEF UserFlag, O!SaveAccount
  <2>2. CASE answer # "active"
    BY <1>1, <2>2 DEF O!SaveAccount, Move, FactsGrow
  <2> QED BY <2>1, <2>2
<1>4. PICK new : new = IF i = 0 THEN Append(rows, answer) ELSE [rows EXCEPT ![i] = answer]
  OBVIOUS
<1>5. rows \in Seq({"active", "pending"}) /\ Len(rows) <= MaxAccounts /\ Len(rows) \in Nat
  BY <1>2, LenProperties DEF IInv, OnboardingTables
<1>6. /\ new \in Seq({"active", "pending"}) /\ Len(new) <= MaxAccounts
      /\ \A k \in DOMAIN new : new[k] = answer \/ (k \in DOMAIN rows /\ new[k] = rows[k])
  <2>1. CASE i = 0
    <3>1. new = Append(rows, answer) /\ Len(rows) + 1 <= MaxAccounts
      BY <1>1, <1>4, <1>5, <2>1, AccountsAssumption
    <3>2. /\ new \in Seq({"active", "pending"}) /\ Len(new) = Len(rows) + 1
          /\ \A k \in 1..Len(rows) : new[k] = rows[k]
          /\ new[Len(rows) + 1] = answer
      BY <1>2, <1>5, <3>1, AppendProperties
    <3>3. DOMAIN new = 1..Len(new) /\ DOMAIN rows = 1..Len(rows)
      BY <1>5, <3>2, LenProperties
    <3> QED BY <1>5, <3>1, <3>2, <3>3
  <2>2. CASE i \in DOMAIN rows
    <3>1. new = [rows EXCEPT ![i] = answer] /\ DOMAIN rows = 1..Len(rows)
      BY <1>4, <1>5, <2>2, LenProperties
    <3>2. /\ new \in Seq({"active", "pending"}) /\ Len(new) = Len(rows)
          /\ \A k \in 1..Len(rows) : new[k] = IF k = i THEN answer ELSE rows[k]
      BY <1>2, <1>5, <2>2, <3>1, ExceptSeq
    <3>3. DOMAIN new = 1..Len(new)
      BY <3>2, LenProperties
    <3> QED BY <1>5, <3>1, <3>2, <3>3
  <2>3. CASE i # 0 /\ i \notin DOMAIN rows
    <3>1. new = [rows EXCEPT ![i] = answer] /\ rows \in [DOMAIN rows -> {"active", "pending"}]
      BY <1>4, <1>5, <2>3, LenProperties
    <3>2. new = rows
      BY <2>3, <3>1
    <3> QED BY <1>5, <3>2
  <2> QED BY <2>1, <2>2, <2>3
<1>7. \A v \in Users : accounts'[v] = IF v = u THEN new ELSE accounts[v]
  BY <1>1, <1>2, <1>4 DEF IInv, OnboardingTables
<1>8. OnboardingTables'
  <2>1. accounts' \in [Users -> Seq({"active", "pending"})]
    BY <1>1, <1>2, <1>4, <1>6 DEF IInv, OnboardingTables
  <2> QED BY <1>1, <1>6, <1>7, <2>1 DEF IInv, OnboardingTables
<1>9. FactsHeld'
  <2>1. ASSUME NEW v \in Users, NEW k \in DOMAIN accounts'[v], accounts'[v][k] = "active"
        PROVE  "namedAccountActive" \in everHeld'[v]
    BY <1>3, <1>6, <1>7, <2>1 DEF IInv, FactsHeld
  <2>2. \A v \in Users :
          /\ v \in approved' <=> "kycApproved" \in everHeld'[v]
          /\ submission'[v] = "approved" => "complianceSubmissionApproved" \in everHeld'[v]
          /\ "hasWallet" \notin everHeld'[v]
    BY <1>1, <1>3 DEF IInv, FactsHeld
  <2> QED BY <2>1, <2>2 DEF FactsHeld
<1>10. PICK j : KycJobOK(j) /\ kycJob' = [kycJob EXCEPT ![p] = j] /\ j.step # "sessionMoved"
  <2>1. CASE answer = "active"
    <3>1. PICK l : l = O!InLoop(kycJob[p], "bank_link_required")
      OBVIOUS
    <3>2. KycJobOK(l) /\ l.step = "findSessions"
      BY <1>2, <3>1, InLoopOK DEF O!Loop, O!InLoop, O!Job
    <3>3. kycJob' = [kycJob EXCEPT ![p] = l]
      BY <2>1, <3>1 DEF O!SaveAccount, O!Goto
    <3> QED BY <3>2, <3>3
  <2>2. CASE answer # "active"
    BY <2>2, NoJobs DEF O!SaveAccount, O!Finish, O!Goto
  <2> QED BY <2>1, <2>2
<1>11. call' = call
  BY <1>1 DEF serviceVars
<1> QED BY <1>2, <1>3, <1>8, <1>9, <1>10, <1>11, KycKeeps

LEMMA KycFailsKeeps ==
  ASSUME IInv, UNCHANGED settlementVars, NEW p \in Workers, O!JobFails(p)
  PROVE  Move /\ IInv'
<1>1. /\ kycJob[p].step # "none" /\ call[p].step = "idle" /\ O!Goto(p, O!NoJob)
      /\ UNCHANGED <<serviceVars, O!tables>>
  BY DEF O!JobFails, O!Idle, O!Finish, O!serviceVars, serviceVars
<1>2. Idle(p)
  BY <1>1, KycWorker
<1> QED BY <1>1, <1>2, NoJobs, KycGoes

LEMMA OpenSessionKeeps ==
  ASSUME IInv, UNCHANGED settlementVars, NEW s \in Sessions, O!OpenSession(s)
  PROVE  Move /\ IInv'
<1>1. CreateSession(s) /\ UNCHANGED <<O!tables, kycJob>>
  BY OnboardingService DEF O!OpenSession
<1>2. OnboardingTables' /\ FactsHeld' /\ FactsGrow /\ UNCHANGED everHeld
  BY <1>1, FactsUntouched
<1>3. Move
  BY <1>1, <1>2 DEF Move
<1>4. GateInv' /\ call' = call
  BY <1>1, <1>3, MoveGates DEF IInv, CreateSession
<1>5. SettlementTables' /\ RowsGated' /\ job' = job
  BY <1>2, RowsStayGated DEF IInv, SettlementTables, settlementVars, tables
<1>6. KycJobs' /\ TradeJobs'
  BY <1>1, <1>2, <1>5 DEF IInv, KycJobs, KycJobOK, TradeJobs, GatedJob, May, Gated
<1>7. CallsInOrder'
  <2>1. \A p \in Workers : OneCall(p)'
    BY <1>1, <1>4, <1>5 DEF IInv, CallsInOrder, OneCall, O!Idle, Idle
  <2>2. \A p \in Workers : Requested(p)'
    BY <1>2, <1>4, <1>5, RequestedStays
  <2> QED BY <2>1, <2>2 DEF CallsInOrder
<1> QED BY <1>2, <1>3, <1>4, <1>5, <1>6, <1>7 DEF IInv

LEMMA OnboardingKeeps ==
  ASSUME IInv, OnboardingStep PROVE Move /\ IInv'
<1>0. UNCHANGED settlementVars
  BY DEF OnboardingStep
<1>1. ASSUME NEW s \in Sessions, O!OpenSession(s) PROVE Move /\ IInv'
  BY <1>0, <1>1, OpenSessionKeeps
<1>2. ASSUME NEW p \in Workers, Idle(p), NEW u \in Users, O!KycWebhook(p, u)
      PROVE  Move /\ IInv'
  BY <1>0, <1>2, KycWebhookKeeps
<1>3. ASSUME NEW p \in Workers, O!Work(p) PROVE Move /\ IInv'
  <2>1. CASE O!TransitionStep(p) /\ O!Untouched
    <3>1. UNCHANGED <<handlerTables, settlementVars>>
      BY <1>0, <2>1 DEF O!Untouched, O!tables, handlerTables
    <3>2. \/ FindSession(p) \/ UpdateState(p) \/ AppendEvent(p) \/ QueryFails(p)
          \/ \E s \in Sessions :
               call[p].session = s /\ \E held \in O!Flags(UserOf[s]) : LoadFlags(p, held)
      BY <2>1, OnboardingService DEF O!TransitionStep
    <3> QED BY <3>1, <3>2, TransitionKeeps
  <2>2. CASE O!FindSessions(p) \/ O!NextSession(p) \/ O!SessionMoved(p)
    BY <1>0, <2>2, FindSessionsGated, NextSessionKeeps, SessionMovedKeeps
  <2>3. CASE O!SaveProfile(p) \/ O!CreateSubmission(p) \/ O!FindAccount(p) \/ O!SaveAccount(p)
    BY <1>0, <2>3, SaveProfileKeeps, CreateSubmissionKeeps, FindAccountGated, SaveAccountKeeps
  <2>4. ASSUME NEW a \in PartnerAnswers, O!SubmitPack(p, a) PROVE Move /\ IInv'
    BY <1>0, <2>4, SubmitPackKeeps
  <2>5. ASSUME NEW r \in BankReplies, O!Provision(p, r) PROVE Move /\ IInv'
    BY <1>0, <2>5, ProvisionKeeps
  <2> QED BY <1>3, <2>1, <2>2, <2>3, <2>4, <2>5 DEF O!Work
<1>4. ASSUME NEW p \in Workers, QueryFails(p), O!Untouched PROVE Move /\ IInv'
  <2>1. UNCHANGED <<handlerTables, settlementVars>>
    BY <1>0, <1>4 DEF O!Untouched, O!tables, handlerTables
  <2> QED BY <1>4, <2>1, TransitionKeeps
<1>5. ASSUME NEW p \in Workers, O!JobFails(p) PROVE Move /\ IInv'
  BY <1>0, <1>5, KycFailsKeeps
<1> QED BY <1>1, <1>2, <1>3, <1>4, <1>5 DEF OnboardingStep

-----------------------------------------------------------------------------
(***************************************************************************)
(* Quotes, orders, polls and deposits                                      *)
(***************************************************************************)

LEMMA TradeWorker ==
  ASSUME IInv, NEW p \in Workers, job[p].step # "none"
  PROVE  /\ O!Idle(p) /\ GatedJob(job[p]) /\ job[p] \in Job
         /\ job[p].step \notin Waiting => call[p].step = "idle"
BY DEF IInv, CallsInOrder, OneCall, TradeJobs, GatedJob, O!Idle, Idle

LEMMA IdleWorker ==
  ASSUME IInv, NEW p \in Workers, O!Idle(p), Idle(p)
  PROVE  call[p].step = "idle"
BY DEF IInv, CallsInOrder, OneCall, O!Idle, Idle, Waiting

LEMMA TablesUntouched ==
  ASSUME IInv, UNCHANGED <<tables, everHeld>>
  PROVE  SettlementTables' /\ RowsGated'
BY DEF IInv, SettlementTables, RowsGated, May, Gated, tables

\* The job goes on, and the transition service has no part in it.
LEMMA TradeGoes ==
  ASSUME IInv, UNCHANGED <<serviceVars, onboardingVars>>, SettlementTables', RowsGated',
         NEW p \in Workers, O!Idle(p), call[p].step = "idle",
         NEW j, GatedJob(j), j.step # "quoteRequested", Goto(p, j)
  PROVE  Move /\ IInv'
<1>1. Move /\ call' = call
  BY DEF Move, serviceVars, onboardingVars
<1>2. job' = [job EXCEPT ![p] = j]
  BY DEF Goto
<1> QED BY <1>1, <1>2, TradeKeeps

\* The job calls transition().
LEMMA TradeAsks ==
  ASSUME IInv, UNCHANGED onboardingVars, SettlementTables', RowsGated',
         NEW p \in Workers, O!Idle(p), call[p].step = "idle",
         NEW j, GatedJob(j), j.step \in Waiting,
         NEW s \in Sessions, NEW c \in CodeCalls, CallFrom(p, s, c.to, c.reason, j),
         j.step = "quoteRequested" => s = j.session /\ c.to = "quote_requested"
  PROVE  Move /\ IInv'
<1>1. Ask(p, s, c.to, c.reason) /\ job' = [job EXCEPT ![p] = j]
  BY DEF CallFrom, Goto
<1>2. Move
  BY <1>1 DEF Move, onboardingVars
<1>3. PICK f : f = Called(s, c.to, c.reason)
  OBVIOUS
<1>4. call' = [call EXCEPT ![p] = f] /\ f.step = "findSession" /\ f.session = s /\ f.to = c.to
  BY <1>1, <1>3 DEF Ask, Called, IdleFrame
<1>5. call'[p] = f /\ \A q \in Workers \ {p} : call'[q] = call[q]
  BY <1>4, CallStays
<1> QED BY <1>1, <1>2, <1>4, <1>5, TradeKeeps

\* The job is given the result of its call.
LEMMA TradeResumes ==
  ASSUME IInv, UNCHANGED <<onboardingVars, tables>>,
         NEW p \in Workers, O!Idle(p),
         NEW e \in Outcome, ResultTaken(p, e),
         NEW j, GatedJob(j), j.step # "quoteRequested", Goto(p, j)
  PROVE  Move /\ IInv'
<1>1. Move
  BY DEF Move, onboardingVars
<1>2. call'[p].step = "idle" /\ \A q \in Workers \ {p} : call'[q] = call[q]
  BY ResultStays
<1>3. SettlementTables' /\ RowsGated' /\ job' = [job EXCEPT ![p] = j]
  BY TablesUntouched DEF onboardingVars, Goto
<1> QED BY <1>1, <1>2, <1>3, TradeKeeps

LEMMA TradeThrew ==
  ASSUME NEW p, ResultTaken(p, "ok") \/ Threw(p)
  PROVE  \E e \in Outcome : ResultTaken(p, e)
<1>1. CASE ResultTaken(p, "ok")
  BY <1>1 DEF Outcome
<1>2. CASE Threw(p)
  BY <1>2 DEF Threw
<1> QED BY <1>1, <1>2

-----------------------------------------------------------------------------
\* Tables

LEMMA RowUpdated ==
  ASSUME NEW Row, NEW table \in Seq(Row), NEW i, NEW row, i \in DOMAIN table => row \in Row
  PROVE  /\ [table EXCEPT ![i] = row] \in Seq(Row)
         /\ DOMAIN [table EXCEPT ![i] = row] = DOMAIN table
         /\ \A k \in DOMAIN table :
              [table EXCEPT ![i] = row][k] = IF k = i THEN row ELSE table[k]
<1>1. DOMAIN table = 1..Len(table) /\ Len(table) \in Nat /\ table \in [DOMAIN table -> Row]
  BY LenProperties
<1>2. CASE i \in DOMAIN table
  BY <1>1, <1>2, ExceptSeq, LenProperties
<1>3. CASE i \notin DOMAIN table
  <2>1. [table EXCEPT ![i] = row] = table
    BY <1>1, <1>3
  <2> QED BY <1>3, <2>1
<1> QED BY <1>2, <1>3

LEMMA NewRow ==
  ASSUME NEW Row, NEW table \in Seq(Row), NEW row \in Row
  PROVE  /\ Append(table, row) \in Seq(Row)
         /\ DOMAIN Append(table, row) = DOMAIN table \cup {Len(table) + 1}
         /\ \A k \in DOMAIN table : Append(table, row)[k] = table[k]
         /\ Append(table, row)[Len(table) + 1] = row
<1>1. DOMAIN table = 1..Len(table) /\ Len(table) \in Nat
  BY LenProperties
<1>2. /\ Append(table, row) \in Seq(Row) /\ Len(Append(table, row)) = Len(table) + 1
      /\ \A k \in 1..Len(table) : Append(table, row)[k] = table[k]
      /\ Append(table, row)[Len(table) + 1] = row
  BY AppendProperties
<1>3. DOMAIN Append(table, row) = 1..(Len(table) + 1)
  BY <1>2, LenProperties
<1>4. 1..(Len(table) + 1) = (1..Len(table)) \cup {Len(table) + 1}
  BY <1>1
<1> QED BY <1>1, <1>2, <1>3, <1>4

LEMMA QuotesWritten ==
  ASSUME IInv, UNCHANGED <<everHeld, orders, provider, inbox>>,
         quotes' \in Seq(Quote),
         \A q \in DOMAIN quotes' :
           \/ q \in DOMAIN quotes /\ quotes'[q].session = quotes[q].session
           \/ May(quotes'[q].session)
  PROVE  SettlementTables' /\ RowsGated'
BY DEF IInv, SettlementTables, RowsGated, May, Gated

LEMMA OrdersWritten ==
  ASSUME IInv, UNCHANGED <<everHeld, quotes, provider, inbox>>,
         orders' \in Seq(Order),
         \A o \in DOMAIN orders' :
           \/ o \in DOMAIN orders /\ orders'[o].session = orders[o].session
           \/ May(orders'[o].session)
  PROVE  SettlementTables' /\ RowsGated'
BY DEF IInv, SettlementTables, RowsGated, May, Gated

LEMMA WorldWritten ==
  ASSUME IInv, UNCHANGED <<everHeld, quotes, orders>>,
         provider' \in Seq(ProviderOrder), inbox' \in Seq(InboxEntry)
  PROVE  SettlementTables' /\ RowsGated'
BY DEF IInv, SettlementTables, RowsGated, May, Gated

LEMMA OrderRowUpdated ==
  ASSUME IInv, UNCHANGED <<everHeld, quotes, provider, inbox>>,
         NEW i, NEW row, i \in DOMAIN orders => row \in Order /\ row.session = orders[i].session,
         orders' = [orders EXCEPT ![i] = row]
  PROVE  SettlementTables' /\ RowsGated'
<1>1. /\ orders' \in Seq(Order) /\ DOMAIN orders' = DOMAIN orders
      /\ \A k \in DOMAIN orders : orders'[k] = IF k = i THEN row ELSE orders[k]
  BY RowUpdated DEF IInv, SettlementTables
<1> QED BY <1>1, OrdersWritten

LEMMA QuoteRowUpdated ==
  ASSUME IInv, UNCHANGED <<everHeld, orders, provider, inbox>>,
         NEW i, NEW row, i \in DOMAIN quotes => row \in Quote /\ row.session = quotes[i].session,
         quotes' = [quotes EXCEPT ![i] = row]
  PROVE  SettlementTables' /\ RowsGated'
<1>1. /\ quotes' \in Seq(Quote) /\ DOMAIN quotes' = DOMAIN quotes
      /\ \A k \in DOMAIN quotes : quotes'[k] = IF k = i THEN row ELSE quotes[k]
  BY RowUpdated DEF IInv, SettlementTables
<1> QED BY <1>1, QuotesWritten

-----------------------------------------------------------------------------
\* Quotes

LEMMA RequestQuoteGated ==
  ASSUME IInv, UNCHANGED onboardingVars, NEW p \in Workers, O!Idle(p),
         NEW s \in Sessions, RequestQuote(p, s)
  PROVE  Move /\ IInv'
<1>1. Idle(p) /\ sessionState[s] # Absent /\ UNCHANGED <<serviceVars, tables>>
  BY DEF RequestQuote, serviceVars
<1>2. PICK seen : seen = sessionState[s]
  OBVIOUS
<1>3. seen \in SessionState /\ Gated(s, seen)
  BY <1>1, <1>2 DEF IInv, GateInv, ServiceTypes, SessionsGated
<1>4. PICK j : j = [NoJob EXCEPT !.step = "expireQuotes", !.session = s, !.seen = seen]
  OBVIOUS
<1>5. j \in Job /\ j.step = "expireQuotes" /\ j.session = s /\ j.seen = seen
  BY <1>3, <1>4, NoJobs DEF Job, JobStep, Reported, SessionState
<1>6. GatedJob(j)
  BY <1>3, <1>5 DEF GatedJob, May
<1>7. Goto(p, j)
  BY <1>2, <1>4 DEF RequestQuote
<1>8. SettlementTables' /\ RowsGated'
  BY <1>1, TablesUntouched DEF onboardingVars
<1> QED BY <1>1, <1>5, <1>6, <1>7, <1>8, IdleWorker, TradeGoes

LEMMA ExpiredQuotes ==
  ASSUME IInv, UNCHANGED <<everHeld, orders, provider, inbox>>, NEW s,
         quotes' = [q \in Ids(quotes) |->
                      IF /\ quotes[q].session = s
                         /\ quotes[q].status = "ready"
                         /\ quotes[q].lapsed
                      THEN [quotes[q] EXCEPT !.status = "expired"] ELSE quotes[q]]
  PROVE  SettlementTables' /\ RowsGated'
<1>1. DOMAIN quotes = 1..Len(quotes) /\ Len(quotes) \in Nat
  BY LenProperties DEF IInv, SettlementTables
<1>2. ASSUME NEW q \in DOMAIN quotes
      PROVE  quotes'[q] \in Quote /\ quotes'[q].session = quotes[q].session
  <2>1. PICK row : row = quotes[q]
    OBVIOUS
  <2>2. row \in Quote
    BY <2>1, RowSessions DEF IInv
  <2>3. PICK new : new = [row EXCEPT !.status = "expired"]
    OBVIOUS
  <2>4. new \in Quote /\ new.session = row.session
    BY <2>2, <2>3 DEF Quote
  <2>5. quotes'[q] \in {row, new}
    BY <2>1, <2>3 DEF Ids
  <2> QED BY <2>1, <2>2, <2>4, <2>5
<1>3. DOMAIN quotes' = DOMAIN quotes
  BY DEF Ids
<1>4. quotes' \in Seq(Quote)
  <2>1. quotes' = [q \in 1..Len(quotes) |-> quotes'[q]]
    BY <1>1 DEF Ids
  <2> QED BY <1>1, <1>2, <2>1, IsASeq
<1> QED BY <1>2, <1>3, <1>4, QuotesWritten

LEMMA ExpireQuotesGated ==
  ASSUME IInv, UNCHANGED onboardingVars, NEW p \in Workers, ExpireQuotes(p)
  PROVE  Move /\ IInv'
<1>1. job[p].step = "expireQuotes" /\ UNCHANGED <<everHeld, orders, provider, inbox>>
  BY DEF ExpireQuotes, onboardingVars
<1>2. O!Idle(p) /\ GatedJob(job[p]) /\ call[p].step = "idle" /\ job[p].session \in Sessions
  BY <1>1, TradeWorker DEF Waiting, GatedJob, InSession
<1>3. SettlementTables' /\ RowsGated'
  BY <1>1, ExpiredQuotes DEF ExpireQuotes
<1>4. CASE CallFrom(p, job[p].session, "quote_requested", "quote_requested",
                      [job[p] EXCEPT !.step = "quoteRequested"])
  <2>1. PICK j : j = [job[p] EXCEPT !.step = "quoteRequested"]
    OBVIOUS
  <2>2. GatedJob(j) /\ j.step = "quoteRequested" /\ j.session = job[p].session
    <3>1. j \in Job /\ j.step = "quoteRequested" /\ j.session = job[p].session
      BY <1>2, <2>1 DEF GatedJob, Job, JobStep
    <3>2. GatedJob(j)
      BY <1>2, <2>1, <3>1 DEF GatedJob, May, Gated
    <3> QED BY <3>1, <3>2
  <2>3. PICK c \in CodeCalls : c = [to |-> "quote_requested", reason |-> "quote_requested"]
    BY DEF CodeCalls
  <2>4. CallFrom(p, job[p].session, c.to, c.reason, j)
    BY <1>4, <2>1, <2>3
  <2> QED BY <1>2, <1>3, <2>2, <2>3, <2>4, TradeAsks DEF Waiting
<1>5. CASE /\ job[p].seen = "quote_requested"
           /\ Goto(p, [job[p] EXCEPT !.step = "createQuote"])
           /\ UNCHANGED serviceVars
  <2>1. PICK j : j = [job[p] EXCEPT !.step = "createQuote"]
    OBVIOUS
  <2>2. GatedJob(j) /\ j.step = "createQuote" /\ j.session = job[p].session
    <3>1. j \in Job /\ j.step = "createQuote" /\ j.session = job[p].session
      BY <1>1, <1>2, <1>5, <2>1 DEF GatedJob, Job, JobStep
    <3>2. GatedJob(j)
      BY <1>1, <1>2, <1>5, <2>1, <3>1 DEF GatedJob, May, Gated
    <3> QED BY <3>1, <3>2
  <2> QED BY <1>2, <1>3, <1>5, <2>1, <2>2, TradeGoes DEF serviceVars
<1> QED BY <1>4, <1>5 DEF ExpireQuotes

LEMMA QuoteRequestedGated ==
  ASSUME IInv, UNCHANGED onboardingVars, NEW p \in Workers, QuoteRequested(p)
  PROVE  Move /\ IInv'
<1>1. job[p].step = "quoteRequested" /\ UNCHANGED <<onboardingVars, tables>>
  BY DEF QuoteRequested
<1>2. O!Idle(p) /\ GatedJob(job[p]) /\ job[p].session \in Sessions
  BY <1>1, TradeWorker DEF GatedJob, InSession
<1>3. CASE ResultTaken(p, "ok") /\ Goto(p, [job[p] EXCEPT !.step = "createQuote"])
  <2>1. ResultTaken(p, "ok") /\ "ok" \in Outcome
    BY <1>3 DEF Outcome
  <2>2. May(job[p].session)
    BY <1>1, <2>1 DEF ResultTaken, IInv, CallsInOrder, Requested
  <2>3. PICK j : j = [job[p] EXCEPT !.step = "createQuote"]
    OBVIOUS
  <2>4. GatedJob(j) /\ j.step = "createQuote" /\ j.session = job[p].session
    <3>1. j \in Job /\ j.step = "createQuote" /\ j.session = job[p].session
      BY <1>2, <2>2, <2>3 DEF GatedJob, Job, JobStep
    <3>2. GatedJob(j)
      BY <1>2, <2>2, <2>3, <3>1 DEF GatedJob, May, Gated
    <3> QED BY <3>1, <3>2
  <2> QED BY <1>1, <1>2, <1>3, <2>1, <2>3, <2>4, TradeResumes
<1>4. CASE Threw(p) /\ Finish(p)
  <2>1. PICK e \in Outcome : ResultTaken(p, e)
    BY <1>4, TradeThrew
  <2> QED BY <1>1, <1>2, <1>4, <2>1, NoJobs, TradeResumes DEF Finish, Goto
<1> QED BY <1>3, <1>4 DEF QuoteRequested

LEMMA CreateQuoteGated ==
  ASSUME IInv, UNCHANGED onboardingVars, NEW p \in Workers, CreateQuote(p)
  PROVE  Move /\ IInv'
<1>1. job[p].step = "createQuote" /\ UNCHANGED <<everHeld, orders, provider, inbox>>
  BY DEF CreateQuote, onboardingVars
<1>2. /\ O!Idle(p) /\ GatedJob(job[p]) /\ call[p].step = "idle"
      /\ job[p].session \in Sessions /\ May(job[p].session)
  BY <1>1, TradeWorker DEF Waiting, GatedJob, InSession
<1>3. SettlementTables' /\ RowsGated'
  <2>1. PICK row : row = [session |-> job[p].session, status |-> "ready", lapsed |-> FALSE]
    OBVIOUS
  <2>2. row \in Quote /\ row.session = job[p].session
    BY <1>2, <2>1 DEF Quote
  <2>3. quotes' = Append(quotes, row)
    BY <2>1 DEF CreateQuote
  <2>4. /\ quotes' \in Seq(Quote)
        /\ DOMAIN quotes' = DOMAIN quotes \cup {Len(quotes) + 1}
        /\ \A q \in DOMAIN quotes : quotes'[q] = quotes[q]
        /\ quotes'[Len(quotes) + 1] = row
    BY <2>2, <2>3, NewRow DEF IInv, SettlementTables
  <2>5. May(quotes'[Len(quotes) + 1].session)
    BY <1>2, <2>2, <2>4 DEF May, Gated
  <2> QED BY <1>1, <2>4, <2>5, QuotesWritten
<1>4. PICK j : j = [job[p] EXCEPT !.step = "quoteReady"]
  OBVIOUS
<1>5. GatedJob(j) /\ j.step = "quoteReady" /\ j.session = job[p].session
  <2>1. j \in Job /\ j.step = "quoteReady" /\ j.session = job[p].session
    BY <1>2, <1>4 DEF GatedJob, Job, JobStep
  <2>2. GatedJob(j)
    BY <1>2, <1>4, <2>1 DEF GatedJob, May, Gated
  <2> QED BY <2>1, <2>2
<1>6. PICK c \in CodeCalls : c = [to |-> "quote_ready", reason |-> "quote_created"]
  BY DEF CodeCalls
<1>7. CallFrom(p, job[p].session, c.to, c.reason, j)
  BY <1>4, <1>6 DEF CreateQuote
<1> QED BY <1>2, <1>3, <1>5, <1>7, TradeAsks DEF Waiting

\* A job that ends with the answer to its call.
LEMMA LastAnswer ==
  ASSUME IInv, UNCHANGED <<onboardingVars, tables>>, NEW p \in Workers,
         job[p].step # "none", ResultTaken(p, "ok") \/ Threw(p), Finish(p)
  PROVE  Move /\ IInv'
<1>1. O!Idle(p)
  BY TradeWorker
<1>2. PICK e \in Outcome : ResultTaken(p, e)
  BY TradeThrew
<1> QED BY <1>1, <1>2, NoJobs, TradeResumes DEF Finish, Goto

\* A job that ends, the service having no part in it.
LEMMA LastStep ==
  ASSUME IInv, UNCHANGED onboardingVars, UNCHANGED serviceVars, NEW p \in Workers,
         job[p].step # "none", call[p].step = "idle",
         SettlementTables', RowsGated', Finish(p)
  PROVE  Move /\ IInv'
<1>1. O!Idle(p)
  BY TradeWorker
<1> QED BY <1>1, NoJobs, TradeGoes DEF Finish, Goto, serviceVars

LEMMA AcceptQuoteGated ==
  ASSUME IInv, UNCHANGED onboardingVars, NEW p \in Workers, O!Idle(p),
         NEW q \in Ids(quotes), AcceptQuote(p, q)
  PROVE  Move /\ IInv'
<1>1. Idle(p) /\ UNCHANGED <<serviceVars, tables>>
  BY DEF AcceptQuote, serviceVars
<1>2. PICK j : j = [NoJob EXCEPT !.step = "acceptQuote", !.quote = q]
  OBVIOUS
<1>3. j \in Job /\ j.step = "acceptQuote"
  BY <1>2, NoJobs, RowSessions DEF IInv, Ids, Job, JobStep
<1>4. GatedJob(j) /\ Goto(p, j)
  BY <1>2, <1>3 DEF GatedJob, InSession, AcceptQuote
<1>5. SettlementTables' /\ RowsGated'
  BY <1>1, TablesUntouched DEF onboardingVars
<1> QED BY <1>1, <1>3, <1>4, <1>5, IdleWorker, TradeGoes

LEMMA WriteAcceptedGated ==
  ASSUME IInv, UNCHANGED onboardingVars, NEW p \in Workers, WriteAccepted(p)
  PROVE  Move /\ IInv'
<1>1. job[p].step = "acceptQuote" /\ UNCHANGED <<everHeld, orders, provider, inbox>>
  BY DEF WriteAccepted, onboardingVars
<1>2. call[p].step = "idle"
  BY <1>1, TradeWorker DEF Waiting
<1>3. SettlementTables' /\ RowsGated'
  <2>1. PICK i : i = job[p].quote
    OBVIOUS
  <2>2. PICK row : row = [quotes[i] EXCEPT !.status = "accepted"]
    OBVIOUS
  <2>3. i \in DOMAIN quotes => row \in Quote /\ row.session = quotes[i].session
    <3>1. SUFFICES ASSUME i \in DOMAIN quotes
                   PROVE  row \in Quote /\ row.session = quotes[i].session
      OBVIOUS
    <3>2. quotes[i] \in Quote
      BY <3>1, RowSessions DEF IInv
    <3> QED BY <2>2, <3>2 DEF Quote
  <2>4. quotes' = [quotes EXCEPT ![i] = row]
    BY <2>1, <2>2 DEF WriteAccepted
  <2> QED BY <1>1, <2>3, <2>4, QuoteRowUpdated
<1> QED BY <1>1, <1>2, <1>3, LastStep DEF WriteAccepted

-----------------------------------------------------------------------------
\* Orders

LEMMA SubmitOrderGated ==
  ASSUME IInv, UNCHANGED onboardingVars, NEW p \in Workers, O!Idle(p),
         NEW s \in Sessions, NEW q \in Ids(quotes), SubmitOrder(p, s, q)
  PROVE  Move /\ IInv'
<1>1. Idle(p) /\ UNCHANGED <<serviceVars, tables>> /\ quotes[q].session = s
  BY DEF SubmitOrder, serviceVars
<1>2. May(s) /\ q \in Nat
  BY <1>1, RowSessions DEF IInv, RowsGated, Ids
<1>3. PICK j : j = [NoJob EXCEPT !.step = "placeOrder", !.session = s, !.quote = q]
  OBVIOUS
<1>4. j \in Job /\ j.step = "placeOrder" /\ j.session = s
  BY <1>2, <1>3, NoJobs DEF Job, JobStep, Reported
<1>5. GatedJob(j) /\ Goto(p, j)
  BY <1>2, <1>3, <1>4 DEF GatedJob, SubmitOrder
<1>6. SettlementTables' /\ RowsGated'
  BY <1>1, TablesUntouched DEF onboardingVars
<1> QED BY <1>1, <1>4, <1>5, <1>6, IdleWorker, TradeGoes

LEMMA PlaceOrderGated ==
  ASSUME IInv, UNCHANGED onboardingVars, NEW p \in Workers, PlaceOrder(p)
  PROVE  Move /\ IInv'
<1>1. /\ job[p].step = "placeOrder" /\ UNCHANGED <<everHeld, quotes, orders, inbox>>
      /\ UNCHANGED serviceVars
  BY DEF PlaceOrder, onboardingVars, serviceVars
<1>2. /\ O!Idle(p) /\ GatedJob(job[p]) /\ call[p].step = "idle"
      /\ job[p].session \in Sessions /\ May(job[p].session)
  BY <1>1, TradeWorker DEF Waiting, GatedJob, InSession
<1>t. PICK told \in Reported :
        /\ provider' = Append(provider, Placed(told))
        /\ Goto(p, [job[p] EXCEPT !.step = "createOrder", !.provider = Len(provider'),
                                  !.answer = told])
  BY DEF PlaceOrder
<1>3. provider' \in Seq(ProviderOrder)
  <2>1. PICK row : row = Placed(told)
    OBVIOUS
  <2>2. row \in ProviderOrder
    BY <1>t, <2>1 DEF Placed, ProviderOrder, ComplianceStatus, Reported
  <2> QED BY <1>t, <2>1, <2>2, NewRow DEF IInv, SettlementTables
<1>4. SettlementTables' /\ RowsGated'
  BY <1>1, <1>3, WorldWritten DEF IInv, SettlementTables
<1>5. PICK n \in Nat : n = Len(provider')
  BY <1>3, LenProperties
<1>6. PICK j : j = [job[p] EXCEPT !.step = "createOrder", !.provider = n, !.answer = told]
  OBVIOUS
<1>7. j \in Job /\ j.step = "createOrder" /\ j.session = job[p].session
  BY <1>2, <1>5, <1>6 DEF GatedJob, Job, JobStep
<1>8. GatedJob(j)
  BY <1>2, <1>7 DEF GatedJob, May, Gated
<1>9. Goto(p, j)
  BY <1>t, <1>5, <1>6
<1> QED BY <1>1, <1>2, <1>4, <1>7, <1>8, <1>9, TradeGoes

LEMMA CreateOrderGated ==
  ASSUME IInv, UNCHANGED onboardingVars, NEW p \in Workers, CreateOrder(p)
  PROVE  Move /\ IInv'
<1>1. job[p].step = "createOrder" /\ UNCHANGED <<everHeld, quotes, provider, inbox>>
  BY DEF CreateOrder, onboardingVars
<1>2. /\ O!Idle(p) /\ GatedJob(job[p]) /\ call[p].step = "idle" /\ job[p] \in Job
      /\ job[p].session \in Sessions /\ May(job[p].session)
  BY <1>1, TradeWorker DEF Waiting, GatedJob, InSession
<1>3. SettlementTables' /\ RowsGated'
  <2>1. PICK row : row = [ session |-> job[p].session, quote |-> job[p].quote,
                           provider |-> job[p].provider,
                           compliance |-> job[p].answer, status |-> "compliance_pending" ]
    OBVIOUS
  <2>2. row \in Order /\ row.session = job[p].session
    BY <1>2, <2>1 DEF Order, Job
  <2>3. orders' = Append(orders, row)
    BY <2>1 DEF CreateOrder
  <2>4. /\ orders' \in Seq(Order)
        /\ DOMAIN orders' = DOMAIN orders \cup {Len(orders) + 1}
        /\ \A o \in DOMAIN orders : orders'[o] = orders[o]
        /\ orders'[Len(orders) + 1] = row
    BY <2>2, <2>3, NewRow DEF IInv, SettlementTables
  <2>5. May(orders'[Len(orders) + 1].session)
    BY <1>2, <2>2, <2>4 DEF May, Gated
  <2> QED BY <1>1, <2>4, <2>5, OrdersWritten
<1>4. PICK j : j = [job[p] EXCEPT !.step = "orderSubmitted"]
  OBVIOUS
<1>5. GatedJob(j) /\ j.step = "orderSubmitted" /\ j.session = job[p].session
  <2>1. j \in Job /\ j.step = "orderSubmitted" /\ j.session = job[p].session
    BY <1>2, <1>4 DEF GatedJob, Job, JobStep
  <2>2. GatedJob(j)
    BY <1>2, <1>4, <2>1 DEF GatedJob, May, Gated
  <2> QED BY <2>1, <2>2
<1>6. PICK c \in CodeCalls : c = [to |-> "compliance_pending", reason |-> "order_submitted"]
  BY DEF CodeCalls
<1>7. CallFrom(p, job[p].session, c.to, c.reason, j)
  BY <1>4, <1>6 DEF CreateOrder
<1> QED BY <1>2, <1>3, <1>5, <1>7, TradeAsks DEF Waiting

-----------------------------------------------------------------------------
\* Polls

LEMMA PollOrderGated ==
  ASSUME IInv, UNCHANGED onboardingVars, NEW p \in Workers, O!Idle(p),
         NEW o \in Ids(orders), PollOrder(p, o)
  PROVE  Move /\ IInv'
<1>1. Idle(p) /\ UNCHANGED <<serviceVars, tables>>
  BY DEF PollOrder, serviceVars
<1>2. PICK row : row = orders[o]
  OBVIOUS
<1>3. row \in Order /\ o \in Nat
  BY <1>2, RowSessions DEF IInv, Ids
<1>4. PICK j : j = [NoJob EXCEPT !.step = "askProvider", !.order = o,
                                   !.session = row.session, !.provider = row.provider]
  OBVIOUS
<1>5. j \in Job /\ j.step = "askProvider" /\ j.session \in Sessions
  BY <1>3, <1>4, NoJobs DEF Job, JobStep, Reported, Order
<1>6. GatedJob(j) /\ Goto(p, j)
  BY <1>2, <1>4, <1>5 DEF GatedJob, PollOrder
<1>7. SettlementTables' /\ RowsGated'
  BY <1>1, TablesUntouched DEF onboardingVars
<1> QED BY <1>1, <1>5, <1>6, <1>7, IdleWorker, TradeGoes

LEMMA AskProviderGated ==
  ASSUME IInv, UNCHANGED onboardingVars, NEW p \in Workers, AskProvider(p)
  PROVE  Move /\ IInv'
<1>1. job[p].step = "askProvider" /\ UNCHANGED <<serviceVars, tables>>
  BY DEF AskProvider, serviceVars
<1>2. O!Idle(p) /\ GatedJob(job[p]) /\ call[p].step = "idle" /\ job[p].session \in Sessions
  BY <1>1, TradeWorker DEF Waiting, GatedJob, InSession
<1>3. SettlementTables' /\ RowsGated'
  BY <1>1, TablesUntouched DEF onboardingVars
<1>4. ASSUME NEW step \in {"clearOrder", "rejectOrder", "fillOrder"},
             Goto(p, [job[p] EXCEPT !.step = step])
      PROVE  Move /\ IInv'
  <2>1. PICK j : j = [job[p] EXCEPT !.step = step]
    OBVIOUS
  <2>2. j \in Job /\ j.step = step /\ j.session \in Sessions
    BY <1>2, <2>1 DEF GatedJob, Job, JobStep
  <2>3. GatedJob(j)
    BY <2>2 DEF GatedJob
  <2> QED BY <1>1, <1>2, <1>3, <1>4, <2>1, <2>2, <2>3, TradeGoes
<1>5. CASE Finish(p)
  BY <1>1, <1>2, <1>3, <1>5, LastStep DEF serviceVars
<1> QED BY <1>4, <1>5 DEF AskProvider

\* The row of an order, with what a poll has found out.
LEMMA OrderRowWritten ==
  ASSUME IInv, UNCHANGED <<everHeld, quotes, provider, inbox>>, NEW o,
         NEW compliance \in ComplianceStatus,
         NEW status \in {"compliance_pending", "submitted", "filled", "failed"},
         WriteOrder(o, compliance, status)
  PROVE  SettlementTables' /\ RowsGated'
<1>1. PICK row : row = [orders[o] EXCEPT !.compliance = compliance, !.status = status]
  OBVIOUS
<1>2. ASSUME o \in DOMAIN orders PROVE row \in Order /\ row.session = orders[o].session
  <2>1. orders[o] \in Order
    BY <1>2, RowSessions DEF IInv
  <2> QED BY <1>1, <2>1 DEF Order, Reported
<1>3. orders' = [orders EXCEPT ![o] = row]
  BY <1>1 DEF WriteOrder
<1> QED BY <1>2, <1>3, OrderRowUpdated

LEMMA ClearOrderGated ==
  ASSUME IInv, UNCHANGED onboardingVars, NEW p \in Workers, ClearOrder(p)
  PROVE  Move /\ IInv'
<1>1. job[p].step = "clearOrder" /\ UNCHANGED <<everHeld, quotes, provider, inbox>>
  BY DEF ClearOrder, onboardingVars
<1>2. call[p].step = "idle"
  BY <1>1, TradeWorker DEF Waiting
<1>3. SettlementTables' /\ RowsGated'
  BY <1>1, OrderRowWritten DEF ClearOrder, ComplianceStatus
<1> QED BY <1>1, <1>2, <1>3, LastStep DEF ClearOrder

LEMMA RejectOrderGated ==
  ASSUME IInv, UNCHANGED onboardingVars, NEW p \in Workers, RejectOrder(p)
  PROVE  Move /\ IInv'
<1>1. job[p].step = "rejectOrder" /\ UNCHANGED <<everHeld, quotes, provider, inbox>>
  BY DEF RejectOrder, onboardingVars
<1>2. O!Idle(p) /\ GatedJob(job[p]) /\ call[p].step = "idle" /\ job[p].session \in Sessions
  BY <1>1, TradeWorker DEF Waiting, GatedJob, InSession
<1>3. SettlementTables' /\ RowsGated'
  BY <1>1, OrderRowWritten DEF RejectOrder, ComplianceStatus
<1>4. PICK j : j = [job[p] EXCEPT !.step = "orderMoved"]
  OBVIOUS
<1>5. GatedJob(j) /\ j.step = "orderMoved"
  <2>1. j \in Job /\ j.step = "orderMoved" /\ j.session \in Sessions
    BY <1>2, <1>4 DEF GatedJob, Job, JobStep
  <2> QED BY <2>1 DEF GatedJob
<1>6. PICK c \in CodeCalls : c = [to |-> "failed", reason |-> "compliance_rejected"]
  BY DEF CodeCalls
<1>7. CallFrom(p, job[p].session, c.to, c.reason, j)
  BY <1>4, <1>6 DEF RejectOrder
<1> QED BY <1>2, <1>3, <1>5, <1>7, TradeAsks DEF Waiting

LEMMA FillOrderGated ==
  ASSUME IInv, UNCHANGED onboardingVars, NEW p \in Workers, FillOrder(p)
  PROVE  Move /\ IInv'
<1>1. job[p].step = "fillOrder" /\ UNCHANGED <<everHeld, quotes, provider, inbox>>
  BY DEF FillOrder, onboardingVars
<1>2. O!Idle(p) /\ GatedJob(job[p]) /\ call[p].step = "idle" /\ job[p].session \in Sessions
  BY <1>1, TradeWorker DEF Waiting, GatedJob, InSession
<1>3. SettlementTables' /\ RowsGated'
  BY <1>1, OrderRowWritten DEF FillOrder, ComplianceStatus
<1>4. PICK j : j = [job[p] EXCEPT !.step = "orderMoved"]
  OBVIOUS
<1>5. GatedJob(j) /\ j.step = "orderMoved"
  <2>1. j \in Job /\ j.step = "orderMoved" /\ j.session \in Sessions
    BY <1>2, <1>4 DEF GatedJob, Job, JobStep
  <2> QED BY <2>1 DEF GatedJob
<1>6. PICK c \in CodeCalls : c = [to |-> "order_filled", reason |-> "order_filled"]
  BY DEF CodeCalls
<1>7. CallFrom(p, job[p].session, c.to, c.reason, j)
  BY <1>4, <1>6 DEF FillOrder
<1> QED BY <1>2, <1>3, <1>5, <1>7, TradeAsks DEF Waiting

-----------------------------------------------------------------------------
\* Deposits

LEMMA ReceiveDepositGated ==
  ASSUME IInv, UNCHANGED onboardingVars, NEW p \in Workers, O!Idle(p),
         NEW d \in Deposits, ReceiveDeposit(p, d)
  PROVE  Move /\ IInv'
<1>1. Idle(p) /\ UNCHANGED serviceVars /\ UNCHANGED <<everHeld, quotes, orders, provider>>
  BY DEF ReceiveDeposit, serviceVars, onboardingVars
<1>2. inbox' \in Seq(InboxEntry)
  <2>1. PICK row : row = [deposit |-> d, processed |-> FALSE]
    OBVIOUS
  <2>2. row \in InboxEntry
    BY <2>1 DEF InboxEntry
  <2> QED BY <2>1, <2>2, NewRow DEF IInv, SettlementTables, ReceiveDeposit
<1>3. SettlementTables' /\ RowsGated'
  BY <1>1, <1>2, WorldWritten DEF IInv, SettlementTables
<1>4. PICK n \in Nat : n = Len(inbox')
  BY <1>2, LenProperties
<1>5. PICK j : j = [NoJob EXCEPT !.step = "findAccount", !.inbox = n]
  OBVIOUS
<1>6. j \in Job /\ j.step = "findAccount"
  BY <1>4, <1>5, NoJobs DEF Job, JobStep, Reported
<1>7. GatedJob(j) /\ Goto(p, j)
  BY <1>4, <1>5, <1>6 DEF GatedJob, InSession, ReceiveDeposit
<1> QED BY <1>1, <1>3, <1>6, <1>7, IdleWorker, TradeGoes

\* A step of a deposit that only reads.
LEMMA DepositReads ==
  ASSUME IInv, UNCHANGED <<onboardingVars, serviceVars, tables>>, NEW p \in Workers,
         job[p].step # "none", call[p].step = "idle",
         NEW j \in Job, Goto(p, j),
         \/ j.step \in {"markProcessed", "findSessions", "findOrder"}
         \/ j.step = "recordDeposit" /\ j.session \in Sessions
  PROVE  Move /\ IInv'
<1>1. O!Idle(p)
  BY TradeWorker
<1>2. GatedJob(j)
  BY DEF GatedJob, InSession
<1>3. SettlementTables' /\ RowsGated'
  BY TablesUntouched DEF onboardingVars
<1> QED BY <1>1, <1>2, <1>3, TradeGoes DEF serviceVars

LEMMA DepositStepKeeps ==
  ASSUME IInv, UNCHANGED onboardingVars, NEW p \in Workers,
         FindAccount(p) \/ FindSessions(p) \/ FindOrder(p)
  PROVE  Move /\ IInv'
<1>1. /\ job[p].step \in {"findAccount", "findSessions", "findOrder"}
      /\ UNCHANGED <<onboardingVars, serviceVars, tables>>
  BY DEF FindAccount, FindSessions, FindOrder
<1>2. job[p].step # "none" /\ call[p].step = "idle" /\ job[p] \in Job
  BY <1>1, TradeWorker DEF Waiting
<1>3. ASSUME NEW step \in {"markProcessed", "findSessions"},
             Goto(p, [job[p] EXCEPT !.step = step])
      PROVE  Move /\ IInv'
  <2>1. PICK j : j = [job[p] EXCEPT !.step = step]
    OBVIOUS
  <2>2. j \in Job /\ j.step = step
    BY <1>2, <2>1 DEF Job, JobStep
  <2> QED BY <1>1, <1>2, <1>3, <2>1, <2>2, DepositReads
<1>4. ASSUME NEW todo \in SUBSET Sessions, job[p].step \in {"findSessions", "findOrder"},
             Goto(p, [job[p] EXCEPT !.step = "findOrder", !.todo = todo])
      PROVE  Move /\ IInv'
  <2>1. PICK j : j = [job[p] EXCEPT !.step = "findOrder", !.todo = todo]
    OBVIOUS
  <2>2. j \in Job /\ j.step = "findOrder"
    BY <1>2, <2>1 DEF Job, JobStep
  <2> QED BY <1>1, <1>2, <1>4, <2>1, <2>2, DepositReads
<1>5. CASE FindAccount(p)
  BY <1>3, <1>5 DEF FindAccount
<1>6. CASE FindSessions(p)
  <2>1. ActiveSessions(Payer(job[p])) \in SUBSET Sessions
    BY DEF ActiveSessions
  <2> QED BY <1>4, <1>6, <2>1 DEF FindSessions
<1>7. CASE FindOrder(p)
  <2>1. job[p].step = "findOrder" /\ job[p].todo \subseteq Sessions
    BY <1>2, <1>7 DEF FindOrder, Job
  <2>2. ASSUME NEW s \in job[p].todo, Goto(p, [job[p] EXCEPT !.todo = @ \ {s}])
        PROVE  Move /\ IInv'
    <3>1. PICK j : j = [job[p] EXCEPT !.todo = @ \ {s}]
      OBVIOUS
    <3>2. j \in Job /\ j.step = "findOrder"
      BY <1>2, <2>1, <3>1 DEF Job
    <3> QED BY <1>1, <1>2, <2>2, <3>1, <3>2, DepositReads
  <2>3. ASSUME NEW s \in job[p].todo, NEW o \in OrdersOf(s),
               Goto(p, WithOrder(job[p], s, o))
        PROVE  Move /\ IInv'
    <3>1. PICK row : row = orders[o]
      OBVIOUS
    <3>2. row \in Order /\ o \in Nat /\ s \in Sessions
      BY <2>1, <3>1, RowSessions DEF IInv, OrdersOf, Ids
    <3>3. PICK j : j = [job[p] EXCEPT !.step = "recordDeposit", !.session = s, !.order = o,
                                      !.row = row, !.todo = {}]
      OBVIOUS
    <3>4. j \in Job /\ j.step = "recordDeposit" /\ j.session \in Sessions
      BY <1>2, <3>2, <3>3 DEF Job, JobStep
    <3>5. Goto(p, j)
      BY <2>3, <3>1, <3>3 DEF WithOrder
    <3> QED BY <1>1, <1>2, <3>4, <3>5, DepositReads
  <2> QED BY <1>3, <1>7, <2>2, <2>3 DEF FindOrder
<1> QED BY <1>5, <1>6, <1>7

LEMMA RecordDepositGated ==
  ASSUME IInv, UNCHANGED onboardingVars, NEW p \in Workers, RecordDeposit(p)
  PROVE  Move /\ IInv'
<1>1. /\ job[p].step = "recordDeposit" /\ UNCHANGED serviceVars
      /\ UNCHANGED <<everHeld, quotes, orders, provider, inbox>>
  BY DEF RecordDeposit, serviceVars, onboardingVars
<1>2. O!Idle(p) /\ GatedJob(job[p]) /\ call[p].step = "idle" /\ job[p].session \in Sessions
  BY <1>1, TradeWorker DEF Waiting, GatedJob, InSession
<1>3. SettlementTables' /\ RowsGated'
  BY <1>1, WorldWritten DEF IInv, SettlementTables
<1>4. PICK step \in {"fillFromDeposit", "markProcessed"} :
        Goto(p, [job[p] EXCEPT !.step = step])
  BY DEF RecordDeposit
<1>5. PICK j : j = [job[p] EXCEPT !.step = step]
  OBVIOUS
<1>6. j \in Job /\ j.step = step /\ j.session \in Sessions
  BY <1>2, <1>5 DEF GatedJob, Job, JobStep
<1>7. GatedJob(j)
  BY <1>6 DEF GatedJob
<1> QED BY <1>1, <1>2, <1>3, <1>4, <1>5, <1>6, <1>7, TradeGoes

LEMMA FillFromDepositGated ==
  ASSUME IInv, UNCHANGED onboardingVars, NEW p \in Workers, FillFromDeposit(p)
  PROVE  Move /\ IInv'
<1>1. job[p].step = "fillFromDeposit" /\ UNCHANGED <<everHeld, quotes, provider, inbox>>
  BY DEF FillFromDeposit, onboardingVars
<1>2. O!Idle(p) /\ GatedJob(job[p]) /\ call[p].step = "idle" /\ job[p].session \in Sessions
  BY <1>1, TradeWorker DEF Waiting, GatedJob, InSession
<1>3. SettlementTables' /\ RowsGated'
  <2>1. PICK o : o = job[p].order
    OBVIOUS
  <2>2. PICK row : row = [orders[o] EXCEPT !.status = "filled"]
    OBVIOUS
  <2>3. ASSUME o \in DOMAIN orders PROVE row \in Order /\ row.session = orders[o].session
    <3>1. orders[o] \in Order
      BY <2>3, RowSessions DEF IInv
    <3> QED BY <2>2, <3>1 DEF Order
  <2>4. orders' = [orders EXCEPT ![o] = row]
    BY <2>1, <2>2 DEF FillFromDeposit
  <2> QED BY <1>1, <2>3, <2>4, OrderRowUpdated
<1>4. PICK j : j = [job[p] EXCEPT !.step = "depositMatched"]
  OBVIOUS
<1>5. GatedJob(j) /\ j.step = "depositMatched"
  <2>1. j \in Job /\ j.step = "depositMatched" /\ j.session \in Sessions
    BY <1>2, <1>4 DEF GatedJob, Job, JobStep
  <2> QED BY <2>1 DEF GatedJob
<1>6. PICK c \in CodeCalls : c = [to |-> "order_filled", reason |-> "fiat_deposit_matched"]
  BY DEF CodeCalls
<1>7. CallFrom(p, job[p].session, c.to, c.reason, j)
  BY <1>4, <1>6 DEF FillFromDeposit
<1> QED BY <1>2, <1>3, <1>5, <1>7, TradeAsks DEF Waiting

LEMMA DepositMatchedGated ==
  ASSUME IInv, UNCHANGED onboardingVars, NEW p \in Workers, DepositMatched(p)
  PROVE  Move /\ IInv'
<1>1. job[p].step = "depositMatched" /\ UNCHANGED <<onboardingVars, tables>>
  BY DEF DepositMatched
<1>2. O!Idle(p) /\ GatedJob(job[p])
  BY <1>1, TradeWorker
<1>3. CASE ResultTaken(p, "ok") /\ Goto(p, [job[p] EXCEPT !.step = "markProcessed"])
  <2>1. PICK e \in Outcome : ResultTaken(p, e)
    BY <1>3, TradeThrew
  <2>2. PICK j : j = [job[p] EXCEPT !.step = "markProcessed"]
    OBVIOUS
  <2>3. GatedJob(j) /\ j.step = "markProcessed"
    <3>1. j \in Job /\ j.step = "markProcessed"
      BY <1>2, <2>2 DEF GatedJob, Job, JobStep
    <3> QED BY <3>1 DEF GatedJob, InSession
  <2> QED BY <1>1, <1>2, <1>3, <2>1, <2>2, <2>3, TradeResumes
<1>4. CASE Threw(p) /\ Finish(p)
  BY <1>1, <1>4, LastAnswer
<1> QED BY <1>3, <1>4 DEF DepositMatched

LEMMA MarkProcessedGated ==
  ASSUME IInv, UNCHANGED onboardingVars, NEW p \in Workers, MarkProcessed(p)
  PROVE  Move /\ IInv'
<1>1. job[p].step = "markProcessed" /\ UNCHANGED <<everHeld, quotes, orders, provider>>
  BY DEF MarkProcessed, onboardingVars
<1>2. call[p].step = "idle"
  BY <1>1, TradeWorker DEF Waiting
<1>3. inbox' \in Seq(InboxEntry)
  <2>1. PICK i : i = job[p].inbox
    OBVIOUS
  <2>2. PICK row : row = [inbox[i] EXCEPT !.processed = TRUE]
    OBVIOUS
  <2>3. ASSUME i \in DOMAIN inbox PROVE row \in InboxEntry
    <3>1. inbox[i] \in InboxEntry
      BY <2>3, RowIn DEF IInv, SettlementTables
    <3> QED BY <2>2, <3>1 DEF InboxEntry
  <2>4. inbox' = [inbox EXCEPT ![i] = row]
    BY <2>1, <2>2 DEF MarkProcessed
  <2> QED BY <2>3, <2>4, RowUpdated DEF IInv, SettlementTables
<1>4. SettlementTables' /\ RowsGated'
  BY <1>1, <1>3, WorldWritten DEF IInv, SettlementTables
<1> QED BY <1>1, <1>2, <1>4, LastStep DEF MarkProcessed

-----------------------------------------------------------------------------
\* The world outside

LEMMA WorldGated ==
  ASSUME IInv, UNCHANGED <<serviceVars, onboardingVars, job>>, SettlementTables', RowsGated'
  PROVE  Move /\ IInv'
<1>1. Move /\ UNCHANGED everHeld /\ FactsGrow /\ call' = call
  BY DEF Move, FactsGrow, serviceVars, onboardingVars
<1>2. GateInv'
  BY <1>1, MoveGates DEF IInv
<1>3. OnboardingTables' /\ FactsHeld' /\ KycJobs'
  BY DEF IInv, OnboardingTables, FactsHeld, KycJobs, KycJobOK, onboardingVars
<1>4. TradeJobs'
  BY <1>1 DEF IInv, TradeJobs, GatedJob, May, Gated
<1>5. CallsInOrder'
  <2>1. \A p \in Workers : OneCall(p)'
    BY <1>1 DEF IInv, CallsInOrder, OneCall, O!Idle, Idle, onboardingVars
  <2>2. \A p \in Workers : Requested(p)'
    BY <1>1, RequestedStays
  <2> QED BY <2>1, <2>2 DEF CallsInOrder
<1> QED BY <1>1, <1>2, <1>3, <1>4, <1>5 DEF IInv

LEMMA QuoteLapsesGated ==
  ASSUME IInv, UNCHANGED onboardingVars, NEW q \in Ids(quotes), QuoteLapses(q)
  PROVE  Move /\ IInv'
<1>1. UNCHANGED <<serviceVars, job>> /\ UNCHANGED <<everHeld, orders, provider, inbox>>
  BY DEF QuoteLapses, serviceVars, onboardingVars
<1>2. PICK row : row = [quotes[q] EXCEPT !.lapsed = TRUE]
  OBVIOUS
<1>3. row \in Quote /\ row.session = quotes[q].session
  <2>1. quotes[q] \in Quote
    BY RowSessions DEF IInv, Ids
  <2> QED BY <1>2, <2>1 DEF Quote
<1>4. quotes' = [quotes EXCEPT ![q] = row]
  BY <1>2 DEF QuoteLapses
<1>5. SettlementTables' /\ RowsGated'
  BY <1>1, <1>3, <1>4, QuoteRowUpdated
<1> QED BY <1>1, <1>5, WorldGated

LEMMA ProviderKeeps ==
  ASSUME IInv, UNCHANGED onboardingVars, NEW k \in Ids(provider),
         \/ \E v \in {"cleared", "rejected"} : ProviderDecides(k, v)
         \/ ProviderFills(k)
  PROVE  Move /\ IInv'
<1>1. UNCHANGED <<serviceVars, job>> /\ UNCHANGED <<everHeld, quotes, orders, inbox>>
  BY DEF ProviderDecides, ProviderFills, serviceVars, onboardingVars
<1>2. PICK old : old = provider[k]
  OBVIOUS
<1>3. old \in ProviderOrder
  BY <1>2, RowIn DEF IInv, SettlementTables, Ids
<1>4. PICK row : /\ \/ \E v \in {"cleared", "rejected"} : row = [old EXCEPT !.compliance = v]
                    \/ row = [old EXCEPT !.status = "filled"]
                 /\ provider' = [provider EXCEPT ![k] = row]
  <2>1. ASSUME NEW v \in {"cleared", "rejected"}, ProviderDecides(k, v)
        PROVE  provider' = [provider EXCEPT ![k] = [old EXCEPT !.compliance = v]]
    BY <1>2, <2>1 DEF ProviderDecides
  <2>2. CASE ProviderFills(k)
    BY <1>2, <2>2 DEF ProviderFills
  <2> QED BY <2>1, <2>2
<1>5. row \in ProviderOrder
  BY <1>3, <1>4 DEF ProviderOrder, ComplianceStatus
<1>6. provider' \in Seq(ProviderOrder)
  BY <1>4, <1>5, RowUpdated DEF IInv, SettlementTables
<1>7. SettlementTables' /\ RowsGated'
  BY <1>1, <1>6, WorldWritten DEF IInv, SettlementTables
<1> QED BY <1>1, <1>7, WorldGated

LEMMA TradeFailsKeeps ==
  ASSUME IInv, UNCHANGED onboardingVars, NEW p \in Workers, JobFails(p)
  PROVE  Move /\ IInv'
<1>1. /\ job[p].step # "none" /\ call[p].step = "idle" /\ Finish(p)
      /\ UNCHANGED serviceVars /\ UNCHANGED <<tables, everHeld>>
  BY DEF JobFails, Idle, onboardingVars
<1> QED BY <1>1, TablesUntouched, LastStep

LEMMA SettlementKeeps ==
  ASSUME IInv, SettlementStep PROVE Move /\ IInv'
<1>0. UNCHANGED onboardingVars
  BY DEF SettlementStep
<1>1. ASSUME NEW p \in Workers, StartJob(p) PROVE Move /\ IInv'
  <2>1. O!Idle(p)
    BY <1>1 DEF StartJob
  <2>2. ASSUME NEW s \in Sessions, RequestQuote(p, s) PROVE Move /\ IInv'
    BY <1>0, <2>1, <2>2, RequestQuoteGated
  <2>3. ASSUME NEW q \in Ids(quotes), AcceptQuote(p, q) PROVE Move /\ IInv'
    BY <1>0, <2>1, <2>3, AcceptQuoteGated
  <2>4. ASSUME NEW s \in Sessions, NEW q \in Ids(quotes), SubmitOrder(p, s, q)
        PROVE  Move /\ IInv'
    BY <1>0, <2>1, <2>4, SubmitOrderGated
  <2>5. ASSUME NEW o \in Ids(orders), PollOrder(p, o) PROVE Move /\ IInv'
    BY <1>0, <2>1, <2>5, PollOrderGated
  <2>6. ASSUME NEW d \in Deposits, ReceiveDeposit(p, d) PROVE Move /\ IInv'
    BY <1>0, <2>1, <2>6, ReceiveDepositGated
  <2> QED BY <1>1, <2>2, <2>3, <2>4, <2>5, <2>6 DEF StartJob
<1>2. ASSUME NEW p \in Workers, JobStepOf(p) PROVE Move /\ IInv'
  <2>1. CASE ExpireQuotes(p) \/ QuoteRequested(p) \/ CreateQuote(p) \/ WriteAccepted(p)
    BY <1>0, <2>1, ExpireQuotesGated, QuoteRequestedGated, CreateQuoteGated, WriteAcceptedGated
  <2>2. CASE QuoteReady(p) \/ OrderSubmitted(p) \/ OrderMoved(p)
    <3>1. /\ job[p].step # "none" /\ UNCHANGED <<onboardingVars, tables>>
          /\ ResultTaken(p, "ok") \/ Threw(p)
          /\ Finish(p)
      BY <1>0, <2>2 DEF QuoteReady, OrderSubmitted, OrderMoved
    <3> QED BY <3>1, LastAnswer
  <2>3. CASE PlaceOrder(p) \/ CreateOrder(p) \/ AskProvider(p)
    BY <1>0, <2>3, PlaceOrderGated, CreateOrderGated, AskProviderGated
  <2>4. CASE ClearOrder(p) \/ RejectOrder(p) \/ FillOrder(p)
    BY <1>0, <2>4, ClearOrderGated, RejectOrderGated, FillOrderGated
  <2>5. CASE FindAccount(p) \/ FindSessions(p) \/ FindOrder(p)
    BY <1>0, <2>5, DepositStepKeeps
  <2>6. CASE RecordDeposit(p) \/ FillFromDeposit(p) \/ DepositMatched(p) \/ MarkProcessed(p)
    BY <1>0, <2>6, RecordDepositGated, FillFromDepositGated, DepositMatchedGated, MarkProcessedGated
  <2> QED BY <1>2, <2>1, <2>2, <2>3, <2>4, <2>5, <2>6 DEF JobStepOf
<1>3. ASSUME NEW p \in Workers, JobFails(p) PROVE Move /\ IInv'
  BY <1>0, <1>3, TradeFailsKeeps
<1>4. ASSUME NEW q \in Ids(quotes), QuoteLapses(q) PROVE Move /\ IInv'
  BY <1>0, <1>4, QuoteLapsesGated
<1>5. ASSUME NEW k \in Ids(provider),
             \/ \E v \in {"cleared", "rejected"} : ProviderDecides(k, v)
             \/ ProviderFills(k)
      PROVE  Move /\ IInv'
  BY <1>0, <1>5, ProviderKeeps
<1> QED BY <1>1, <1>2, <1>3, <1>4, <1>5 DEF SettlementStep

-----------------------------------------------------------------------------
(***************************************************************************)
(* Theorems                                                                *)
(***************************************************************************)

LEMMA NextKeeps == IInv /\ [Next]_vars => Move /\ IInv'
<1> SUFFICES ASSUME IInv, [Next]_vars PROVE Move /\ IInv'
  OBVIOUS
<1>1. CASE OnboardingStep
  BY <1>1, OnboardingKeeps
<1>2. CASE SettlementStep
  BY <1>2, SettlementKeeps
<1>3. CASE UNCHANGED vars
  <2>1. UNCHANGED <<serviceVars, onboardingVars, job>> /\ UNCHANGED <<tables, everHeld>>
    BY <1>3 DEF vars, onboardingVars, settlementVars, tables
  <2> QED BY <2>1, TablesUntouched, WorldGated
<1> QED BY <1>1, <1>2, <1>3 DEF Next

\* The whole server, whatever its handlers do, is a caller the transition
\* service of SessionTransitions is about: the routine's theorems hold of it.
THEOREM ImplementsService == Spec => ServiceSpec
<1>1. Init => Service!Init
  BY DEF Init, O!Init, Service!Init, O!IdleFrame, Service!IdleFrame
<1>2. IInv /\ [Next]_vars => [Service!Next]_(Service!vars)
  BY NextKeeps, MoveIsStep DEF IInv
<1>3. IInv /\ [Next]_vars => IInv'
  BY NextKeeps
<1> QED BY <1>1, <1>2, <1>3, InvInit, PTL DEF Spec, ServiceSpec, Service!Spec

\* No order is placed with the provider, and no order row made, for a user who
\* has not passed KYC, the partner and the bank, although submitOrder looks at
\* none of it.
THEOREM OrdersGated == Spec => []OrdersBehindGates
<1>1. IInv => OrdersBehindGates
  BY DEF IInv, RowsGated, TradeJobs, GatedJob, May, Gated, OrdersBehindGates, Passed, Ids
<1>2. IInv /\ [Next]_vars => IInv'
  BY NextKeeps
<1> QED BY <1>1, <1>2, InvInit, PTL DEF Spec

-----------------------------------------------------------------------------
(***************************************************************************)
(* What the trade promises, with onboarding running beside it              *)
(***************************************************************************)

\* A handler of Onboarding asks for no state that a session is filled in.
LEMMA NextSessionElsewhere ==
  ASSUME IInv, NEW p \in Workers, O!NextSession(p)
  PROVE  ServiceMoves
<1>1. kycJob[p].loop \in O!Loop /\ kycJob[p].todo \subseteq Sessions
  BY KycWorker DEF O!NextSession, KycJobOK, O!Job
<1>2. PICK c \in CodeCalls : c.to = kycJob[p].loop /\ c.reason = O!Reason(kycJob[p].loop)
  BY <1>1, LoopCalls
<1>3. /\ c.to \in SessionState /\ c.reason \in TransitionReason
      /\ c.to # "order_filled" /\ c.to # "failed"
  BY <1>1, <1>2, CodeCallTypes DEF O!Loop
<1>4. ASSUME NEW s \in kycJob[p].todo, O!Ask(p, s, kycJob[p].loop, O!Reason(kycJob[p].loop))
      PROVE  ServiceMoves
  <2>1. s \in Sessions /\ Ask(p, s, c.to, c.reason)
    BY <1>1, <1>2, <1>4, OnboardingService
  <2> QED BY <1>3, <2>1, AskMoves
<1>5. CASE UNCHANGED O!serviceVars
  BY <1>5 DEF O!serviceVars, serviceVars, ServiceMoves
<1> QED BY <1>4, <1>5 DEF O!NextSession

LEMMA OnboardingElsewhere ==
  ASSUME IInv, OnboardingStep PROVE Elsewhere
<1>0. UNCHANGED <<tables, job>>
  BY DEF OnboardingStep, settlementVars
<1>1. ASSUME NEW s \in Sessions, O!OpenSession(s) PROVE ServiceMoves
  BY <1>1, OnboardingService DEF O!OpenSession, ServiceMoves
<1>2. ASSUME NEW p \in Workers, O!TransitionStep(p) PROVE ServiceMoves
  <2>1. CallGoesOn(p)
    BY <1>2, OnboardingService DEF O!TransitionStep, CallGoesOn
  <2> QED BY <2>1 DEF ServiceMoves
<1>3. ASSUME NEW p \in Workers, O!SessionMoved(p) PROVE ServiceMoves
  <2>1. PICK e \in Outcome : O!ResultTaken(p, e)
    BY <1>3 DEF O!SessionMoved, O!Outcome, Outcome
  <2> QED BY <2>1, OnboardingService DEF ServiceMoves
<1>4. ASSUME NEW p \in Workers, QueryFails(p) PROVE ServiceMoves
  BY <1>4 DEF ServiceMoves
<1>5. ASSUME UNCHANGED O!serviceVars PROVE ServiceMoves
  BY <1>5 DEF O!serviceVars, serviceVars, ServiceMoves
<1>6. ASSUME NEW p \in Workers, O!Work(p) PROVE ServiceMoves
  <2>1. CASE O!TransitionStep(p) \/ O!NextSession(p) \/ O!SessionMoved(p)
    BY <1>2, <1>3, <2>1, NextSessionElsewhere
  <2>2. CASE \/ O!FindSessions(p) \/ O!SaveProfile(p) \/ O!CreateSubmission(p)
             \/ O!FindAccount(p) \/ O!SaveAccount(p)
             \/ \E a \in PartnerAnswers : O!SubmitPack(p, a)
             \/ \E r \in BankReplies : O!Provision(p, r)
    <3>1. UNCHANGED O!serviceVars
      BY <2>2 DEF O!FindSessions, O!SaveProfile, O!CreateSubmission, O!FindAccount, O!SaveAccount,
         O!SubmitPack, O!Provision
    <3> QED BY <1>5, <3>1
  <2> QED BY <1>6, <2>1, <2>2 DEF O!Work
<1>7. ASSUME NEW p \in Workers, (\E u \in Users : O!KycWebhook(p, u)) \/ O!JobFails(p)
      PROVE  ServiceMoves
  <2>1. UNCHANGED O!serviceVars
    BY <1>7 DEF O!KycWebhook, O!JobFails
  <2> QED BY <1>5, <2>1
<1>8. ServiceMoves
  BY <1>1, <1>4, <1>6, <1>7 DEF OnboardingStep
<1> QED BY <1>0, <1>8 DEF Elsewhere

LEMMA StepKinds ==
  ASSUME IInv, [Next]_vars PROVE TradeStep \/ Elsewhere
<1>1. CASE OnboardingStep
  BY <1>1, OnboardingElsewhere
<1>2. CASE SettlementStep
  <2>1. ASSUME NEW p \in Workers, StartJob(p) \/ JobStepOf(p) \/ JobFails(p) PROVE TradeStep
    BY <2>1 DEF StartJob, JobBegins, TradeStep
  <2> QED BY <1>2, <2>1 DEF SettlementStep, TradeStep
<1>3. CASE UNCHANGED vars
  BY <1>3 DEF vars, settlementVars, Elsewhere, ServiceMoves
<1> QED BY <1>1, <1>2, <1>3 DEF Next

LEMMA TradeBegins == Init => DeliveryInv
<1> SUFFICES ASSUME Init PROVE DeliveryInv
  OBVIOUS
<1>1. sessionState \in [Sessions -> (SessionState \cup {Absent}) \ {"order_filled", "failed"}]
  BY AbsentAssumption DEF Init, O!Init, SessionState
<1>2. call = [p \in Workers |-> IdleFrame]
  BY DEF Init, O!Init, O!IdleFrame, IdleFrame
<1> QED BY <1>1, <1>2, NothingSettled DEF Init

LEMMA TradeInvariance == Spec => []DeliveryInv
<1>1. IInv /\ [Next]_vars => IInv'
  BY NextKeeps
<1>2. DeliveryInv /\ IInv /\ [Next]_vars => DeliveryInv'
  BY StepKinds, DeliveryKept
<1> QED BY <1>1, <1>2, InvInit, TradeBegins, PTL DEF Spec

\* Also while sessions are opened and onboarded beside the trade, and with
\* the flags the handlers really wrote, no session is filled without a
\* settlement ...
THEOREM ServerFillsAreSettled == Spec => []FilledOnSettlement
<1>1. DeliveryInv => FilledOnSettlement
  BY OutcomesFromInv DEF DeliveryInv
<1> QED BY <1>1, TradeInvariance, PTL

\* ... none is failed without a rejection ...
THEOREM ServerFailuresAreRejections == Spec => []FailedOnRejection
<1>1. DeliveryInv => FailedOnRejection
  BY OutcomesFromInv DEF DeliveryInv
<1> QED BY <1>1, TradeInvariance, PTL

\* ... no order row says of the compliance checkpoint what the provider did
\* not decide ...
THEOREM ServerRowsMatch == Spec => []RowsMatchProvider
<1>1. DeliveryInv => RowsMatchProvider
  BY RowsMatchFromInv DEF DeliveryInv
<1> QED BY <1>1, TradeInvariance, PTL

\* ... and no off-ramp order is filled without a credited delivery of its own.
THEOREM ServerFillsDelivered == Spec => []FillsAreDelivered
BY FillsDeliveredFromInv, TradeInvariance, PTL

\* No session of the server is beyond a gate its user has never passed, as long
\* as the guards are strict: what SessionTransitions has for arbitrary callers.
THEOREM ServerGatesHold == Spec => []OnboardingGates
<1>1. IInv => OnboardingGates
  BY GatesFromInv DEF IInv
<1>2. IInv /\ [Next]_vars => IInv'
  BY NextKeeps
<1> QED BY <1>1, <1>2, InvInit, PTL DEF Spec

\* Every change of a session is an edge of the graph, and none leaves a terminal
\* state, if the calls for one session take turns: whatever handlers call, reply
\* late or fail half-way.
THEOREM ServerStaysOnGraph == Spec /\ []OneCallPerSession => [][OnGraph]_vars
<1>1. Init => SerialInv
  BY TradeBegins, SerialAtFirst DEF DeliveryInv, TradeInv, Typed, Init, O!Init, O!IdleFrame, IdleFrame
<1>2. DeliveryInv /\ IInv /\ SerialInv /\ OneCallPerSession /\ [Next]_vars
        => SerialInv' /\ OnGraph
  <2> SUFFICES ASSUME DeliveryInv, IInv, SerialInv, OneCallPerSession, [Next]_vars
               PROVE  SerialInv' /\ OnGraph
    OBVIOUS
  <2>1. (TradeStep \/ Elsewhere) /\ DeliveryInv'
    BY StepKinds, DeliveryKept
  <2>2. CallTypes'
    BY <2>1 DEF DeliveryInv, TradeInv, Typed
  <2> QED BY <2>1, <2>2, SerialKept
<1>3. IInv /\ [Next]_vars => IInv'
  BY NextKeeps
<1> QED BY <1>1, <1>2, <1>3, InvInit, TradeInvariance, PTL DEF Spec

=============================================================================
