---------------------- MODULE SessionTransitionsProofs ----------------------
(***************************************************************************)
(* Proofs about the transition service, for any sessions, users, workers,  *)
(* directions and calls.  What each step keeps of the gates is proved in   *)
(* SessionGatesProofs; here the steps are those of callers that may ask    *)
(* for anything.  The last section is about calls that do not overlap.     *)
(***************************************************************************)
EXTENDS SessionTransitions, SessionGatesProofs

LEMMA GatesInit == Init => GateInv
BY GatesAtFirst DEF Init

LEMMA ServiceStepGates ==
  ASSUME GateInv, NEW p \in Workers, ServiceStep(p), UNCHANGED everHeld
  PROVE  GateInv'
<1>1. CASE FindSession(p)
  BY <1>1, FindSessionGates
<1>2. CASE LoadUserFlags(p)
  BY <1>2, LoadFlagsGates DEF LoadUserFlags
<1>3. CASE UpdateState(p)
  BY <1>3, UpdateStateGates
<1>4. CASE AppendEvent(p)
  BY <1>4, AppendEventGates
<1>5. CASE QueryFails(p)
  BY <1>5, QueryFailsGates
<1>6. CASE TakeResult(p)
  BY <1>6, ResultGates DEF TakeResult
<1>7. ASSUME NEW s \in Sessions, NEW c \in Calls, Call(p, s, c)
      PROVE  GateInv'
  <2>1. c.to \in SessionState /\ c.reason \in TransitionReason
    BY CallsAssumption
  <2>2. Ask(p, s, c.to, c.reason)
    BY <1>7 DEF Call, Ask
  <2> QED BY <2>1, <2>2, AskGates
<1> QED
  BY <1>1, <1>2, <1>3, <1>4, <1>5, <1>6, <1>7 DEF ServiceStep, Advance

LEMMA GatesNext == GateInv /\ [Next]_vars => GateInv'
<1> SUFFICES ASSUME GateInv, [Next]_vars
             PROVE  GateInv'
  OBVIOUS
<1>1. CASE \E p \in Workers : ServiceStep(p) /\ UNCHANGED everHeld
  BY <1>1, ServiceStepGates
<1>2. CASE \E s \in Sessions : CreateSession(s) /\ UNCHANGED everHeld
  BY <1>2, CreateSessionGates
<1>3. ASSUME NEW u \in Users, NEW f \in UserFlag, Establish(u, f)
      PROVE  GateInv'
  <2>1. UNCHANGED <<sessionState, audited, call>>
    BY <1>3 DEF Establish, serviceVars
  <2>2. /\ everHeld' \in [Users -> SUBSET UserFlag]
        /\ \A v \in Users : everHeld[v] \subseteq everHeld'[v]
    BY <1>3 DEF Establish, GateInv, ServiceTypes
  <2> QED BY <2>1, <2>2, HeldGrowsGates
<1>4. CASE UNCHANGED vars
  BY <1>4, GatesKept DEF vars, serviceVars
<1> QED BY <1>1, <1>2, <1>3, <1>4 DEF Next

\* Every variable keeps to its type: in particular a call in flight names a
\* session and a target, and a finished one has one of the outcomes.
THEOREM TypeCorrect == Spec => []TypeOK
<1>1. GateInv => TypeOK
  BY DEF GateInv, ServiceTypes, TypeOK
<1> QED BY <1>1, GatesInit, GatesNext, PTL DEF Spec

\* With strict guards no session is beyond a gate (KYC, hand-off, account,
\* wallet) its user has never passed, however the calls for it overlap or fail.
THEOREM GatesHold == Spec => []OnboardingGates
BY GatesFromInv, GatesInit, GatesNext, PTL DEF Spec

\* What one step may do to a session that exists.
JumpIsStale ==
  \A s \in Sessions :
    /\ sessionState[s] # Absent
    /\ sessionState'[s] # sessionState[s]
    => \/ /\ sessionState[s] \notin TERMINAL_STATES
          /\ isGraphEdgeAllowed(sessionState[s], sessionState'[s], RelaxStateGuards)
       \/ \E p \in Workers :
            /\ call[p].step = "updateState"
            /\ call[p].session = s
            /\ call[p].from # sessionState[s]

LEMMA StepJumpsOnlyStale == GateInv /\ [Next]_vars => JumpIsStale
<1> SUFFICES ASSUME GateInv, [Next]_vars,
                    NEW s \in Sessions,
                    sessionState[s] # Absent,
                    sessionState'[s] # sessionState[s],
                    sessionState[s] \in TERMINAL_STATES
                    \/ ~ isGraphEdgeAllowed(sessionState[s], sessionState'[s], RelaxStateGuards)
             PROVE  \E p \in Workers :
                      /\ call[p].step = "updateState"
                      /\ call[p].session = s
                      /\ call[p].from # sessionState[s]
  BY DEF JumpIsStale
<1>1. PICK p \in Workers : UpdateState(p)
  <2>1. CASE \E t \in Sessions : CreateSession(t)
    BY <2>1 DEF CreateSession, GateInv, ServiceTypes
  <2>2. CASE UNCHANGED sessionState
    BY <2>2
  <2> QED
    BY <2>1, <2>2
       DEF Next, ServiceStep, Advance, FindSession, LoadUserFlags, LoadFlags,
           AppendEvent, QueryFails, TakeResult, Call, Establish,
           vars, serviceVars
<1>2. /\ call[p].step = "updateState" /\ call[p] \in CallFrame /\ FrameOK(call[p])
  BY <1>1, AwaitingFrame DEF UpdateState, Awaited, GateInv, ServiceTypes, FramesOK
<1>3. call[p].session = s /\ sessionState'[s] = call[p].to
  BY <1>1, <1>2 DEF UpdateState, GateInv, ServiceTypes, CallFrame
<1>4. call[p].from # sessionState[s]
  BY <1>2, <1>3 DEF FrameOK
<1> QED BY <1>2, <1>3, <1>4

\* Whenever a write takes a session off the graph, or out of a terminal
\* state, the writer had read the session in a state it is no longer in.
THEOREM JumpsAreStale == Spec => OnlyStaleWritesJump
<1>1. GateInv /\ [Next]_vars => [JumpIsStale]_vars
  BY StepJumpsOnlyStale
<1>2. Spec => [][JumpIsStale]_vars
  BY <1>1, GatesInit, GatesNext, PTL DEF Spec
<1> QED BY <1>2 DEF OnlyStaleWritesJump, JumpIsStale

-----------------------------------------------------------------------------
(***************************************************************************)
(* Calls that do not overlap                                               *)
(*                                                                         *)
(* The code has no lock on a session.  Had it one, held for the length of  *)
(* a call, and were no call left half-way, the service would keep what     *)
(* SessionLifecycle promises, however many workers it has.                 *)
(***************************************************************************)

OneCallPerSession ==
  \A p, q \in Workers :
    InFlight(p) /\ InFlight(q) /\ call[p].session = call[q].session => p = q

\* What was read is still so.
FreshFrame(f) ==
  /\ f.step = "loadFlags" => f.from = sessionState[f.session]
  /\ f.step = "updateState" =>
       /\ f.from = sessionState[f.session]
       /\ f.from \in SessionState \ {f.to}
       /\ Lifecycle!NeededFlag(DirectionOf[f.session], f.from, f.to) \subseteq everHeld[UserOf[f.session]]
  /\ f.step = "appendEvent" => f.to = sessionState[f.session]

AllFresh == \A p \in Workers : FreshFrame(call[p])

\* Only the event that is about to be written is missing.
Recorded ==
  \A s \in Sessions :
    (\A p \in Workers : call[p].step = "appendEvent" => call[p].session # s)
      => audited[s] = sessionState[s]

LockInv == GateInv /\ AllFresh /\ Recorded

LEMMA LockInit == Init => LockInv
<1> SUFFICES ASSUME Init PROVE LockInv
  OBVIOUS
<1>1. \A p \in Workers : call[p].step = "idle"
  BY DEF Init, IdleFrame
<1> QED BY <1>1, GatesInit DEF Init, LockInv, AllFresh, FreshFrame, Recorded

\* The facts an accepted step needs are among those that were read.
LEMMA AcceptedNeeds ==
  ASSUME NEW from, NEW to, NEW s, NEW held, NEW reason,
         assertCanTransition(from, to, Context(s, held), reason, RelaxStateGuards) = "ok"
  PROVE  Lifecycle!NeededFlag(DirectionOf[s], from, to) \subseteq held
<1>1. checkPrerequisites(from, to, Context(s, held), reason, RelaxStateGuards) = {}
  BY DEF assertCanTransition
<1>2. /\ to = "kyc_ok" => "kycApproved" \in held
      /\ to = "compliance_handoff_ok" => "complianceSubmissionApproved" \in held
      /\ to = "bank_link_required" => "namedAccountActive" \in held
      /\ /\ to = "quote_requested"
         /\ ~ RelaxStateGuards
         /\ \/ DirectionOf[s] = "wallet_to_wallet"
            \/ from = "wallet_required"
            \/ DirectionOf[s] = "on_ramp" /\ from = "bank_link_required"
         => "hasWallet" \in held
  BY <1>1 DEF checkPrerequisites, needsWallet, Prerequisite, Context
<1>3. CASE to \in {"kyc_ok", "compliance_handoff_ok", "bank_link_required"}
  BY <1>2, <1>3 DEF Lifecycle!NeededFlag
<1>4. CASE to \notin {"kyc_ok", "compliance_handoff_ok", "bank_link_required"}
  BY <1>2, <1>4 DEF Lifecycle!NeededFlag
<1> QED BY <1>3, <1>4

\* A step that writes only the frame of worker p.
LEMMA FrameFresh ==
  ASSUME LockInv, NEW p \in Workers, NEW f, call' = [call EXCEPT ![p] = f],
         UNCHANGED <<sessionState, everHeld, audited>>,
         FreshFrame(f),
         call[p].step # "appendEvent"
  PROVE  AllFresh' /\ Recorded'
<1>1. \A q \in Workers : call'[q] = IF q = p THEN f ELSE call[q]
  BY DEF LockInv, GateInv, ServiceTypes
<1>2. \A q \in Workers : FreshFrame(call'[q])
  BY <1>1 DEF LockInv, AllFresh
<1>3. AllFresh'
  BY <1>2 DEF AllFresh, FreshFrame
<1>4. Recorded'
  BY <1>1 DEF LockInv, Recorded
<1> QED BY <1>3, <1>4

\* Facts learnt leave what was read fresh.
LEMMA GrowthFresh ==
  ASSUME LockInv, UNCHANGED <<sessionState, call, audited>>,
         \A u \in Users : everHeld[u] \subseteq everHeld'[u]
  PROVE  AllFresh' /\ Recorded'
<1>1. ASSUME NEW p \in Workers, call[p].step = "updateState"
      PROVE  UserOf[call[p].session] \in Users
  <2>1. call[p].session \in Sessions
    BY <1>1, AwaitingFrame DEF LockInv, GateInv, ServiceTypes, Awaited, CallFrame
  <2> QED BY <2>1, UserOfAssumption
<1>2. AllFresh'
  BY <1>1 DEF LockInv, AllFresh, FreshFrame
<1> QED BY <1>2 DEF LockInv, Recorded

LEMMA FindSessionFresh ==
  ASSUME LockInv, NEW p \in Workers, FindSession(p), UNCHANGED everHeld
  PROVE  AllFresh' /\ Recorded'
<1>1. call[p].step = "findSession" /\ call[p] \in CallFrame
  BY AwaitingFrame DEF FindSession, Awaited, LockInv, GateInv, ServiceTypes
<1>2. PICK f : f = StateFound(call[p], sessionState[call[p].session])
  OBVIOUS
<1>3. FreshFrame(f)
  <2>1. CASE f = Returned("session_not_found") \/ f = Returned("ok")
    BY <2>1 DEF Returned, IdleFrame, FreshFrame
  <2>2. CASE f = [call[p] EXCEPT !.step = "loadFlags", !.from = sessionState[call[p].session]]
    <3>1. f.step = "loadFlags" /\ f.from = sessionState[f.session]
      BY <1>1, <2>2 DEF CallFrame
    <3> QED BY <3>1 DEF FreshFrame
  <2> QED BY <1>2, <2>1, <2>2 DEF StateFound
<1> QED BY <1>1, <1>2, <1>3, FrameFresh DEF FindSession

LEMMA LoadUserFlagsFresh ==
  ASSUME LockInv, NEW p \in Workers, LoadUserFlags(p), UNCHANGED everHeld
  PROVE  AllFresh' /\ Recorded'
<1>1. /\ call[p].step = "loadFlags" /\ call[p] \in CallFrame
      /\ call[p].from = sessionState[call[p].session]
      /\ call[p].from \in SessionState \ {call[p].to}
  BY AwaitingFrame
     DEF LoadUserFlags, Awaited, LockInv, GateInv, ServiceTypes, FramesOK, FrameOK, AllFresh, FreshFrame
<1>2. PICK held \in SUBSET everHeld[UserOf[call[p].session]] : LoadFlags(p, held)
  BY DEF LoadUserFlags
<1>3. CASE Verdict(call[p], held) = "ok"
  <2>1. PICK f : f = [call[p] EXCEPT !.step = "updateState"]
    OBVIOUS
  <2>2. /\ f.step = "updateState" /\ f.from = call[p].from /\ f.to = call[p].to
        /\ f.session = call[p].session
    BY <1>1, <2>1 DEF CallFrame
  <2>3. Lifecycle!NeededFlag(DirectionOf[f.session], f.from, f.to) \subseteq held
    BY <1>3, <2>2, AcceptedNeeds DEF Verdict
  <2>4. FreshFrame(f)
    BY <1>1, <1>2, <2>2, <2>3 DEF FreshFrame
  <2>5. call' = [call EXCEPT ![p] = f]
    BY <1>2, <1>3, <2>1 DEF LoadFlags
  <2> QED BY <1>1, <1>2, <2>4, <2>5, FrameFresh DEF LoadFlags
<1>4. CASE Verdict(call[p], held) # "ok"
  <2>1. PICK f : f = Returned(Verdict(call[p], held))
    OBVIOUS
  <2>2. FreshFrame(f)
    BY <2>1 DEF Returned, IdleFrame, FreshFrame
  <2>3. call' = [call EXCEPT ![p] = f]
    BY <1>2, <1>4, <2>1 DEF LoadFlags
  <2> QED BY <1>1, <1>2, <2>2, <2>3, FrameFresh DEF LoadFlags
<1> QED BY <1>3, <1>4

LEMMA UpdateStateFresh ==
  ASSUME LockInv, OneCallPerSession, NEW p \in Workers, UpdateState(p), UNCHANGED everHeld
  PROVE  AllFresh' /\ Recorded'
<1>1. call[p].step = "updateState" /\ call[p] \in CallFrame /\ InFlight(p)
  BY AwaitingFrame DEF UpdateState, Awaited, InFlight, LockInv, GateInv, ServiceTypes
<1>2. PICK f : f = [call[p] EXCEPT !.step = "appendEvent"]
  OBVIOUS
<1>3. /\ f.step = "appendEvent" /\ f.to = call[p].to /\ f.session = call[p].session
      /\ f.session \in Sessions
  BY <1>1, <1>2 DEF CallFrame
<1>4. \A q \in Workers : call'[q] = IF q = p THEN f ELSE call[q]
  BY <1>2 DEF UpdateState, LockInv, GateInv, ServiceTypes
<1>5. \A s \in Sessions : sessionState'[s] = IF s = f.session THEN f.to ELSE sessionState[s]
  BY <1>3 DEF UpdateState, LockInv, GateInv, ServiceTypes
<1>6. ASSUME NEW q \in Workers \ {p}, InFlight(q)
      PROVE  call[q].session \in Sessions \ {f.session}
  <2>1. call[q].session \in Sessions
    BY <1>6, AwaitingFrame DEF InFlight, LockInv, GateInv, ServiceTypes, CallFrame
  <2> QED BY <1>1, <1>3, <1>6, <2>1 DEF OneCallPerSession
<1>7. AllFresh'
  <2>1. ASSUME NEW q \in Workers, q # p PROVE FreshFrame(call[q])'
    <3>1. FreshFrame(call[q]) /\ call'[q] = call[q]
      BY <1>4, <2>1 DEF LockInv, AllFresh
    <3>2. InFlight(q) => sessionState'[call[q].session] = sessionState[call[q].session]
      BY <1>5, <1>6, <2>1
    <3> QED BY <3>1, <3>2 DEF FreshFrame, InFlight, Awaited
  <2>2. FreshFrame(call[p])'
    BY <1>3, <1>4, <1>5 DEF FreshFrame
  <2> QED BY <2>1, <2>2 DEF AllFresh
<1>8. Recorded'
  <2>1. SUFFICES ASSUME NEW s \in Sessions,
                        \A q \in Workers : call'[q].step = "appendEvent" => call'[q].session # s
                 PROVE  audited'[s] = sessionState'[s]
    BY DEF Recorded
  <2>2. s # f.session
    BY <1>3, <1>4, <2>1
  <2>3. \A q \in Workers : call[q].step = "appendEvent" => call[q].session # s
    BY <1>1, <1>4, <2>1
  <2> QED BY <1>5, <2>2, <2>3 DEF LockInv, Recorded, UpdateState
<1> QED BY <1>7, <1>8

LEMMA AppendEventFresh ==
  ASSUME LockInv, OneCallPerSession, NEW p \in Workers, AppendEvent(p), UNCHANGED everHeld
  PROVE  AllFresh' /\ Recorded'
<1>1. /\ call[p].step = "appendEvent" /\ call[p] \in CallFrame
      /\ call[p].to = sessionState[call[p].session]
  BY AwaitingFrame DEF AppendEvent, Awaited, LockInv, GateInv, ServiceTypes, AllFresh, FreshFrame
<1>2. PICK f : f = Returned("ok")
  OBVIOUS
<1>3. FreshFrame(f) /\ f.step = "returned"
  BY <1>2 DEF Returned, IdleFrame, FreshFrame
<1>4. \A q \in Workers : call'[q] = IF q = p THEN f ELSE call[q]
  BY <1>2 DEF AppendEvent, LockInv, GateInv, ServiceTypes
<1>5. AllFresh'
  <2>1. \A q \in Workers : FreshFrame(call'[q])
    BY <1>3, <1>4 DEF LockInv, AllFresh
  <2> QED BY <2>1 DEF AllFresh, FreshFrame, AppendEvent
<1>6. Recorded'
  <2>1. SUFFICES ASSUME NEW s \in Sessions,
                        \A q \in Workers : call'[q].step = "appendEvent" => call'[q].session # s
                 PROVE  audited'[s] = sessionState'[s]
    BY DEF Recorded
  <2>2. audited'[s] = IF s = call[p].session THEN call[p].to ELSE audited[s]
    BY <1>1 DEF AppendEvent, LockInv, GateInv, ServiceTypes
  <2>3. CASE s = call[p].session
    BY <1>1, <2>2, <2>3 DEF AppendEvent
  <2>4. CASE s # call[p].session
    <3>1. \A q \in Workers : call[q].step = "appendEvent" => call[q].session # s
      BY <1>4, <2>1, <2>4
    <3> QED BY <2>2, <2>4, <3>1 DEF LockInv, Recorded, AppendEvent
  <2> QED BY <2>3, <2>4
<1> QED BY <1>5, <1>6

LEMMA CreateSessionFresh ==
  ASSUME LockInv, NEW s \in Sessions, CreateSession(s), UNCHANGED everHeld
  PROVE  AllFresh' /\ Recorded'
<1>1. \A t \in Sessions \ {s} : sessionState'[t] = sessionState[t] /\ audited'[t] = audited[t]
  BY DEF CreateSession, LockInv, GateInv, ServiceTypes
<1>2. sessionState'[s] = audited'[s] /\ call' = call
  BY DEF CreateSession, LockInv, GateInv, ServiceTypes
<1>3. ASSUME NEW p \in Workers, call[p].step \in {"loadFlags", "updateState", "appendEvent"}
      PROVE  call[p].session \in Sessions \ {s}
  <2>1. call[p] \in CallFrame
    BY <1>3, AwaitingFrame DEF Awaited, LockInv, GateInv, ServiceTypes
  <2>2. sessionState[call[p].session] # Absent
    <3>1. CASE call[p].step = "appendEvent"
      BY <2>1, <3>1, AbsentAssumption DEF LockInv, AllFresh, FreshFrame, CallFrame
    <3>2. CASE call[p].step = "loadFlags"
      BY <2>1, <3>2, AbsentAssumption
         DEF LockInv, GateInv, FramesOK, FrameOK, AllFresh, FreshFrame, CallFrame
    <3>3. CASE call[p].step = "updateState"
      BY <3>3, AbsentAssumption DEF LockInv, AllFresh, FreshFrame
    <3> QED BY <1>3, <3>1, <3>2, <3>3
  <2>3. sessionState[s] = Absent
    BY DEF CreateSession
  <2> QED BY <2>1, <2>2, <2>3 DEF CallFrame
<1>4. AllFresh'
  BY <1>1, <1>2, <1>3 DEF LockInv, AllFresh, FreshFrame
<1>5. Recorded'
  BY <1>1, <1>2 DEF LockInv, Recorded
<1> QED BY <1>4, <1>5

LEMMA LockNext ==
  ASSUME ~ MayFail
  PROVE  LockInv /\ OneCallPerSession /\ [Next]_vars => LockInv'
<1> SUFFICES ASSUME LockInv, OneCallPerSession, [Next]_vars PROVE LockInv'
  OBVIOUS
<1>1. ASSUME NEW p \in Workers, ServiceStep(p), UNCHANGED everHeld
      PROVE  AllFresh' /\ Recorded'
  <2>1. CASE Advance(p)
    BY <1>1, <2>1, FindSessionFresh, LoadUserFlagsFresh, UpdateStateFresh, AppendEventFresh DEF Advance
  <2>2. CASE TakeResult(p)
    <3>1. PICK f : f = IdleFrame
      OBVIOUS
    <3>2. FreshFrame(f) /\ call' = [call EXCEPT ![p] = f]
      BY <2>2, <3>1 DEF TakeResult, IdleFrame, FreshFrame
    <3> QED BY <1>1, <2>2, <3>2, FrameFresh DEF TakeResult
  <2>3. ASSUME NEW s \in Sessions, NEW c \in Calls, Call(p, s, c)
        PROVE  AllFresh' /\ Recorded'
    <3>1. PICK f : f = Called(s, c.to, c.reason)
      OBVIOUS
    <3>2. FreshFrame(f) /\ call' = [call EXCEPT ![p] = f]
      BY <2>3, <3>1 DEF Call, Called, IdleFrame, FreshFrame
    <3> QED BY <1>1, <2>3, <3>2, FrameFresh DEF Call
  <2>4. ~ QueryFails(p)
    BY DEF QueryFails
  <2> QED BY <1>1, <2>1, <2>2, <2>3, <2>4 DEF ServiceStep
<1>2. ASSUME NEW s \in Sessions, CreateSession(s), UNCHANGED everHeld
      PROVE  AllFresh' /\ Recorded'
  BY <1>2, CreateSessionFresh
<1>3. ASSUME NEW u \in Users, NEW f \in UserFlag, Establish(u, f)
      PROVE  AllFresh' /\ Recorded'
  <2>1. \A v \in Users : everHeld[v] \subseteq everHeld'[v]
    BY <1>3 DEF Establish, LockInv, GateInv, ServiceTypes
  <2> QED BY <1>3, <2>1, GrowthFresh DEF Establish, serviceVars
<1>4. ASSUME UNCHANGED vars PROVE AllFresh' /\ Recorded'
  BY <1>4, GrowthFresh DEF vars, serviceVars
<1>5. GateInv'
  BY GatesNext DEF LockInv
<1> QED BY <1>1, <1>2, <1>3, <1>4, <1>5 DEF LockInv, Next

\* As long as no two calls for one session overlap, and none is left half-way,
\* the ledger of a session no call is under way for leads to its state.
THEOREM AuditKept ==
  ASSUME ~ MayFail
  PROVE  Spec /\ []OneCallPerSession => []AuditComplete
<1>1. LockInv => AuditComplete
  BY DEF LockInv, Recorded, AuditComplete, InFlight, Awaited
<1> QED BY <1>1, LockInit, LockNext, PTL DEF Spec

LEMMA SameGraph ==
  ASSUME NEW from
  PROVE  /\ Lifecycle!allowedTargets(from, RelaxStateGuards) = allowedTargets(from, RelaxStateGuards)
         /\ Lifecycle!TERMINAL_STATES = TERMINAL_STATES
         /\ Lifecycle!SessionState = SessionState
<1>1. Lifecycle!BASE_TRANSITIONS(from) = BASE_TRANSITIONS(from)
  BY DEF Lifecycle!BASE_TRANSITIONS, BASE_TRANSITIONS, Lifecycle!Abandon, Abandon
<1>2. Lifecycle!TERMINAL_STATES = TERMINAL_STATES
  BY DEF Lifecycle!TERMINAL_STATES, TERMINAL_STATES
<1>3. Lifecycle!SessionState = SessionState
  BY DEF Lifecycle!SessionState, SessionState
<1> QED BY <1>1, <1>2, <1>3
        DEF Lifecycle!allowedTargets, allowedTargets, Lifecycle!QUOTE_RELAX_TARGETS, QUOTE_RELAX_TARGETS

LEMMA LockStep ==
  ASSUME ~ MayFail
  PROVE  LockInv /\ OneCallPerSession /\ [Next]_vars => [Lifecycle!Next]_(Lifecycle!vars)
<1> SUFFICES ASSUME LockInv, OneCallPerSession, [Next]_vars
             PROVE  [Lifecycle!Next]_(Lifecycle!vars)
  OBVIOUS
<1>1. ASSUME NEW p \in Workers, ServiceStep(p), UNCHANGED everHeld
      PROVE  [Lifecycle!Next]_(Lifecycle!vars)
  <2>1. CASE UpdateState(p)
    <3>1. /\ call[p].step = "updateState" /\ call[p] \in CallFrame /\ InFlight(p)
          /\ FreshFrame(call[p]) /\ FrameOK(call[p])
      BY <2>1, AwaitingFrame
         DEF UpdateState, Awaited, InFlight, LockInv, GateInv, ServiceTypes, FramesOK, AllFresh
    <3>2. PICK s \in Sessions : s = call[p].session
      BY <3>1 DEF CallFrame
    <3>3. PICK to \in SessionState : to = call[p].to
      BY <3>1 DEF CallFrame
    <3>4. /\ sessionState[s] \in SessionState \ TERMINAL_STATES /\ to # sessionState[s]
          /\ isGraphEdgeAllowed(sessionState[s], to, RelaxStateGuards)
          /\ Lifecycle!NeededFlag(DirectionOf[s], sessionState[s], to) \subseteq everHeld[UserOf[s]]
      BY <3>1, <3>2, <3>3 DEF FreshFrame, FrameOK
    <3>5. to \in allowedTargets(sessionState[s], RelaxStateGuards)
      BY <3>4 DEF isGraphEdgeAllowed
    <3>6. audited[s] = sessionState[s]
      BY <3>1, <3>2 DEF OneCallPerSession, LockInv, Recorded, InFlight, Awaited
    <3>7. sessionState' = [sessionState EXCEPT ![s] = to] /\ UNCHANGED <<audited, everHeld>>
      BY <1>1, <2>1, <3>2, <3>3 DEF UpdateState
    <3>8. Lifecycle!Move(s, to)
      BY <3>4, <3>5, <3>6, <3>7, SameGraph DEF Lifecycle!Move
    <3> QED BY <3>8, SameGraph DEF Lifecycle!Next
  <2>2. CASE AppendEvent(p)
    <3>1. /\ call[p].step = "appendEvent" /\ call[p] \in CallFrame /\ FreshFrame(call[p])
      BY <2>2, AwaitingFrame DEF AppendEvent, Awaited, LockInv, GateInv, ServiceTypes, AllFresh
    <3>2. PICK s \in Sessions : s = call[p].session
      BY <3>1 DEF CallFrame
    <3>3. audited' = [audited EXCEPT ![s] = sessionState[s]] /\ UNCHANGED <<sessionState, everHeld>>
      BY <1>1, <2>2, <3>1, <3>2 DEF AppendEvent, FreshFrame
    <3>4. CASE audited[s] = sessionState[s]
      <4>1. UNCHANGED audited
        BY <3>3, <3>4 DEF LockInv, GateInv, ServiceTypes
      <4> QED BY <3>3, <4>1 DEF Lifecycle!vars
    <3>5. CASE audited[s] # sessionState[s]
      <4>1. Lifecycle!Record(s)
        BY <3>3, <3>5 DEF Lifecycle!Record
      <4> QED BY <4>1 DEF Lifecycle!Next
    <3> QED BY <3>4, <3>5
  <2>3. CASE UNCHANGED <<sessionState, audited>>
    BY <1>1, <2>3 DEF Lifecycle!vars
  <2> QED BY <1>1, <2>1, <2>2, <2>3
          DEF ServiceStep, Advance, FindSession, LoadUserFlags, LoadFlags, QueryFails, TakeResult, Call
<1>2. ASSUME NEW s \in Sessions, CreateSession(s), UNCHANGED everHeld
      PROVE  [Lifecycle!Next]_(Lifecycle!vars)
  <2>1. Lifecycle!Create(s)
    BY <1>2 DEF CreateSession, Lifecycle!Create, Lifecycle!initialSessionState, initialSessionState
  <2> QED BY <2>1 DEF Lifecycle!Next
<1>3. ASSUME NEW u \in Users, NEW f \in UserFlag, Establish(u, f)
      PROVE  [Lifecycle!Next]_(Lifecycle!vars)
  <2>1. Lifecycle!Grant(u, f) /\ f \in Lifecycle!UserFlag
    BY <1>3 DEF Establish, serviceVars, Lifecycle!Grant, Lifecycle!UserFlag, UserFlag
  <2> QED BY <2>1 DEF Lifecycle!Next
<1>4. CASE UNCHANGED vars
  BY <1>4 DEF vars, serviceVars, Lifecycle!vars
<1> QED BY <1>1, <1>2, <1>3, <1>4 DEF Next

\* Under the same condition the service is an implementation of the abstract
\* machine: every write is one permitted move, taken from a recorded state.
THEOREM ImplementsLifecycle ==
  ASSUME ~ MayFail
  PROVE  Spec /\ []OneCallPerSession => Lifecycle!Init /\ [][Lifecycle!Next]_(Lifecycle!vars)
<1>1. Init => Lifecycle!Init
  BY DEF Init, Lifecycle!Init
<1> QED BY <1>1, LockInit, LockNext, LockStep, PTL DEF Spec

=============================================================================
