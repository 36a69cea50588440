-------------------------- MODULE SessionGatesProofs --------------------------
(***************************************************************************)
(* What each step of the transition service keeps of the gates, whoever    *)
(* takes it: for SessionTransitionsProofs, where callers ask for anything, *)
(* and RampProofs, where they are the server's own handlers.               *)
(*                                                                         *)
(* The gates are not inductive on their own: a worker about to write may   *)
(* have read its flags long ago.  GateInv adds what a call knows at each   *)
(* of its steps: the state it read was itself behind no unpassed gate, and *)
(* the state it is about to write is one edge from there, so the only gate *)
(* in between is the one whose flag the call has read.                     *)
(***************************************************************************)
EXTENDS SessionGates, TLAPS

ServiceTypes ==
  /\ sessionState \in [Sessions -> SessionState \cup {Absent}]
  /\ audited \in [Sessions -> SessionState \cup {Absent}]
  /\ call \in [Workers -> Frame]
  /\ everHeld \in [Users -> SUBSET UserFlag]

Gated(s, st) ==
  ~ RelaxStateGuards => RequiredFlags(DirectionOf[s], st) \subseteq everHeld[UserOf[s]]

\* No row is ever in the state "created", from which the graph has an edge
\* past the KYC gate.
NeverCreated == \A s \in Sessions : sessionState[s] # "created"

SessionsGated == \A s \in Sessions : sessionState[s] # Absent => Gated(s, sessionState[s])

FrameOK(f) ==
  /\ f.step = "loadFlags" =>
       /\ f.from \in SessionState \ {"created"}
       /\ f.from # f.to
       /\ Gated(f.session, f.from)
  /\ f.step = "updateState" =>
       /\ f.from \notin TERMINAL_STATES
       /\ isGraphEdgeAllowed(f.from, f.to, RelaxStateGuards)
       /\ f.to # "created"
       /\ Gated(f.session, f.to)

FramesOK == \A p \in Workers : FrameOK(call[p])

GateInv == ServiceTypes /\ NeverCreated /\ SessionsGated /\ FramesOK

-----------------------------------------------------------------------------
(***************************************************************************)
(* The rules                                                               *)
(***************************************************************************)

\* No edge of the graph leads back to "created".
LEMMA NothingLeadsToCreated ==
  ASSUME NEW from, NEW relax \in BOOLEAN,
         isGraphEdgeAllowed(from, "created", relax)
  PROVE  FALSE
BY DEF isGraphEdgeAllowed, allowedTargets, BASE_TRANSITIONS, QUOTE_RELAX_TARGETS, Abandon

\* What an accepted assertion says of the edge.
LEMMA AcceptedEdge ==
  ASSUME NEW from, NEW to, NEW ctx, NEW reason, NEW relax,
         assertCanTransition(from, to, ctx, reason, relax) = "ok"
  PROVE  /\ from \notin TERMINAL_STATES
         /\ isGraphEdgeAllowed(from, to, relax)
         /\ checkPrerequisites(from, to, ctx, reason, relax) = {}
<1> DEFINE good == from \notin TERMINAL_STATES /\ isGraphEdgeAllowed(from, to, relax)
<1>1. CASE ~ good
  <2>1. assertCanTransition(from, to, ctx, reason, relax) = "invalid_transition"
    BY <1>1 DEF assertCanTransition
  <2> QED BY <2>1
<1>2. CASE good
  <2>1. assertCanTransition(from, to, ctx, reason, relax) =
          IF checkPrerequisites(from, to, ctx, reason, relax) # {}
          THEN "prerequisite_missing" ELSE "ok"
    BY <1>2 DEF assertCanTransition
  <2> QED BY <1>2, <2>1
<1> QED BY <1>1, <1>2

\* An accepted step needs no flag that its first state did not need, except
\* the ones true in its context: each gate is met on the way in.
LEMMA EdgeMeetsItsGate ==
  ASSUME NEW s \in Sessions, NEW held \in SUBSET UserFlag,
         NEW from \in SessionState \ {"created"}, NEW to \in SessionState,
         NEW reason, from # to,
         assertCanTransition(from, to, Context(s, held), reason, FALSE) = "ok"
  PROVE  RequiredFlags(DirectionOf[s], to)
           \subseteq RequiredFlags(DirectionOf[s], from) \cup held
<1> DEFINE d == DirectionOf[s]
           ctx == Context(s, held)
<1>1. d \in SessionDirection
  BY DirectionOfAssumption
<1>2. /\ from \notin TERMINAL_STATES
      /\ to \in BASE_TRANSITIONS(from)
      /\ checkPrerequisites(from, to, ctx, reason, FALSE) = {}
  BY AcceptedEdge DEF isGraphEdgeAllowed, allowedTargets
<1>3. /\ "kyc_approved" \notin checkPrerequisites(from, to, ctx, reason, FALSE)
      /\ "compliance_submission_approved" \notin checkPrerequisites(from, to, ctx, reason, FALSE)
      /\ "named_account_active" \notin checkPrerequisites(from, to, ctx, reason, FALSE)
      /\ "wallet" \notin checkPrerequisites(from, to, ctx, reason, FALSE)
  BY <1>2
<1>4. /\ to = "kyc_ok" => "kycApproved" \in held
      /\ to = "compliance_handoff_ok" => "complianceSubmissionApproved" \in held
      /\ to = "bank_link_required" => "namedAccountActive" \in held
      /\ /\ to = "quote_requested"
         /\ \/ d = "wallet_to_wallet"
            \/ from = "wallet_required"
            \/ d = "on_ramp" /\ from = "bank_link_required"
         => "hasWallet" \in held
  BY <1>3 DEF checkPrerequisites, needsWallet, Prerequisite, Context
<1>5. ASSUME "kycApproved" \in RequiredFlags(d, to)
      PROVE  "kycApproved" \in RequiredFlags(d, from) \cup held
  BY <1>2, <1>4, <1>5
     DEF RequiredFlags, HandedOff, SessionState, UserFlag, BASE_TRANSITIONS, Abandon
<1>6. ASSUME "complianceSubmissionApproved" \in RequiredFlags(d, to)
      PROVE  "complianceSubmissionApproved" \in RequiredFlags(d, from) \cup held
  BY <1>2, <1>4, <1>6
     DEF RequiredFlags, Approved, HandedOff, SessionState, UserFlag, BASE_TRANSITIONS, Abandon
<1>7. ASSUME "namedAccountActive" \in RequiredFlags(d, to)
      PROVE  "namedAccountActive" \in RequiredFlags(d, from) \cup held
  BY <1>2, <1>4, <1>7
     DEF RequiredFlags, Funded, Approved, HandedOff, SessionState, UserFlag, BASE_TRANSITIONS, Abandon
<1>8. ASSUME "hasWallet" \in RequiredFlags(d, to)
      PROVE  "hasWallet" \in RequiredFlags(d, from) \cup held
  BY <1>1, <1>2, <1>4, <1>8
     DEF RequiredFlags, Quoted, Funded, Approved, HandedOff, SessionState, UserFlag,
         SessionDirection, BASE_TRANSITIONS, Abandon
<1>9. RequiredFlags(d, to) \subseteq UserFlag
  BY DEF RequiredFlags
<1> QED BY <1>5, <1>6, <1>7, <1>8, <1>9 DEF UserFlag

\* A new session stands before every gate.
LEMMA FirstStateNeedsNothing ==
  ASSUME NEW d \in SessionDirection
  PROVE  /\ initialSessionState(d) \in SessionState \ {"created"}
         /\ RequiredFlags(d, initialSessionState(d)) = {}
BY DEF initialSessionState, RequiredFlags, Quoted, Funded, Approved, HandedOff,
       SessionState, SessionDirection, UserFlag

-----------------------------------------------------------------------------
(***************************************************************************)
(* Types                                                                   *)
(***************************************************************************)

LEMMA FrameTypes ==
  /\ IdleFrame \in RestFrame
  /\ \A o \in Outcome : Returned(o) \in RestFrame
  /\ \A s \in Sessions, to \in SessionState, r \in TransitionReason :
       Called(s, to, r) \in CallFrame
<1>1. IdleFrame \in RestFrame
  BY DEF IdleFrame, RestFrame, Outcome
<1>2. ASSUME NEW o \in Outcome
      PROVE  Returned(o) \in RestFrame
  BY <1>1, <1>2 DEF Returned, RestFrame
<1>3. ASSUME NEW s \in Sessions, NEW to \in SessionState, NEW r \in TransitionReason
      PROVE  Called(s, to, r) \in CallFrame
  BY <1>3 DEF Called, IdleFrame, CallFrame, Awaited
<1> QED BY <1>1, <1>2, <1>3

\* A frame at an awaited statement is that of a call.
LEMMA AwaitingFrame ==
  ASSUME NEW f \in Frame, f.step \in Awaited
  PROVE  f \in CallFrame
BY DEF Frame, RestFrame, Awaited

\* What a call knows once it has read its session.
LEMMA AfterStateFound ==
  ASSUME NEW f \in CallFrame, NEW from
  PROVE  \/ StateFound(f, from) \in {Returned("session_not_found"), Returned("ok")}
         \/ /\ from # Absent /\ from # f.to
            /\ StateFound(f, from) = [f EXCEPT !.step = "loadFlags", !.from = from]
<1>1. CASE from = Absent
  BY <1>1 DEF StateFound
<1>2. CASE from # Absent /\ from = f.to
  BY <1>2 DEF StateFound
<1>3. CASE from # Absent /\ from # f.to
  BY <1>3 DEF StateFound
<1> QED BY <1>1, <1>2, <1>3

LEMMA StateFoundType ==
  ASSUME NEW f \in CallFrame, NEW from \in SessionState \cup {Absent}
  PROVE  StateFound(f, from) \in Frame
<1>1. CASE StateFound(f, from) \in {Returned("session_not_found"), Returned("ok")}
  BY <1>1, FrameTypes DEF Frame, Outcome
<1>2. CASE StateFound(f, from) = [f EXCEPT !.step = "loadFlags", !.from = from]
  <2>1. [f EXCEPT !.step = "loadFlags", !.from = from] \in CallFrame
    BY DEF CallFrame, Awaited
  <2> QED BY <1>2, <2>1 DEF Frame
<1> QED BY <1>1, <1>2, AfterStateFound

LEMMA VerdictIsOutcome ==
  ASSUME NEW f, NEW held
  PROVE  Verdict(f, held) \in {"ok", "invalid_transition", "prerequisite_missing"}
BY DEF Verdict, assertCanTransition

-----------------------------------------------------------------------------
(***************************************************************************)
(* The steps                                                               *)
(***************************************************************************)

LEMMA GatesAtFirst ==
  ASSUME sessionState = [s \in Sessions |-> Absent],
         audited = [s \in Sessions |-> Absent],
         call = [p \in Workers |-> IdleFrame],
         everHeld = [u \in Users |-> {}]
  PROVE  GateInv
<1>1. ServiceTypes
  BY FrameTypes DEF ServiceTypes, Frame
<1>2. NeverCreated /\ SessionsGated
  BY AbsentAssumption DEF NeverCreated, SessionsGated, SessionState
<1>3. FramesOK
  BY DEF FramesOK, FrameOK, IdleFrame
<1> QED BY <1>1, <1>2, <1>3 DEF GateInv

\* A frame at rest promises nothing.
LEMMA RestingFrameOK ==
  ASSUME NEW f \in RestFrame PROVE FrameOK(f)
BY DEF RestFrame, FrameOK

\* A worker's step that writes only its own frame keeps the rest.
LEMMA FrameStep ==
  ASSUME GateInv, NEW p \in Workers, NEW f \in Frame,
         FrameOK(f),
         call' = [call EXCEPT ![p] = f],
         UNCHANGED <<sessionState, audited, everHeld>>
  PROVE  GateInv'
<1>1. NeverCreated' /\ SessionsGated'
  BY DEF GateInv, NeverCreated, SessionsGated, Gated
<1>2. \A q \in Workers : call'[q] = IF q = p THEN f ELSE call[q]
  BY DEF GateInv, ServiceTypes
<1>3. \A q \in Workers : FrameOK(call'[q])
  BY <1>2 DEF GateInv, FramesOK
<1>4. \A q \in Workers : FrameOK(call[q])'
  BY <1>3 DEF FrameOK, Gated
<1>5. ServiceTypes'
  BY DEF GateInv, ServiceTypes
<1> QED BY <1>1, <1>4, <1>5 DEF GateInv, FramesOK

LEMMA GatesKept ==
  ASSUME GateInv, UNCHANGED <<sessionState, audited, call, everHeld>>
  PROVE  GateInv'
BY DEF GateInv, ServiceTypes, NeverCreated, SessionsGated, FramesOK, FrameOK, Gated

LEMMA FindSessionGates ==
  ASSUME GateInv, NEW p \in Workers, FindSession(p), UNCHANGED everHeld
  PROVE  GateInv'
<1> DEFINE from == sessionState[call[p].session]
           next == StateFound(call[p], from)
<1>1. call[p] \in CallFrame
  BY AwaitingFrame DEF FindSession, Awaited, GateInv, ServiceTypes
<1>2. call[p].session \in Sessions /\ from \in SessionState \cup {Absent}
  BY <1>1 DEF CallFrame, GateInv, ServiceTypes
<1>3. FrameOK(next)
  <2>1. CASE next \in {Returned("session_not_found"), Returned("ok")}
    BY <2>1, FrameTypes, RestingFrameOK DEF Outcome
  <2>2. CASE /\ from # Absent /\ from # call[p].to
             /\ next = [call[p] EXCEPT !.step = "loadFlags", !.from = from]
    <3>1. from \in SessionState \ {"created"} /\ Gated(call[p].session, from)
      BY <1>2, <2>2 DEF GateInv, NeverCreated, SessionsGated
    <3>2. /\ next.step = "loadFlags" /\ next.from = from
          /\ next.to = call[p].to /\ next.session = call[p].session
      BY <1>1, <2>2 DEF CallFrame
    <3> QED BY <2>2, <3>1, <3>2 DEF FrameOK
  <2> QED BY <1>1, <2>1, <2>2, AfterStateFound
<1>4. next \in Frame
  BY <1>1, <1>2, StateFoundType
<1> QED BY <1>3, <1>4, FrameStep DEF FindSession

LEMMA LoadFlagsGates ==
  ASSUME GateInv, NEW p \in Workers,
         NEW held \in SUBSET everHeld[UserOf[call[p].session]],
         LoadFlags(p, held), UNCHANGED everHeld
  PROVE  GateInv'
<1> DEFINE s == call[p].session
           verdict == Verdict(call[p], held)
           next == IF verdict = "ok" THEN [call[p] EXCEPT !.step = "updateState"]
                                     ELSE Returned(verdict)
<1>1. call[p].step = "loadFlags" /\ call[p] \in CallFrame /\ FrameOK(call[p])
  BY AwaitingFrame DEF LoadFlags, Awaited, GateInv, ServiceTypes, FramesOK
<1>2. FrameOK(next)
  <2>1. CASE verdict # "ok"
    BY <2>1, VerdictIsOutcome, FrameTypes, RestingFrameOK DEF Outcome
  <2>2. CASE verdict = "ok"
    <3>1. /\ s \in Sessions /\ call[p].to \in SessionState
          /\ call[p].from \in SessionState \ {"created"}
          /\ call[p].from # call[p].to
          /\ Gated(s, call[p].from)
      BY <1>1 DEF CallFrame, FrameOK
    <3>2. held \in SUBSET UserFlag /\ held \subseteq everHeld[UserOf[s]]
      BY <3>1, UserOfAssumption DEF GateInv, ServiceTypes
    <3>3. /\ call[p].from \notin TERMINAL_STATES
          /\ isGraphEdgeAllowed(call[p].from, call[p].to, RelaxStateGuards)
      BY <2>2, AcceptedEdge DEF Verdict
    <3>4. call[p].to # "created"
      BY <3>3, NothingLeadsToCreated, SwitchAssumption
    <3>5. Gated(s, call[p].to)
      <4>1. SUFFICES ASSUME ~ RelaxStateGuards
                     PROVE  RequiredFlags(DirectionOf[s], call[p].to)
                              \subseteq everHeld[UserOf[s]]
        BY DEF Gated
      <4>2. assertCanTransition(call[p].from, call[p].to, Context(s, held),
                                call[p].reason, FALSE) = "ok"
        BY <2>2, <4>1, SwitchAssumption DEF Verdict
      <4>3. RequiredFlags(DirectionOf[s], call[p].to)
              \subseteq RequiredFlags(DirectionOf[s], call[p].from) \cup held
        BY <3>1, <3>2, <4>2, EdgeMeetsItsGate
      <4> QED BY <3>1, <3>2, <4>1, <4>3 DEF Gated
    <3>6. /\ next.step = "updateState" /\ next.from = call[p].from
          /\ next.to = call[p].to /\ next.session = s
      BY <1>1, <2>2 DEF CallFrame
    <3> QED BY <3>3, <3>4, <3>5, <3>6 DEF FrameOK
  <2> QED BY <2>1, <2>2
<1>3. verdict \in Outcome
  BY VerdictIsOutcome DEF Outcome
<1>4. next \in Frame
  BY <1>1, <1>3, FrameTypes DEF Frame, CallFrame, Awaited
<1>5. call' = [call EXCEPT ![p] = next]
  BY DEF LoadFlags
<1> QED BY <1>2, <1>4, <1>5, FrameStep DEF LoadFlags

LEMMA UpdateStateGates ==
  ASSUME GateInv, NEW p \in Workers, UpdateState(p), UNCHANGED everHeld
  PROVE  GateInv'
<1> DEFINE s == call[p].session
           to == call[p].to
           next == [call[p] EXCEPT !.step = "appendEvent"]
<1>1. call[p].step = "updateState" /\ call[p] \in CallFrame /\ FrameOK(call[p])
  BY AwaitingFrame DEF UpdateState, Awaited, GateInv, ServiceTypes, FramesOK
<1>2. s \in Sessions /\ to \in SessionState /\ to # "created" /\ Gated(s, to)
  BY <1>1 DEF CallFrame, FrameOK
<1>3. \A t \in Sessions : sessionState'[t] = IF t = s THEN to ELSE sessionState[t]
  BY DEF UpdateState, GateInv, ServiceTypes
<1>4. NeverCreated'
  BY <1>2, <1>3 DEF GateInv, NeverCreated
<1>5. \A t \in Sessions : sessionState'[t] # Absent => Gated(t, sessionState'[t])
  BY <1>2, <1>3 DEF GateInv, SessionsGated
<1>6. SessionsGated'
  BY <1>5 DEF SessionsGated, Gated
<1>7. next \in Frame /\ next.step = "appendEvent"
  BY <1>1 DEF Frame, CallFrame, Awaited
<1>8. \A q \in Workers : FrameOK(call'[q])
  <2>1. \A q \in Workers : call'[q] = IF q = p THEN next ELSE call[q]
    BY DEF UpdateState, GateInv, ServiceTypes
  <2>2. FrameOK(next)
    BY <1>7 DEF FrameOK
  <2> QED BY <2>1, <2>2 DEF GateInv, FramesOK
<1>9. FramesOK'
  BY <1>8 DEF FramesOK, FrameOK, Gated
<1>10. ServiceTypes'
  BY <1>2, <1>7 DEF UpdateState, GateInv, ServiceTypes
<1> QED BY <1>4, <1>6, <1>9, <1>10 DEF GateInv

LEMMA AppendEventGates ==
  ASSUME GateInv, NEW p \in Workers, AppendEvent(p), UNCHANGED everHeld
  PROVE  GateInv'
<1> DEFINE next == Returned("ok")
<1>1. call[p] \in CallFrame
  BY AwaitingFrame DEF AppendEvent, Awaited, GateInv, ServiceTypes
<1>2. next \in Frame /\ FrameOK(next)
  BY FrameTypes, RestingFrameOK DEF Outcome, Frame
<1>3. ServiceTypes'
  BY <1>1, <1>2 DEF AppendEvent, CallFrame, GateInv, ServiceTypes
<1>4. NeverCreated' /\ SessionsGated'
  BY DEF AppendEvent, GateInv, NeverCreated, SessionsGated, Gated
<1>5. \A q \in Workers : call'[q] = IF q = p THEN next ELSE call[q]
  BY DEF AppendEvent, GateInv, ServiceTypes
<1>6. \A q \in Workers : FrameOK(call'[q])
  BY <1>2, <1>5 DEF GateInv, FramesOK
<1>7. FramesOK'
  BY <1>6 DEF FramesOK, FrameOK, Gated
<1> QED BY <1>3, <1>4, <1>7 DEF GateInv

LEMMA QueryFailsGates ==
  ASSUME GateInv, NEW p \in Workers, QueryFails(p), UNCHANGED everHeld
  PROVE  GateInv'
<1>1. Returned("query_failed") \in Frame /\ FrameOK(Returned("query_failed"))
  BY FrameTypes, RestingFrameOK DEF Outcome, Frame
<1> QED BY <1>1, FrameStep DEF QueryFails

LEMMA ResultGates ==
  ASSUME GateInv, NEW p \in Workers, call' = [call EXCEPT ![p] = IdleFrame],
         UNCHANGED <<sessionState, audited, everHeld>>
  PROVE  GateInv'
<1>1. IdleFrame \in Frame /\ FrameOK(IdleFrame)
  BY FrameTypes, RestingFrameOK DEF Frame
<1> QED BY <1>1, FrameStep

LEMMA AskGates ==
  ASSUME GateInv, NEW p \in Workers, NEW s \in Sessions,
         NEW to \in SessionState, NEW reason \in TransitionReason,
         Ask(p, s, to, reason), UNCHANGED everHeld
  PROVE  GateInv'
<1>1. Called(s, to, reason) \in Frame
  BY FrameTypes DEF Frame
<1>2. FrameOK(Called(s, to, reason))
  BY DEF FrameOK, Called, IdleFrame
<1> QED BY <1>1, <1>2, FrameStep DEF Ask

LEMMA CreateSessionGates ==
  ASSUME GateInv, NEW s \in Sessions, CreateSession(s), UNCHANGED everHeld
  PROVE  GateInv'
<1> DEFINE first == initialSessionState(DirectionOf[s])
<1>1. first \in SessionState /\ first # "created" /\ Gated(s, first)
  BY FirstStateNeedsNothing, DirectionOfAssumption DEF Gated
<1>2. \A t \in Sessions : sessionState'[t] = IF t = s THEN first ELSE sessionState[t]
  BY DEF CreateSession, GateInv, ServiceTypes
<1>3. NeverCreated'
  BY <1>1, <1>2 DEF GateInv, NeverCreated
<1>4. \A t \in Sessions : sessionState'[t] # Absent => Gated(t, sessionState'[t])
  BY <1>1, <1>2 DEF GateInv, SessionsGated
<1>5. SessionsGated' /\ FramesOK'
  BY <1>4 DEF CreateSession, GateInv, SessionsGated, FramesOK, FrameOK, Gated
<1>6. ServiceTypes'
  BY <1>1 DEF CreateSession, GateInv, ServiceTypes
<1> QED BY <1>3, <1>5, <1>6 DEF GateInv

\* Facts that come to be held close no gate already passed.
LEMMA HeldGrows ==
  ASSUME NEW s \in Sessions, NEW st, Gated(s, st),
         \A u \in Users : everHeld[u] \subseteq everHeld'[u]
  PROVE  Gated(s, st)'
BY UserOfAssumption DEF Gated

LEMMA HeldGrowsGates ==
  ASSUME GateInv, UNCHANGED <<sessionState, audited, call>>,
         everHeld' \in [Users -> SUBSET UserFlag],
         \A u \in Users : everHeld[u] \subseteq everHeld'[u]
  PROVE  GateInv'
<1>1. NeverCreated' /\ ServiceTypes'
  BY DEF GateInv, NeverCreated, ServiceTypes
<1>2. SessionsGated'
  BY HeldGrows DEF GateInv, SessionsGated
<1>3. ASSUME NEW p \in Workers
      PROVE  FrameOK(call[p])'
  <2>1. FrameOK(call[p])
    BY DEF GateInv, FramesOK
  <2>2. call[p].step \in Awaited => call[p].session \in Sessions
    BY AwaitingFrame DEF GateInv, ServiceTypes, CallFrame
  <2> QED BY <2>1, <2>2, HeldGrows DEF FrameOK, Awaited
<1> QED BY <1>1, <1>2, <1>3 DEF GateInv, FramesOK

LEMMA GatesFromInv == GateInv => OnboardingGates
BY DEF GateInv, SessionsGated, Gated, OnboardingGates

===============================================================================
