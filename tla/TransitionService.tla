-------------------------- MODULE TransitionService --------------------------
(***************************************************************************)
(* SessionStateMachineService.transition, the one routine that changes a   *)
(* session's state, as the steps other activities can run between.         *)
(*                                                                         *)
(* The server is one Node process; an HTTP request, a webhook or a queue   *)
(* job is a worker, and a worker gives way at every await.  A call awaits  *)
(* five times, each a statement of its own (no transaction, no row lock):  *)
(*                                                                         *)
(*    findSession  ->  loadFlags  ->  updateState  ->  appendEvent         *)
(*                                                                         *)
(* The fifth, the order lookup between loadFlags and the assertion, reads  *)
(* a value nobody uses and is part of loadFlags here.  The assertion is    *)
(* computed from values already read, so it is part of the read that       *)
(* supplies the last of them.  The four flag queries run in parallel; they *)
(* are one read here, since every target state has at most one flag to     *)
(* check.                                                                  *)
(*                                                                         *)
(* This module has no Init or Next: modules that call the service extend   *)
(* it and give the flags read in loadFlags.                                *)
(***************************************************************************)
EXTENDS SessionStateMachine

CONSTANTS
  Sessions,         \* rows of the sessions table, present and future
  Users,            \* end users
  Workers,          \* activations of handlers that may overlap
  UserOf,           \* the user of each session
  DirectionOf,      \* the direction of each session
  RelaxStateGuards, \* config.RELAX_STATE_GUARDS
  MayFail,          \* whether a query may fail, or the process die, mid-call
  Absent            \* the state of a row that is not there

ASSUME UserOfAssumption == UserOf \in [Sessions -> Users]
ASSUME DirectionOfAssumption == DirectionOf \in [Sessions -> SessionDirection]
ASSUME SwitchAssumption == RelaxStateGuards \in BOOLEAN /\ MayFail \in BOOLEAN
ASSUME AbsentAssumption == Absent \notin SessionState

VARIABLES
  sessionState,     \* sessions.state
  audited,          \* the state a session's ledger events lead to: its first
                    \* state, then "to" of its newest state_change event
  call              \* each worker's activation of transition()

serviceVars == <<sessionState, audited, call>>

-----------------------------------------------------------------------------

Outcome ==
  { "ok", "session_not_found", "invalid_transition",
    "prerequisite_missing", "query_failed" }

\* The statement a call awaits.
Awaited == {"findSession", "loadFlags", "updateState", "appendEvent"}

\* What transition() is asked to do and, from loadFlags on, the state it read.
CallFrame ==
  [ step    : Awaited,
    session : Sessions,
    to      : SessionState,
    reason  : TransitionReason,
    from    : SessionState \cup {Absent},
    outcome : {"ok"} ]

\* No call, or one that has returned and whose caller has not resumed yet.
RestFrame ==
  [ step    : {"idle", "returned"},
    session : {Absent},
    to      : {Absent},
    reason  : {"manual_admin"},
    from    : {Absent},
    outcome : Outcome ]

Frame == CallFrame \cup RestFrame

IdleFrame ==
  [ step |-> "idle", session |-> Absent, to |-> Absent,
    reason |-> "manual_admin", from |-> Absent, outcome |-> "ok" ]

Returned(outcome) == [IdleFrame EXCEPT !.step = "returned", !.outcome = outcome]

InFlight(p) == call[p].step \in Awaited

\* The (to, reason) pairs the code passes to transition().
CodeCalls ==
  { [to |-> "kyc_ok",                     reason |-> "kyc_webhook_approved"],
    [to |-> "compliance_handoff_pending", reason |-> "compliance_pack_submitted"],
    [to |-> "compliance_handoff_ok",      reason |-> "compliance_partner_approved"],
    [to |-> "named_account_pending",      reason |-> "named_account_provision_started"],
    [to |-> "bank_link_required",         reason |-> "named_account_active"],
    [to |-> "quote_requested",            reason |-> "quote_requested"],
    [to |-> "quote_ready",                reason |-> "quote_created"],
    [to |-> "compliance_pending",         reason |-> "order_submitted"],
    [to |-> "failed",                     reason |-> "compliance_rejected"],
    [to |-> "order_filled",               reason |-> "fiat_deposit_matched"],
    [to |-> "order_filled",               reason |-> "order_filled"] }

-----------------------------------------------------------------------------

\* A session row is inserted in its first state; no ledger event is written.
CreateSession(s) ==
  /\ sessionState[s] = Absent
  /\ sessionState' = [sessionState EXCEPT ![s] = initialSessionState(DirectionOf[s])]
  /\ audited' = [audited EXCEPT ![s] = initialSessionState(DirectionOf[s])]
  /\ UNCHANGED call

\* The frame of a call that has just been made.
Called(s, to, reason) ==
  [IdleFrame EXCEPT !.step = "findSession", !.session = s,
                    !.to = to, !.reason = reason]

\* The call f once it has read the state from: it is over when there is no
\* row, or when the session already is in the target state.
StateFound(f, from) ==
  CASE from = Absent -> Returned("session_not_found")
    [] from = f.to   -> Returned("ok")
    [] OTHER         -> [f EXCEPT !.step = "loadFlags", !.from = from]

\* loadContext: SELECT the session.  (The loads that still follow when the
\* call is over change nothing.)
FindSession(p) ==
  LET f == call[p]
  IN /\ f.step = "findSession"
     /\ call' = [call EXCEPT ![p] = StateFound(f, sessionState[f.session])]
     /\ UNCHANGED <<sessionState, audited>>

\* The context of session s when its user's true flags are the set held.
Context(s, held) ==
  [ direction                    |-> DirectionOf[s],
    kycApproved                  |-> "kycApproved" \in held,
    complianceSubmissionApproved |-> "complianceSubmissionApproved" \in held,
    namedAccountActive           |-> "namedAccountActive" \in held,
    hasWallet                    |-> "hasWallet" \in held ]

Verdict(f, held) ==
  assertCanTransition(f.from, f.to, Context(f.session, held), f.reason,
                      RelaxStateGuards)

\* loadContext: read the user's flags; then assertCanTransition throws or not.
LoadFlags(p, held) ==
  LET f == call[p]
      verdict == Verdict(f, held)
  IN /\ f.step = "loadFlags"
     /\ call' = [call EXCEPT ![p] =
          IF verdict = "ok" THEN [f EXCEPT !.step = "updateState"]
                            ELSE Returned(verdict)]
     /\ UNCHANGED <<sessionState, audited>>

\* Mutant: transition() returns without its ledger event.
UpdateStateUnrecorded(p) ==
  /\ call[p].step = "updateState"
  /\ sessionState' = [sessionState EXCEPT ![call[p].session] = call[p].to]
  /\ call' = [call EXCEPT ![p] = Returned("ok")]
  /\ UNCHANGED audited

\* UPDATE sessions SET state = to WHERE id = session: whatever the state is now.
UpdateState(p) ==
  LET f == call[p]
  IN /\ f.step = "updateState"
     /\ sessionState' = [sessionState EXCEPT ![f.session] = f.to]
     /\ call' = [call EXCEPT ![p] = [f EXCEPT !.step = "appendEvent"]]
     /\ UNCHANGED audited

\* INSERT the state_change ledger event, then return.
AppendEvent(p) ==
  LET f == call[p]
  IN /\ f.step = "appendEvent"
     /\ audited' = [audited EXCEPT ![f.session] = f.to]
     /\ call' = [call EXCEPT ![p] = Returned("ok")]
     /\ UNCHANGED sessionState

\* The statement awaited fails, or the process dies and the call is lost:
\* what earlier statements committed stays.
QueryFails(p) ==
  /\ MayFail
  /\ InFlight(p)
  /\ call' = [call EXCEPT ![p] = Returned("query_failed")]
  /\ UNCHANGED <<sessionState, audited>>

\* A caller that waits for nothing calls transition().
Ask(p, s, to, reason) ==
  /\ call' = [call EXCEPT ![p] = Called(s, to, reason)]
  /\ UNCHANGED <<sessionState, audited>>

\* The caller is given the result: "ok", or the error that was thrown.
ResultTaken(p, outcome) ==
  /\ call[p].step = "returned"
  /\ call[p].outcome = outcome
  /\ call' = [call EXCEPT ![p] = IdleFrame]
  /\ UNCHANGED <<sessionState, audited>>

Threw(p) == \E e \in Outcome \ {"ok"} : ResultTaken(p, e)

=============================================================================
