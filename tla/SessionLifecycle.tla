-------------------------- MODULE SessionLifecycle --------------------------
(***************************************************************************)
(* What the state machine promises of a session, with no calls and no      *)
(* queries: a session is created in its first state, moves along one edge  *)
(* of the graph at a time, only once the facts the edge needs have been    *)
(* granted to its user, and every move is recorded before the next.        *)
(*                                                                         *)
(* granted[u] is the set of facts that have ever been true of user u: an   *)
(* account may be closed between the check and the move, and the promise   *)
(* is about what was established, not about what still holds.              *)
(***************************************************************************)
EXTENDS SessionStateMachine

CONSTANTS Sessions, Users, UserOf, DirectionOf, RelaxStateGuards, Absent

VARIABLES sessionState, audited, granted

vars == <<sessionState, audited, granted>>

Init ==
  /\ sessionState = [s \in Sessions |-> Absent]
  /\ audited = [s \in Sessions |-> Absent]
  /\ granted \in [Users -> SUBSET UserFlag]

Create(s) ==
  /\ sessionState[s] = Absent
  /\ sessionState' = [sessionState EXCEPT ![s] = initialSessionState(DirectionOf[s])]
  /\ audited' = [audited EXCEPT ![s] = initialSessionState(DirectionOf[s])]
  /\ UNCHANGED granted

Grant(u, f) ==
  /\ granted' = [granted EXCEPT ![u] = @ \cup {f}]
  /\ UNCHANGED <<sessionState, audited>>

\* The facts an edge needs, besides the settlement signal of the caller.
NeededFlag(direction, from, to) ==
  CASE to = "kyc_ok"                -> {"kycApproved"}
    [] to = "compliance_handoff_ok" -> {"complianceSubmissionApproved"}
    [] to = "bank_link_required"    -> {"namedAccountActive"}
    [] /\ to = "quote_requested"
       /\ ~ RelaxStateGuards
       /\ \/ direction = "wallet_to_wallet"
          \/ from = "wallet_required"
          \/ direction = "on_ramp" /\ from = "bank_link_required"
                                    -> {"hasWallet"}
    [] OTHER                        -> {}

Move(s, to) ==
  /\ sessionState[s] \in SessionState \ TERMINAL_STATES
  /\ audited[s] = sessionState[s]
  /\ to # sessionState[s]
  /\ to \in allowedTargets(sessionState[s], RelaxStateGuards)
  /\ NeededFlag(DirectionOf[s], sessionState[s], to) \subseteq granted[UserOf[s]]
  /\ sessionState' = [sessionState EXCEPT ![s] = to]
  /\ UNCHANGED <<audited, granted>>

Record(s) ==
  /\ audited[s] # sessionState[s]
  /\ audited' = [audited EXCEPT ![s] = sessionState[s]]
  /\ UNCHANGED <<sessionState, granted>>

Next ==
  \/ \E s \in Sessions :
       \/ Create(s)
       \/ \E to \in SessionState : Move(s, to)
       \/ Record(s)
  \/ \E u \in Users, f \in UserFlag : Grant(u, f)

\* A move is not left unrecorded for ever.
Spec == Init /\ [][Next]_vars /\ \A s \in Sessions : WF_vars(Record(s))

=============================================================================
