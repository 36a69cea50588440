------------------------- MODULE SessionStateMachine -------------------------
(***************************************************************************)
(* The pure rules of a session's life: which state may follow which, and   *)
(* which facts about the user a step needs.  Every operator here is a      *)
(* function of its arguments; nothing is read from the database.           *)
(*                                                                         *)
(* A transition context is the record the rules read:                      *)
(*   [direction, kycApproved, complianceSubmissionApproved,                *)
(*    namedAccountActive, hasWallet]                                       *)
(* hasBankLink and activeOrderId are loaded by the service as well, and no *)
(* rule reads them.                                                        *)
(***************************************************************************)

SessionDirection == {"on_ramp", "off_ramp", "wallet_to_wallet"}

SessionState ==
  { "created", "kyc_required", "kyc_ok",
    "compliance_handoff_pending", "compliance_handoff_ok",
    "named_account_pending", "bank_link_required", "wallet_required",
    "quote_requested", "quote_ready", "order_pending",
    "compliance_pending", "order_filled",
    "completed", "failed", "cancelled" }

TransitionReason ==
  { "kyc_webhook_approved", "compliance_pack_submitted",
    "compliance_partner_approved", "named_account_provision_started",
    "named_account_active", "named_account_provision_failed",
    "bank_link_completed", "wallet_registered", "quote_requested",
    "quote_created", "order_submitted", "compliance_cleared",
    "compliance_rejected", "fiat_deposit_matched", "order_filled",
    "payout_completed", "manual_admin" }

UserFlag ==
  { "kycApproved", "complianceSubmissionApproved",
    "namedAccountActive", "hasWallet" }

Prerequisite ==
  { "kyc_approved", "compliance_submission_approved",
    "named_account_active", "wallet", "settlement_signal" }

TERMINAL_STATES == {"completed", "failed", "cancelled"}

QUOTE_RELAX_TARGETS == {"quote_requested", "quote_ready"}

SETTLEMENT_REASONS == {"fiat_deposit_matched", "order_filled"}

-----------------------------------------------------------------------------

\* Every live state but the first may also be abandoned.
Abandon == {"failed", "cancelled"}

BASE_TRANSITIONS(from) ==
  CASE from = "created"                    -> {"kyc_required", "wallet_required"}
    [] from = "kyc_required"               -> {"kyc_ok"} \cup Abandon
    [] from = "kyc_ok"                     -> {"compliance_handoff_pending"} \cup Abandon
    [] from = "compliance_handoff_pending" -> {"compliance_handoff_ok"} \cup Abandon
    [] from = "compliance_handoff_ok"      -> {"named_account_pending"} \cup Abandon
    [] from = "named_account_pending"      ->
         {"bank_link_required", "named_account_pending"} \cup Abandon
    [] from = "bank_link_required"         ->
         {"wallet_required", "quote_requested"} \cup Abandon
    [] from = "wallet_required"            -> {"quote_requested"} \cup Abandon
    [] from = "quote_requested"            -> {"quote_ready"} \cup Abandon
    [] from = "quote_ready"                ->
         {"quote_requested", "compliance_pending", "order_pending"} \cup Abandon
    [] from = "order_pending"              -> {"compliance_pending"} \cup Abandon
    [] from = "compliance_pending"         -> {"order_filled"} \cup Abandon
    [] from = "order_filled"               -> {"completed"} \cup Abandon
    [] OTHER                               -> {}

\* The relaxed graph lets any live session jump to the quote states.
allowedTargets(from, relaxStateGuards) ==
  BASE_TRANSITIONS(from) \cup
    (IF relaxStateGuards /\ from \notin TERMINAL_STATES
     THEN QUOTE_RELAX_TARGETS ELSE {})

isGraphEdgeAllowed(from, to, relaxStateGuards) ==
  IF from = to THEN from = "named_account_pending"
               ELSE to \in allowedTargets(from, relaxStateGuards)

\* Mutant: the bank-link way into a quote is forgotten.
needsWalletUnlessBankLinked(from, direction) ==
  direction = "wallet_to_wallet" \/ from = "wallet_required"

\* Whether a quote may be requested from this state only with a wallet.
needsWallet(from, direction) ==
  \/ direction = "wallet_to_wallet"
  \/ from = "wallet_required"
  \/ direction = "on_ramp" /\ from = "bank_link_required"

\* The names of the prerequisites a step from -> to lacks.
checkPrerequisites(from, to, ctx, reason, relaxStateGuards) ==
  { p \in Prerequisite :
      \/ /\ p = "kyc_approved"
         /\ to = "kyc_ok"
         /\ ~ ctx.kycApproved
      \/ /\ p = "compliance_submission_approved"
         /\ to = "compliance_handoff_ok"
         /\ ~ ctx.complianceSubmissionApproved
      \/ /\ p = "named_account_active"
         /\ to = "bank_link_required"
         /\ ~ ctx.namedAccountActive
      \/ /\ p = "wallet"
         /\ to = "quote_requested"
         /\ ~ relaxStateGuards
         /\ ~ ctx.hasWallet
         /\ needsWallet(from, ctx.direction)
      \/ /\ p = "settlement_signal"
         /\ to = "order_filled"
         /\ from = "compliance_pending"
         /\ reason \notin SETTLEMENT_REASONS }

\* Mutant: the prerequisites are checked and the graph is not.
assertCanTransitionOffGraph(from, to, ctx, reason, relaxStateGuards) ==
  IF from \in TERMINAL_STATES THEN "invalid_transition"
  ELSE IF checkPrerequisites(from, to, ctx, reason, relaxStateGuards) # {}
       THEN "prerequisite_missing" ELSE "ok"

\* "ok", or the code of the SessionStateError the assertion throws.
assertCanTransition(from, to, ctx, reason, relaxStateGuards) ==
  CASE \/ from \in TERMINAL_STATES
       \/ ~ isGraphEdgeAllowed(from, to, relaxStateGuards)
         -> "invalid_transition"
    [] /\ from \notin TERMINAL_STATES
       /\ isGraphEdgeAllowed(from, to, relaxStateGuards)
         -> IF checkPrerequisites(from, to, ctx, reason, relaxStateGuards) # {}
            THEN "prerequisite_missing" ELSE "ok"

\* Mutant: the first state is a KYC status, which no session has.
initialSessionStateOfKyc(direction) ==
  IF direction = "wallet_to_wallet" THEN "wallet_required" ELSE "pending"

\* The state a new session starts in.
initialSessionState(direction) ==
  IF direction = "wallet_to_wallet" THEN "wallet_required" ELSE "kyc_required"

=============================================================================
