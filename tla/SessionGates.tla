---------------------------- MODULE SessionGates ----------------------------
(***************************************************************************)
(* What must have been true of a user before a session of theirs can stand *)
(* in a state: the gates of KYC, partner, bank and wallet, stated over a   *)
(* history of the facts that have ever been true.                          *)
(*                                                                         *)
(* A module for whatever calls the transition service: the callers of      *)
(* SessionTransitions, and the handlers composed in Ramp.                  *)
(***************************************************************************)
EXTENDS TransitionService

VARIABLE
  everHeld          \* everHeld[u]: the facts that have ever been true of user u

\* The facts that must have been established before a session of direction d
\* can be in state st, if no guard is ever got round.
HandedOff == SessionState \ {"created", "kyc_required", "failed", "cancelled"}
Approved  == HandedOff \ {"kyc_ok", "compliance_handoff_pending"}
Funded    == Approved \ {"compliance_handoff_ok", "named_account_pending"}
Quoted    == Funded \ {"bank_link_required", "wallet_required"}

RequiredFlags(d, st) ==
  { f \in UserFlag :
      \/ f = "kycApproved"
         /\ d # "wallet_to_wallet" /\ st \in HandedOff
      \/ f = "complianceSubmissionApproved"
         /\ d # "wallet_to_wallet" /\ st \in Approved
      \/ f = "namedAccountActive"
         /\ d # "wallet_to_wallet" /\ st \in Funded
      \/ f = "hasWallet"
         /\ d # "off_ramp" /\ st \in Quoted }

\* No session stands beyond a gate its user has never passed, however calls
\* for the session overlap, fail half-way, or read the state another call is
\* about to overwrite: the writes of transition() check only what was read.
OnboardingGates ==
  \A s \in Sessions :
    sessionState[s] # Absent /\ ~ RelaxStateGuards =>
      RequiredFlags(DirectionOf[s], sessionState[s]) \subseteq everHeld[UserOf[s]]

=============================================================================
