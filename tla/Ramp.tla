-------------------------------- MODULE Ramp --------------------------------
(***************************************************************************)
(* The whole way of a session: the handlers of Onboarding and the jobs of  *)
(* SettlementJobs, run by the same workers over the same sessions and      *)
(* through the same transition service.                                    *)
(*                                                                         *)
(* Each of the two is checked on its own with the other's part of the      *)
(* world fixed: Settlement begins with a user who has passed every     *)
(* gate.  Here a quote may be asked for, and an order submitted, while the *)
(* user is still in the middle of KYC, and transition() reads the flags    *)
(* Onboarding really wrote.  No route inserts a wallet, so that every      *)
(* session that trades is an off-ramp one.                                 *)
(***************************************************************************)
EXTENDS SessionGates, SettlementJobs

CONSTANTS PartnerAnswers, BankReplies, MaxWebhooks, MaxAccounts      \* of Onboarding

ASSUME PartnerAssumption == Absent # "approved"
ASSUME BankAssumption ==
  BankReplies \subseteq
    { "created", "created_without_iban", "accepted", "error",
      "missing_credentials", "auth_failed" }
ASSUME AccountsAssumption == MaxAccounts \in Nat

VARIABLES
  approved, submission, accounts, webhooks, broken,
  kycJob          \* what each worker does of Onboarding; job is its trade

onboardingVars == <<approved, submission, accounts, webhooks, everHeld, broken, kycJob>>
settlementVars == <<tables, job>>
vars == <<serviceVars, onboardingVars, settlementVars>>

O == INSTANCE Onboarding WITH job <- kycJob

-----------------------------------------------------------------------------

Init ==
  /\ O!Init
  /\ quotes = <<>>
  /\ orders = <<>>
  /\ provider = <<>>
  /\ inbox = <<>>
  /\ credited = {}
  /\ job = [p \in Workers |-> NoJob]

\* What the onboarding handlers do, and every step of transition(): the flags
\* it loads are those of Onboarding, whichever handler has called it.
OnboardingStep ==
  /\ \/ \E s \in Sessions : O!OpenSession(s) /\ UNCHANGED broken
     \/ \E p \in Workers :
          \/ Idle(p) /\ \E u \in Users : O!KycWebhook(p, u) /\ UNCHANGED broken
          \/ O!Work(p) /\ UNCHANGED broken
          \/ QueryFails(p) /\ broken' = TRUE /\ O!Untouched
          \/ O!JobFails(p)
  /\ UNCHANGED settlementVars

\* A bank account is found by its number once the bank has given it one; the row
\* keeps the number whatever becomes of its status.
Known(d) == PayerOf[d] # Absent => "namedAccountActive" \in everHeld[PayerOf[d]]

StartJob(p) ==
  /\ O!Idle(p)
  /\ \/ \E s \in Sessions : RequestQuote(p, s)
     \/ \E q \in Ids(quotes) : AcceptQuote(p, q)
     \/ \E s \in Sessions, q \in Ids(quotes) : SubmitOrder(p, s, q)
     \/ \E o \in Ids(orders) : PollOrder(p, o)
     \/ \E d \in Deposits : Known(d) /\ ReceiveDeposit(p, d)

SettlementStep ==
  /\ \/ \E p \in Workers : StartJob(p) \/ JobStepOf(p) \/ JobFails(p)
     \/ \E q \in Ids(quotes) : QuoteLapses(q)
     \/ \E k \in Ids(provider) :
          \/ \E v \in {"cleared", "rejected"} : ProviderDecides(k, v)
          \/ ProviderFills(k)
  /\ UNCHANGED onboardingVars

Next == OnboardingStep \/ SettlementStep

Spec == Init /\ [][Next]_vars

-----------------------------------------------------------------------------
(***************************************************************************)
(* Properties                                                              *)
(***************************************************************************)

\* All handlers together are callers SessionTransitions is about, so that its
\* theorems hold of the composed server.
Service == INSTANCE SessionTransitions WITH Calls <- CodeCalls

ServiceSpec == Service!Spec

\* The gates a user has to pass before trading.
Passed(s) == RequiredFlags(DirectionOf[s], "quote_requested") \subseteq everHeld[UserOf[s]]

\* An order is placed with the provider, and rows of orders are made, only for
\* users who have passed KYC, the partner and the bank.  submitOrder asks none
\* of this: that a quote exists is all that stands between.
OrdersBehindGates ==
  ~ RelaxStateGuards =>
    /\ \A o \in Ids(orders) : Passed(orders[o].session)
    /\ \A p \in Workers :
         job[p].step \in {"placeOrder", "createOrder"} => Passed(job[p].session)

=============================================================================
