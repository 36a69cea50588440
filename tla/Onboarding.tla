----------------------------- MODULE Onboarding -----------------------------
(***************************************************************************)
(* From KYC to a bank account: the Sumsub webhook, which saves the user's  *)
(* profile, hands the compliance pack to the partner, provisions a named   *)
(* account at BCB, and after each of these moves the user's sessions on.   *)
(*                                                                         *)
(* Several deliveries may be under way at once, as jobs of workers.  As in *)
(* Settlement, an action is one awaited statement with the code up to the  *)
(* next; transition() runs in call[p].                                     *)
(*                                                                         *)
(* Five times the handler runs transitionEligibleSessionsForUser, a loop   *)
(* over sessions read once: walk[p] names the loop by its target state.    *)
(*                                                                         *)
(* Left out: what is in a profile, a pack or an account; the row of the    *)
(* pack, which no code reads; events that are not a GREEN review of a      *)
(* known user, which change nothing; wallets and the quotes they allow.    *)
(***************************************************************************)
EXTENDS SessionGates, Naturals, Sequences

CONSTANTS
  PartnerAnswers, \* what the compliance partner may answer to a pack
  BankReplies,    \* what may come of a provisioning request to BCB
  MaxWebhooks,    \* bound on webhook deliveries
  MaxAccounts     \* bound on account rows of a user

ASSUME SessionIdAssumption == Sessions \subseteq Nat \ {0}
ASSUME PartnerAssumption ==
  PartnerAnswers \subseteq {"approved", "pending", "rejected", "review"}
ASSUME BankAssumption ==
  BankReplies \subseteq
    { "created", "created_without_iban", "accepted", "error",
      "missing_credentials", "auth_failed" }
ASSUME BoundAssumption == MaxWebhooks \in Nat /\ MaxAccounts \in Nat

VARIABLES
  approved,       \* users whose KYC profile is approved
  submission,     \* status of each user's newest submission, or Absent
  accounts,       \* statuses of each user's named accounts, oldest first
  webhooks,       \* deliveries so far
  job,            \* what each worker is doing
  broken          \* history: some delivery has failed half-way

tables == <<approved, submission, accounts, everHeld>>
Untouched == UNCHANGED <<tables, webhooks, job>>
vars == <<serviceVars, tables, webhooks, job, broken>>

-----------------------------------------------------------------------------

\* The loops, in the order of the handler, by the state they move sessions to.
Loop ==
  { "kyc_ok", "compliance_handoff_pending", "compliance_handoff_ok",
    "named_account_pending", "bank_link_required" }

JobStep ==
  { "none", "saveProfile", "submitPack", "createSubmission", "findAccount",
    "provision", "saveAccount", "findSessions", "nextSession", "sessionMoved" }

\* account is the index of the row found by findAccount, 0 if there was none;
\* answer the partner's, then the bank's; todo the sessions still to move.
Job ==
  [ step    : JobStep,
    user    : Users \cup {Absent},
    loop    : Loop \cup {Absent},
    todo    : SUBSET Sessions,
    answer  : PartnerAnswers \cup {"active", "pending", Absent},
    account : 0..MaxAccounts ]

NoJob == [step |-> "none", user |-> Absent, loop |-> Absent, todo |-> {},
          answer |-> Absent, account |-> 0]

Idle(p) == job[p].step = "none"
Goto(p, j) == job' = [job EXCEPT ![p] = j]
Finish(p) == Goto(p, NoJob)
InLoop(j, loop) == [j EXCEPT !.step = "findSessions", !.loop = loop]

Learn(u, f) == everHeld' = [everHeld EXCEPT ![u] = @ \cup {f}]

-----------------------------------------------------------------------------

\* Mutant: the second loop looks for the sessions the first one looked for.
SourceOfFirst(loop) ==
  CASE loop = "kyc_ok"                     -> "kyc_required"
    [] loop = "compliance_handoff_pending" -> "kyc_required"
    [] loop = "compliance_handoff_ok"      -> "compliance_handoff_pending"
    [] loop = "named_account_pending"      -> "compliance_handoff_ok"
    [] loop = "bank_link_required"         -> "named_account_pending"

\* The state a loop's filter asks of a session.
Source(loop) ==
  CASE loop = "kyc_ok"                     -> "kyc_required"
    [] loop = "compliance_handoff_pending" -> "kyc_ok"
    [] loop = "compliance_handoff_ok"      -> "compliance_handoff_pending"
    [] loop = "named_account_pending"      -> "compliance_handoff_ok"
    [] loop = "bank_link_required"         -> "named_account_pending"

Reason(loop) ==
  CASE loop = "kyc_ok"                     -> "kyc_webhook_approved"
    [] loop = "compliance_handoff_pending" -> "compliance_pack_submitted"
    [] loop = "compliance_handoff_ok"      -> "compliance_partner_approved"
    [] loop = "named_account_pending"      -> "named_account_provision_started"
    [] loop = "bank_link_required"         -> "named_account_active"

\* Where the handler goes on after a loop.
After(j) ==
  CASE j.loop = "kyc_ok" -> [j EXCEPT !.step = "submitPack"]
    [] j.loop = "compliance_handoff_pending" ->
         IF j.answer = "approved" THEN InLoop(j, "compliance_handoff_ok") ELSE NoJob
    [] j.loop = "compliance_handoff_ok" -> [j EXCEPT !.step = "findAccount"]
    [] j.loop = "named_account_pending" -> [j EXCEPT !.step = "provision"]
    [] j.loop = "bank_link_required"    -> NoJob

\* findActiveByUserId and the filter.
FindSessions(p) ==
  LET j == job[p]
  IN /\ j.step = "findSessions"
     /\ Goto(p, [j EXCEPT !.step = "nextSession",
                          !.todo = {s \in Sessions : /\ UserOf[s] = j.user
                                                     /\ sessionState[s] = Source(j.loop)}])
     /\ UNCHANGED <<serviceVars, tables, webhooks>>

\* Newest session first.
NextSession(p) ==
  LET j == job[p]
  IN /\ j.step = "nextSession"
     /\ \/ \E s \in j.todo :
             /\ \A t \in j.todo : t <= s
             /\ Ask(p, s, j.loop, Reason(j.loop))
             /\ Goto(p, [j EXCEPT !.step = "sessionMoved", !.todo = @ \ {s}])
        \/ /\ j.todo = {}
           /\ Goto(p, After(j))
           /\ UNCHANGED serviceVars
     /\ UNCHANGED <<tables, webhooks>>

\* The loop passes over a session that was in no state to move; any other
\* error ends the job.
SessionMoved(p) ==
  LET j == job[p]
  IN /\ j.step = "sessionMoved"
     /\ \/ /\ \E e \in {"ok", "invalid_transition"} : ResultTaken(p, e)
           /\ Goto(p, [j EXCEPT !.step = "nextSession"])
        \/ /\ \E e \in Outcome \ {"ok", "invalid_transition"} : ResultTaken(p, e)
           /\ Finish(p)
     /\ UNCHANGED <<tables, webhooks>>

-----------------------------------------------------------------------------

\* A user's sessions are created in the order of their numbers.
OpenSession(s) ==
  /\ \A t \in Sessions : t < s /\ UserOf[t] = UserOf[s] => sessionState[t] # Absent
  /\ CreateSession(s)
  /\ UNCHANGED <<tables, webhooks, job>>

\* POST /webhooks/sumsub, a GREEN review of a user with a session.
KycWebhook(p, u) ==
  /\ Idle(p)
  /\ webhooks < MaxWebhooks
  /\ \E s \in Sessions : UserOf[s] = u /\ sessionState[s] # Absent
  /\ webhooks' = webhooks + 1
  /\ Goto(p, [NoJob EXCEPT !.step = "saveProfile", !.user = u])
  /\ UNCHANGED <<serviceVars, tables>>

\* Mutant: the handler writes the sessions' first move itself.
SaveProfileAndState(p) ==
  LET j == job[p]
  IN /\ j.step = "saveProfile"
     /\ approved' = approved \cup {j.user}
     /\ Learn(j.user, "kycApproved")
     /\ sessionState' = [s \in Sessions |->
          IF UserOf[s] = j.user /\ sessionState[s] = "kyc_required"
          THEN "kyc_ok" ELSE sessionState[s]]
     /\ Goto(p, [j EXCEPT !.step = "submitPack"])
     /\ UNCHANGED <<audited, call, submission, accounts, webhooks>>

\* Upsert the profile as approved.
SaveProfile(p) ==
  LET j == job[p]
  IN /\ j.step = "saveProfile"
     /\ approved' = approved \cup {j.user}
     /\ Learn(j.user, "kycApproved")
     /\ Goto(p, InLoop(j, "kyc_ok"))
     /\ UNCHANGED <<serviceVars, submission, accounts, webhooks>>

\* Build the pack, store it, and hand it to the partner.
SubmitPack(p, answer) ==
  LET j == job[p]
  IN /\ j.step = "submitPack"
     /\ j.user \in approved
     /\ Goto(p, [j EXCEPT !.step = "createSubmission", !.answer = answer])
     /\ UNCHANGED <<serviceVars, tables, webhooks>>

\* The row has the partner's status from the start, so that the update to
\* approved which follows the next loop changes no status.
CreateSubmission(p) ==
  LET j == job[p]
  IN /\ j.step = "createSubmission"
     /\ submission' = [submission EXCEPT ![j.user] = j.answer]
     /\ IF j.answer = "approved" THEN Learn(j.user, "complianceSubmissionApproved")
                                 ELSE UNCHANGED everHeld
     /\ Goto(p, InLoop(j, "compliance_handoff_pending"))
     /\ UNCHANGED <<serviceVars, approved, accounts, webhooks>>

\* Mutant: an active account is provisioned again.
FindAccountAlwaysProvision(p) ==
  LET j == job[p]
  IN /\ j.step = "findAccount"
     /\ Goto(p, [InLoop(j, "named_account_pending") EXCEPT !.account = Len(accounts[j.user])])
     /\ UNCHANGED <<serviceVars, tables, webhooks>>

\* namedAccountsRepo.findByUserId: the newest row decides.
HasActiveAccount(u) == accounts[u] # <<>> /\ accounts[u][Len(accounts[u])] = "active"

FindAccount(p) ==
  LET j == job[p]
  IN /\ j.step = "findAccount"
     /\ \/ /\ HasActiveAccount(j.user)
           /\ Goto(p, InLoop(j, "bank_link_required"))
        \/ /\ ~ HasActiveAccount(j.user)
           /\ Goto(p, [InLoop(j, "named_account_pending") EXCEPT !.account = Len(accounts[j.user])])
     /\ UNCHANGED <<serviceVars, tables, webhooks>>

\* getAccessToken has no token to give.
NoToken == {"missing_credentials", "auth_failed"}

\* provisionNamedAccount: a virtual account is active once it has an IBAN.
provisionNamedAccount(reply) ==
  CASE reply \in NoToken \cup {"error"}              -> "refused"
    [] reply \in {"accepted", "created_without_iban"} -> "pending"
    [] reply = "created"                              -> "active"

\* An error of the adapter is caught and forgotten.
Provision(p, reply) ==
  LET j == job[p]
      answer == provisionNamedAccount(reply)
  IN /\ j.step = "provision"
     /\ IF answer = "refused" THEN Finish(p)
        ELSE Goto(p, [j EXCEPT !.step = "saveAccount", !.answer = answer])
     /\ UNCHANGED <<serviceVars, tables, webhooks>>

\* Mutant: the row found earlier is not updated, a new one is inserted.
InsertAccount(p) ==
  LET j == job[p]
      rows == accounts[j.user]
  IN /\ j.step = "saveAccount"
     /\ Len(rows) < MaxAccounts
     /\ accounts' = [accounts EXCEPT ![j.user] = Append(rows, j.answer)]
     /\ IF j.answer = "active"
        THEN Learn(j.user, "namedAccountActive") /\ Goto(p, InLoop(j, "bank_link_required"))
        ELSE UNCHANGED everHeld /\ Finish(p)
     /\ UNCHANGED <<serviceVars, approved, submission, webhooks>>

\* Mutant: the sessions that wait for the account are not moved on.
SaveAccountOnly(p) ==
  LET j == job[p]
      rows == accounts[j.user]
  IN /\ j.step = "saveAccount"
     /\ j.account = 0 => Len(rows) < MaxAccounts
     /\ accounts' = [accounts EXCEPT ![j.user] =
          IF j.account = 0 THEN Append(rows, j.answer)
                           ELSE [rows EXCEPT ![j.account] = j.answer]]
     /\ IF j.answer = "active" THEN Learn(j.user, "namedAccountActive") ELSE UNCHANGED everHeld
     /\ Finish(p)
     /\ UNCHANGED <<serviceVars, approved, submission, webhooks>>

\* Update the row found before the loop and the bank's answer, or insert one;
\* only an active account moves sessions on.
SaveAccount(p) ==
  LET j == job[p]
      rows == accounts[j.user]
  IN /\ j.step = "saveAccount"
     /\ j.account = 0 => Len(rows) < MaxAccounts
     /\ accounts' = [accounts EXCEPT ![j.user] =
          IF j.account = 0 THEN Append(rows, j.answer)
                           ELSE [rows EXCEPT ![j.account] = j.answer]]
     /\ IF j.answer = "active"
        THEN Learn(j.user, "namedAccountActive") /\ Goto(p, InLoop(j, "bank_link_required"))
        ELSE UNCHANGED everHeld /\ Finish(p)
     /\ UNCHANGED <<serviceVars, approved, submission, webhooks>>

\* The statement awaited fails, or the process dies: what was written stays.
JobFails(p) ==
  /\ MayFail
  /\ ~ Idle(p)
  /\ call[p].step = "idle"
  /\ Finish(p)
  /\ broken' = TRUE
  /\ UNCHANGED <<serviceVars, tables, webhooks>>

-----------------------------------------------------------------------------

\* loadUserFlags: the true flags it may find.  The account query has a LIMIT
\* and no ORDER BY: any of the user's rows may be the one it takes.
Flags(u) ==
  LET rows == accounts[u]
      firm == {f \in {"kycApproved", "complianceSubmissionApproved"} :
                 \/ f = "kycApproved" /\ u \in approved
                 \/ f = "complianceSubmissionApproved" /\ submission[u] = "approved"}
  IN IF rows = <<>> THEN {firm}
     ELSE {firm \cup {f \in {"namedAccountActive"} : rows[i] = "active"} : i \in DOMAIN rows}

TransitionStep(p) ==
  \/ FindSession(p)
  \/ \E s \in Sessions :
       call[p].session = s /\ \E held \in Flags(UserOf[s]) : LoadFlags(p, held)
  \/ UpdateState(p)
  \/ AppendEvent(p)

Work(p) ==
  \/ TransitionStep(p) /\ Untouched
  \/ FindSessions(p) \/ NextSession(p) \/ SessionMoved(p)
  \/ SaveProfile(p)
  \/ \E a \in PartnerAnswers : SubmitPack(p, a)
  \/ CreateSubmission(p)
  \/ FindAccount(p)
  \/ \E r \in BankReplies : Provision(p, r)
  \/ SaveAccount(p)

Init ==
  /\ sessionState = [s \in Sessions |-> Absent]
  /\ audited = [s \in Sessions |-> Absent]
  /\ call = [p \in Workers |-> IdleFrame]
  /\ approved = {}
  /\ submission = [u \in Users |-> Absent]
  /\ accounts = [u \in Users |-> <<>>]
  /\ webhooks = 0
  /\ job = [p \in Workers |-> NoJob]
  /\ everHeld = [u \in Users |-> {}]
  /\ broken = FALSE

Next ==
  \/ \E s \in Sessions : OpenSession(s) /\ UNCHANGED broken
  \/ \E p \in Workers :
       \/ \E u \in Users : KycWebhook(p, u) /\ UNCHANGED broken
       \/ Work(p) /\ UNCHANGED broken
       \/ QueryFails(p) /\ broken' = TRUE /\ Untouched
       \/ JobFails(p)

Spec == Init /\ [][Next]_vars

\* A job under way is resumed when its statement is answered.
FairSpec == Spec /\ \A p \in Workers : WF_vars(Work(p) /\ UNCHANGED broken)

-----------------------------------------------------------------------------
(***************************************************************************)
(* Properties                                                              *)
(***************************************************************************)

TypeOK ==
  /\ sessionState \in [Sessions -> SessionState \cup {Absent}]
  /\ call \in [Workers -> Frame]
  /\ approved \subseteq Users
  /\ submission \in [Users -> PartnerAnswers \cup {Absent}]
  /\ \A u \in Users : /\ accounts[u] \in Seq({"active", "pending"})
                      /\ Len(accounts[u]) <= MaxAccounts
  /\ webhooks \in 0..MaxWebhooks
  /\ job \in [Workers -> Job]
  /\ everHeld \in [Users -> SUBSET UserFlag]
  /\ broken \in BOOLEAN

\* An account that is active stays active: a later delivery does not put it
\* back to pending (one delivery at a time).
ActiveAccountStays ==
  [][ \A u \in Users : \A i \in DOMAIN accounts[u] :
        accounts[u][i] = "active" => accounts'[u][i] = "active" ]_vars

\* A user has one named account however often KYC is approved (one provider
\* and one currency are ever asked for).
OneAccount == \A u \in Users : Len(accounts[u]) <= 1

\* Once the server is idle, and as long as no delivery has failed half-way, no
\* session waits for an account its user has.
NobodyWaitsForActiveAccount ==
  \A s \in Sessions :
    /\ ~ broken
    /\ \A p \in Workers : Idle(p)
    /\ \E i \in DOMAIN accounts[UserOf[s]] : accounts[UserOf[s]][i] = "active"
    => sessionState[s] # "named_account_pending"

\* A delivery that ends with an active account leaves no session waiting for
\* the account and, when it was the one to open it, none of those it found
\* anywhere on the way there, also when earlier deliveries failed half-way.
\* (A session opened while it ran may still wait for KYC.)
RedeliveryCompletes ==
  [][ \A p \in Workers :
        /\ job[p].step = "nextSession"
        /\ job[p].loop = "bank_link_required"
        /\ job[p].todo = {}
        /\ job'[p] = NoJob
        => \A s \in Sessions :
             UserOf[s] = job[p].user =>
               /\ sessionState[s] # "named_account_pending"
               /\ job[p].answer = "active" =>
                    sessionState[s] \notin
                      {"kyc_ok", "compliance_handoff_pending", "compliance_handoff_ok"} ]_vars

\* A session that waits for KYC when its user's first approval arrives gets
\* through to its bank link, unless the partner or the bank did not say yes or
\* a delivery failed half-way (what RedeliveryCompletes is about).
ApprovalOnboards ==
  \A s \in Sessions :
    ( /\ sessionState[s] = "kyc_required"
      /\ accounts[UserOf[s]] = <<>>
      /\ \E p \in Workers : job[p].step = "saveProfile" /\ job[p].user = UserOf[s] )
    ~> ( \/ broken
         \/ /\ \A p \in Workers : Idle(p)
            /\ \/ sessionState[s] = "bank_link_required"
               \/ submission[UserOf[s]] # "approved"
               \/ ~ HasActiveAccount(UserOf[s]) )

=============================================================================
