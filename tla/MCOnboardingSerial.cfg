\* Three sessions (one of wallets only), deliveries that may fail half-way and
\* are repeated.
SPECIFICATION FairSpec
CONSTANTS
  Absent = Absent
  u1 = u1
  w1 = w1
  w2 = w2
  Sessions = {1, 2, 3}
  Users = {u1}
  Workers = {w1}
  UserOf <- MCUserOf
  DirectionOf <- MCWalletsLast
  RelaxStateGuards = FALSE
  MayFail = TRUE
  PartnerAnswers = {"approved", "pending", "rejected", "review"}
  BankReplies = {"created", "created_without_iban", "accepted", "error",
                 "missing_credentials", "auth_failed"}
  MaxWebhooks = 4
  MaxAccounts = 2
INVARIANTS TypeOK OneAccount NobodyWaitsForActiveAccount
PROPERTIES ActiveAccountStays RedeliveryCompletes ApprovalOnboards
\* Once the deliveries are used up the server idles.
CHECK_DEADLOCK FALSE
