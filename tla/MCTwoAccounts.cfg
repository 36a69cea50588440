\* Two deliveries at once open two accounts.
SPECIFICATION Spec
CONSTANTS
  Absent = Absent
  u1 = u1
  w1 = w1
  w2 = w2
  Sessions = {1}
  Users = {u1}
  Workers = {w1, w2}
  UserOf <- MCUserOf
  DirectionOf <- MCOffRamp
  RelaxStateGuards = FALSE
  MayFail = FALSE
  PartnerAnswers = {"approved"}
  BankReplies = {"created"}
  MaxWebhooks = 2
  MaxAccounts = 2
INVARIANTS OneAccount
\* Once the deliveries are used up the server idles.
CHECK_DEADLOCK FALSE
