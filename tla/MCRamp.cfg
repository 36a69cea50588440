\* One off-ramp session from its creation to its fill, two workers whose
\* queries may fail.
SPECIFICATION Spec
CONSTANTS
  Absent = Absent
  u1 = u1
  w1 = w1
  w2 = w2
  d1 = d1
  d2 = d2
  Sessions = {1}
  Users = {u1}
  Workers = {w1, w2}
  UserOf <- MCUserOf
  DirectionOf <- MCOffRamp
  RelaxStateGuards = FALSE
  MayFail = TRUE
  PartnerAnswers = {"approved", "pending"}
  BankReplies = {"created", "accepted"}
  MaxWebhooks = 1
  MaxAccounts = 1
  Deposits = {d1, d2}
  PayerOf <- MCOneUnknown
  MaxQuotes = 1
  MaxLapses = 0
  MaxOrders = 1
  MaxInbox = 1
SYMMETRY WorkerSymmetry
INVARIANTS OrdersBehindGates FilledOnSettlement RowsMatchProvider
PROPERTIES ServiceSpec
\* Once the deliveries are used up the server idles.
CHECK_DEADLOCK FALSE
