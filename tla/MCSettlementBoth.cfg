\* One worker, an off-ramp and a newer on-ramp session of one user.
SPECIFICATION FairSpec
CONSTANTS
  Absent = Absent
  u1 = u1
  w1 = w1
  w2 = w2
  d1 = d1
  Sessions = {1, 2}
  Users = {u1}
  Workers = {w1}
  UserOf <- MCUserOf
  DirectionOf <- MCBoth
  RelaxStateGuards = FALSE
  MayFail = FALSE
  Deposits = {d1}
  PayerOf <- MCPayerOf
  MaxQuotes = 2
  MaxLapses = 0
  MaxOrders = 2
  MaxInbox = 1
INVARIANTS FilledOnSettlement IdleServerProcessed NonePassedOver
PROPERTIES DeliveriesProcessed DepositFillsClearedOrder
\* Once the bounds are used up no client asks for more and the server idles.
CHECK_DEADLOCK FALSE
