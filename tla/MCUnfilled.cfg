\* One worker polls an order that has been filled.
SPECIFICATION Spec
CONSTANTS
  Absent = Absent
  u1 = u1
  w1 = w1
  w2 = w2
  d1 = d1
  Sessions = {1}
  Users = {u1}
  Workers = {w1}
  UserOf <- MCUserOf
  DirectionOf <- MCOffRamp
  RelaxStateGuards = FALSE
  MayFail = FALSE
  Deposits = {d1}
  PayerOf <- MCPayerOf
  MaxQuotes = 1
  MaxLapses = 1
  MaxOrders = 1
  MaxInbox = 1
PROPERTIES FilledStaysFilled
\* Once the bounds are used up no client asks for more and the server idles.
CHECK_DEADLOCK FALSE
