\* Two requests with the key of one order, nothing fails.
SPECIFICATION Spec
CONSTANTS
  Absent = Absent
  k1 = k1
  k2 = k2
  k3 = k3
  w1 = w1
  w2 = w2
  w3 = w3
  Keys = {k2}
  Workers = {w1, w2}
  OperationOf <- MCOrders
  Malformed = {}
  MayFail = FALSE
  MaxRequests = 4
  MaxExpiries = 0
INVARIANTS ProcessedOnce
\* Once the requests are used up the server idles.
CHECK_DEADLOCK FALSE
