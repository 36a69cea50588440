\* Three overlapping requests, failures anywhere, records that expire.
SPECIFICATION Spec
CONSTANTS
  Absent = Absent
  k1 = k1
  k2 = k2
  k3 = k3
  w1 = w1
  w2 = w2
  w3 = w3
  Keys = {k1, k2, k3}
  Workers = {w1, w2, w3}
  OperationOf <- MCOperationOf
  Malformed = {k3}
  MayFail = TRUE
  MaxRequests = 4
  MaxExpiries = 2
SYMMETRY WorkerSymmetry
INVARIANTS TypeOK OneSessionPerKey ExtraOrdersExcused RepeatsAgree
\* Once the requests are used up the server idles.
CHECK_DEADLOCK FALSE
