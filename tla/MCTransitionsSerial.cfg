\* One worker and no failure, any call: the abstract promise is kept.
SPECIFICATION FairSpec
CONSTANTS
  Absent = Absent
  s1 = s1
  s2 = s2
  u1 = u1
  w1 = w1
  w2 = w2
  Sessions <- MCTwoSessions
  Users = {u1}
  Workers = {w1}
  UserOf <- MCTwoUserOf
  DirectionOf <- MCOnRampAndWallets
  RelaxStateGuards = FALSE
  MayFail = FALSE
  Calls <- MCAnyCalls
INVARIANTS AuditComplete
PROPERTIES LifecycleSpec
