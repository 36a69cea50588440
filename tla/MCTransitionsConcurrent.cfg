\* Two workers, one on-ramp session, guards strict, queries may fail.
SPECIFICATION Spec
CONSTANTS
  Absent = Absent
  s1 = s1
  s2 = s2
  u1 = u1
  w1 = w1
  w2 = w2
  Sessions <- MCSessions
  Users = {u1}
  Workers = {w1, w2}
  UserOf <- MCUserOf
  DirectionOf <- MCOnRamp
  RelaxStateGuards = FALSE
  MayFail = TRUE
  Calls <- CodeCalls
SYMMETRY WorkerSymmetry
INVARIANTS TypeOK OnboardingGates
PROPERTIES OnlyStaleWritesJump
