\* rmax below the number of readers; any process may die anywhere.
CONSTANTS
  Reader = {r1, r2, r3}
  Writer = {w1, w2}
  Mortal = {r1, r2, r3, w1, w2}
  rmax = 2
SPECIFICATION FairSpec
INVARIANTS Exclusion SemaphoresAgree
PROPERTY ReaderEnters
CHECK_DEADLOCK FALSE
