\* One reader and one writer always survive; the others may die anywhere, so
\* the survivors may be stuck for ever.
CONSTANTS
  Reader = {r1, r2, r3}
  Writer = {w1, w2}
  Mortal = {r1, r2, w1}
SPECIFICATION FairSpec
INVARIANTS Exclusion CounterExact PermitsConserved
PROPERTIES GateStopsNewcomers GateHolderEnters
CHECK_DEADLOCK FALSE
