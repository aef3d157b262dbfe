\* Two runs, at once or one after another, any process killed anywhere.
CONSTANTS
  Run = {run1, run2}
  PipeCap = 1
SPECIFICATION FairSpec
INVARIANTS OnePermit FileFilled
PROPERTIES RunGoesOn ChildServed
CHECK_DEADLOCK FALSE
