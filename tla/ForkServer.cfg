\* Every file of up to three bytes; a client killed anywhere.
CONSTANTS
  BufSize = 2
  MaxFile = 3
  SockCap = 3
SPECIFICATION ForkFairSpec
INVARIANTS InStep WholeFile
PROPERTIES ClientGoesOn ChildEnds
CHECK_DEADLOCK FALSE
