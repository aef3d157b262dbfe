\* main, two writers and two readers; either user of the pipe may be
\* missing, and any child may fail at the file.
CONSTANTS
  Main = main  W0 = w0  R0 = r0
  Writer = {main, w0, w1}
  Reader = {r0, r1}
  MayFail = {w0, r0}
  Faulty = {w0, w1, r0, r1}
  PipeCap = 2
SPECIFICATION FairSpec
INVARIANT StartTogether
PROPERTIES FileShared PipeReadReturns PipeWriteReturns
