\* main, two writers and three readers of which the barrier lets two in;
\* either user of the pipe may be missing, and the first writer and two of the
\* readers may fail at the file.
CONSTANTS
  Main = main  W0 = w0  R0 = r0
  Writer = {main, w0, w1}
  Reader = {r0, r1, r2}
  MayFail = {w0, r0}
  Faulty = {w0, r0, r1}
  rmax = 2
  PipeCap = 1
SPECIFICATION FairSpec
PROPERTIES FileShared PipeReadReturns
