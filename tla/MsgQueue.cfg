\* Both tasks, killed and started again up to the second queue.  Those who wait
\* for a turn that is lost wait for ever, so the system may stop.
CONSTANTS
  QueueCap = 2
  MaxQueues = 2
  MaxBehind = 2
SPECIFICATION QueueFairSpec
INVARIANT OneTurn
PROPERTY PeerEnds
CHECK_DEADLOCK FALSE
