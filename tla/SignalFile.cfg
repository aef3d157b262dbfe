\* Either process killed anywhere, signals as late as may be.
SPECIFICATION SignalFairSpec
INVARIANT OneAtATime
PROPERTY ParentGoesOn
CHECK_DEADLOCK FALSE
