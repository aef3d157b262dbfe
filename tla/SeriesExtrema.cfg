\* As in C, RAND_MAX is INT_MAX.  Series of one to three numbers out of two.
CONSTANTS
  SERIES_SIZE = 4
  RAND_MAX = 1
  INT_MAX = 1
  INT_MIN <- MinusOne
SPECIFICATION BusySpec
INVARIANTS PrintedExtrema NoneBlockedAtDestroy
PROPERTIES EverySeriesComputed Terminates
CHECK_DEADLOCK FALSE
