\* Two clients, killed at any point, and room for every event, as for ten.
CONSTANTS
  Client = {c1, c2}
  MAX_EVENTS = 3
SPECIFICATION FairSpec
INVARIANTS NoUseAfterFree OneUnderWay ResultOfTyped NoHangup ServerSurvives
PROPERTY Served
CHECK_DEADLOCK FALSE
