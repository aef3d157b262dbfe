\* Three names; the user may leave and start again at any time.
CONSTANTS
  Name <- MCName
  Data = {d1, d2}
SPECIFICATION Spec
INVARIANT Sorted
PROPERTY NothingLost
