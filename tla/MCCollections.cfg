SPECIFICATION UsingSpec
CONSTANTS
  Values = {u, v, w}
  Nothing = Nothing
  Yes = Yes
  No = No
  Uninit = Uninit
  OutOfBounds = OutOfBounds
  INITIAL = 2
  GROWTH = 2
  MAXCOUNT = 5
  Hashes = {0, 1, 2, 3, 5}
  MAXSET = 7
  Keys = {0, 1, 2, 5, 8}
  MapValues = {x, y}
  NotFound = NotFound
  KeyHash <- Itself
  MAXMAP = 12
  FIRSTBUCKETS = 2
  MOREBUCKETS = 1
  Elements = {1, 2, 3}
  MAXLENGTH = 5
INVARIANT NothingLost
PROPERTIES
  ImplementsList
  ExactWhileDense
  ImplementsDictionary
  SortsAndSearches
CHECK_DEADLOCK FALSE
