\* Two CPUs and two actions; the map can be replaced once.
CONSTANTS
  NumCpus = 2
  NumKeys = 2
  MaxMaps = 2
  MaxPackets = 2
SPECIFICATION FairSpec
INVARIANTS DeltasNotNegative ReadingInWindow
PROPERTY FollowsPin
CHECK_DEADLOCK FALSE
