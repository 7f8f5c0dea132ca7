CONSTANTS
  x = x  y = y  z = z
  g1 = g1  g2 = g2  g3 = g3
  Procs = {x, y, z}
  Programs = {g1, g2, g3}
  Jobs <- MCJobs
  MaxActions = 2
  MaxRetry = 1
  MaxCrashes = 2
  None = None
SPECIFICATION FairSpec
INVARIANTS LinksSurvive NothingLeftBehind CleanRecovers RefusedOnlyWhenOverlapped
PROPERTIES AtomicOperations OperationsReturn
CHECK_DEADLOCK FALSE
