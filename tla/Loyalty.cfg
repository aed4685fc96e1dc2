SPECIFICATION Spec
CONSTANTS
  Sales = {i1}
  Redeeming = {i1}
  Returns = {t1}
  Awards = {y1}
  MaxRuns = 2
  MaxRetries = 2
  MaxOps = 2
  MaxAlone = 1
INVARIANTS TypeOK BookedOnce NothingBetween NothingForgotten
CHECK_DEADLOCK FALSE
PROPERTIES ImplementsPointsBook EveryOperationSettles
