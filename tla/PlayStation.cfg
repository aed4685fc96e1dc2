SPECIFICATION Spec
CONSTANTS
  Sessions = {s1, s2, s3}
  Devices = {d1}
  Finals = {f1, f2}
  Keys = {k1, k2}
  None = None
  MaxFaults = 2
  MaxCrashes = 1
INVARIANTS TypeOK OneActivePerDevice BookedOnce PaidAnswerIsDurable
PROPERTIES KeyIsForever LegalTransitions
CHECK_DEADLOCK FALSE
