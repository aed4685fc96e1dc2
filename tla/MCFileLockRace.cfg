SPECIFICATION Spec
CONSTANTS
  a1 = a1  a2 = a2  a3 = a3  a4 = a4  p1 = p1  p2 = p2  p3 = p3  p4 = p4
  Attempts = {a1, a2, a3, a4}
  Procs = {p1, p2}
  ProcOf <- OwnerAndRest
  NoFile = NoFile
  MaxCrashes = 1
PROPERTY OnlyJudgedLockDeleted
CHECK_DEADLOCK FALSE
