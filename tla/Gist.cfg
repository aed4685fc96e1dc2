SPECIFICATION Spec
CONSTANTS
  Pushes = {p1, p2}
  Pulls = {l1}
  Tests = {t1}
  Configs = {c1, c2}
  Edits = {e1}
  Foreign = {e1}
  Gist = g1
  Original = d0
  None = None
  LateEffects = FALSE
  MaxCrashes = 1
INVARIANTS TypeOK ExactlyOneWinner BootstrapOnce TrackedRevisionStood
PROPERTIES ImplementsDataset EveryRequestEnds
CHECK_DEADLOCK FALSE
