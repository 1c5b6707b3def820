SPECIFICATION Spec
CONSTANTS
  d1 = d1
  d2 = d2
  Nil = Nil
  Deps <- TwoDeps
  Parts <- RecordAndSecrets
  MaxGen = 2
INVARIANTS
  ListIsCurrent
  ShowsNoOldSecret
