SPECIFICATION Spec
CONSTANTS
  u1 = u1
  u2 = u2
  Nil = Nil
  Users <- TwoUsers
  Slots = {1, 2}
  MaxVisits = 3
INVARIANTS
  OneIdentity
PROPERTIES
  SignoutSticks
  Restored
  Settles
