SPECIFICATION Spec
CONSTANTS
  Nil = Nil
  Users <- TwoUsers
  Creator = "ann"
  MaxRows = 2
INVARIANTS
  GrantedAsShown
