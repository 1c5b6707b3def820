SPECIFICATION Spec
CONSTANTS
  Nil = Nil
  Users <- TwoUsers
  Roles <- TwoRoles
  MaxPasswords = 1
INVARIANTS
  RowsAreCurrent
PROPERTIES
  ReturnsByLogin
