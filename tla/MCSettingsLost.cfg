SPECIFICATION Spec
CONSTANTS
  Nil = Nil
  Crashed = Crashed
  ldap = ldap
  Texts <- Realm
  MaxNodes = 1
  MaxCoded = 2
  MaxSaves = 1
  Refusals = FALSE
INVARIANT SettingsRun
