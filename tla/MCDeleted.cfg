\* Two requests at a time while projects are deleted and created again, with
\* forms that list unknown roles and with crashes.
SPECIFICATION Spec
INVARIANT TypeOK
INVARIANT Governed
INVARIANT Monitored
PROPERTY DeletedStaysDeleted
PROPERTY CreatedAsAsked
CONSTANTS
  Nil = Nil
  i1 = i1
  i2 = i2
  n1 = n1
  n2 = n2
  u1 = u1
  h1 = h1
  h2 = h2
  v1 = v1
  v2 = v2
  s1 = s1
  x1 = x1
  x2 = x2
  Handlers <- TwoHandlers
  Ids <- TwoIds
  Names <- OneName
  LimitValues <- OneLimit
  RoleEntries <- SomeRoles
  Deps <- OneDep
  Versions <- OneVersion
  Sizes <- OneSize
  Xids <- OneXid
  Users <- OneUser
  DepRequests <- BothParts
  IngressName <- MCIngressName
  Ingresses <- MCIngresses
  Ops = {"create", "deploy", "deleteProject"}
  Faulty = {"lists", "limitranges"}
  RoleRequests = {"Viewer"}
  Crashes = TRUE
