\* One request at a time, of every kind, with crashes and the refusals that
\* change the course of a handler.
SPECIFICATION Spec
PROPERTY RecordedUntilDeleted
PROPERTY AtomicRequests
CONSTANTS
  Nil = Nil
  i1 = i1
  i2 = i2
  n1 = n1
  n2 = n2
  u1 = u1
  h1 = h1
  h2 = h2
  v1 = v1
  v2 = v2
  s1 = s1
  x1 = x1
  x2 = x2
  Handlers <- OneHandler
  Ids <- OneId
  Names <- OneName
  LimitValues <- OneLimit
  RoleEntries <- NoRoles
  Deps <- TwoDeps
  Versions <- OneVersion
  Sizes <- OneSize
  Xids <- OneXid
  Users <- OneUser
  DepRequests <- BothParts
  IngressName <- MCIngressName
  Ingresses <- MCIngresses
  Ops = {"create", "edit", "rename", "addRole", "deleteProject", "deploy", "undeploy"}
  Faulty = {"limitranges", "kibanas", "lists"}
  RoleRequests = {"Viewer"}
  Crashes = TRUE
