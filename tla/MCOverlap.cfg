\* Two requests at a time on a project and its deployment, or on two projects of
\* one name, with every refusal on the way to a namespace.
SPECIFICATION Spec
INVARIANT NamespaceEach
 
CONSTANTS
  Nil = Nil
  i1 = i1
  i2 = i2
  n1 = n1
  n2 = n2
  u1 = u1
  h1 = h1
  h2 = h2
  v1 = v1
  v2 = v2
  s1 = s1
  x1 = x1
  x2 = x2
  Handlers <- TwoHandlers
  Ids <- TwoIds
  Names <- OneName
  LimitValues <- OneLimit
  RoleEntries <- NoRoles
  Deps <- OneDep
  Versions <- OneVersion
  Sizes <- OneSize
  Xids <- OneXid
  Users <- OneUser
  DepRequests <- AnyParts
  IngressName <- MCIngressName
  Ingresses <- MCIngresses
  Ops = {"create", "edit", "addRole", "deploy", "undeploy"}
  Faulty = {"namespaces", "resourcequotas", "limitranges", "lists", "secrets", "kibanas"}
  RoleRequests = {"Viewer"}
  Crashes = FALSE
