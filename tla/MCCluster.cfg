\* One request at a time, with forms of every kind; every call but those for the
\* ingress and for the quota may be refused.
SPECIFICATION Spec
INVARIANT KibanaAsRecorded
INVARIANT IngressAsRecorded
PROPERTY AcknowledgedLimits
PROPERTY CreatedAsAsked
CONSTANTS
  Nil = Nil
  i1 = i1
  i2 = i2
  n1 = n1
  n2 = n2
  u1 = u1
  h1 = h1
  h2 = h2
  v1 = v1
  v2 = v2
  s1 = s1
  x1 = x1
  x2 = x2
  Handlers <- OneHandler
  Ids <- OneId
  Names <- OneName
  LimitValues <- TwoLimits
  RoleEntries <- NoRoles
  Deps <- OneDep
  Versions <- TwoVersions
  Sizes <- OneSize
  Xids <- TwoXids
  Users <- OneUser
  DepRequests <- AnyForms
  IngressName <- MCIngressName
  Ingresses <- MCIngresses
  Ops = {"create", "edit", "addRole", "deploy", "undeploy"}
  Faulty = {"namespaces", "limitranges", "secrets", "elasticsearches", "kibanas", "lists"}
  RoleRequests = {"Viewer"}
  Crashes = FALSE
