---------------------------- MODULE ServerState ----------------------------
(***************************************************************************)
(* The state the request handlers of api/projects.go and api/deployment.go *)
(* share: the database, the cluster, the map of metric windows, and one    *)
(* frame per handler that is running.                                      *)
(*                                                                         *)
(* net/http runs every request in a goroutine of its own.  A handler is    *)
(* here a sequence of steps, one for each call it makes to the database or *)
(* to the API server; between two of them any other handler may run.       *)
(***************************************************************************)
EXTENDS Projects

CONSTANTS Handlers,     \* requests that can be in progress at the same time
          Ids,          \* keys xid.New() can still produce (bounds creations)
          RoleEntries,  \* the sets of roles a project form can submit
          RoleRequests, \* the roles that are asked for one user at a time
          DepRequests,  \* the deployment forms that can be submitted
          Ingresses,    \* names of ingress objects
          IngressName,  \* IngressName[d] is the name "<d>-ingress"
          Ops,          \* the requests the clients send
          Faulty,       \* cluster resources whose requests may fail
          Crashes       \* whether the process can die and be restarted

AllOps == {"create", "edit", "rename", "addRole", "deleteProject",
           "deploy", "undeploy"}
Resources == {"namespaces", "resourcequotas", "limitranges", "secrets",
              "elasticsearches", "kibanas", "ingresses", "lists"}

\* A deployment request names a cluster, a Kibana, or both, or neither.
DepRequest == [es : ElasticseachConfig \cup {Nil}, kb : KibanaConfig \cup {Nil}]
RoleEntry  == [User : Users, Role : Roles \cup {"unknown"}]

ASSUME ServerAssumption ==
  /\ Nil \notin Ids /\ Nil \notin Handlers
  /\ RoleEntries \subseteq SUBSET RoleEntry
  /\ RoleRequests \subseteq Roles
  /\ DepRequests \subseteq DepRequest
  /\ IngressName \in [Deps -> Ingresses]
  /\ \A d, e \in Deps : IngressName[d] = IngressName[e] => d = e
  /\ \A d \in Deps : IngressName[d] # d
  /\ Ops \subseteq AllOps /\ Faulty \subseteq Resources /\ Crashes \in BOOLEAN

VARIABLES
  db,       \* the bucket of projects of eckmanager.db
  issued,   \* the ids that project.Save has generated so far
  kube,     \* the cluster: what each namespace holds
  windows,  \* the keys of containerMetrics.Metrics
  up,       \* whether the server is running
  frame     \* the local variables of each handler

vars == <<db, issued, kube, windows, up, frame>>

------------------------------------------------------------------------------
\* The cluster.  An ingress has the ids of a cluster and a Kibana in its hosts.

Hosts == [es : Xids \cup {Nil}, kb : Xids \cup {Nil}]

Namespace == [status      : {"absent", "active", "terminating"},
              quota       : LimitValues \cup {Nil},
              limitRange  : LimitValues \cup {Nil},
              secrets     : SUBSET Deps,
              es          : [Deps -> Versions \cup {Nil}],
              kb          : [Deps -> [Version : Versions, Size : Sizes] \cup {Nil}],
              ingress     : [Ingresses -> Hosts \cup {Nil}]]

NoNamespace == [status |-> "absent", quota |-> Nil, limitRange |-> Nil,
                secrets |-> {}, es |-> [d \in Deps |-> Nil],
                kb |-> [d \in Deps |-> Nil], ingress |-> [g \in Ingresses |-> Nil]]

\* Nil is no object.
ASSUME ObjectAssumption == Nil \notin Hosts \cup [Version : Versions, Size : Sizes]

Active(n) == kube[n].status = "active"

\* Whether the API server answers a request that it could carry out: it
\* always does, or may refuse or lose it when the resource is Faulty.
Answers(resource) == IF resource \in Faulty THEN BOOLEAN ELSE {TRUE}

------------------------------------------------------------------------------
\* Handlers.

\* "idle" has served nothing yet; the others tell how the last request
\* ended: 200, an error status, or a panic that net/http recovered from.
Resting == {"idle", "ok", "bad", "panicked"}

ProjectPcs    == {"cpNamespace", "cpQuota", "cpLimits", "cpLookup", "cpSave", "cpUpdate",
                  "arSave", "dpNamespace", "dpDelete"}
DeploymentPcs == {"cdSecret", "cdSecretDelete", "cdSecretCreate", "cdElastic",
                  "cdKibana", "cdProxy", "cdProxyDelete", "cdProxyCreate",
                  "cdUpdate", "ddProxy", "ddElastic", "ddKibana", "ddSave"}
Pcs == Resting \cup ProjectPcs \cup DeploymentPcs

Frame == [pc   : Pcs,
          id   : Ids \cup {Nil},              \* the project id of the request
          proj : Project \cup {Nil},          \* the handler's copy of the project
          dep  : Deps \cup {Nil},             \* the deployment's name
          req  : DepRequest \cup {Nil}]       \* the deployment of the request

AtRest(reply) == [pc |-> reply, id |-> Nil, proj |-> Nil, dep |-> Nil, req |-> Nil]

At(h, pc)    == up /\ frame[h].pc = pc
Ready(h)     == up /\ frame[h].pc \in Resting
Goto(h, pc)  == frame' = [frame EXCEPT ![h].pc = pc]
Reply(h, r)  == frame' = [frame EXCEPT ![h] = AtRest(r)]
Running      == {h \in Handlers : frame[h].pc \notin Resting}

\* API.GetProject: an unknown id is answered 400; when the namespaces cannot
\* be listed DoesExistInKube dereferences a nil result and panics; otherwise
\* the handler goes on with its own copy of the record, in frame f.
GetProject(h, id, f) ==
  \/ /\ ~Found(db, id)
     /\ Reply(h, "bad")
  \/ /\ Found(db, id)
     /\ FALSE \in Answers("lists")
     /\ Reply(h, "panicked")
  \/ /\ Found(db, id)
     /\ frame' = [frame EXCEPT ![h] = f]

------------------------------------------------------------------------------
TypeOK ==
  /\ db \in [Ids -> Project \cup {Nil}]
  /\ issued \subseteq Ids
  /\ kube \in [Names -> Namespace]
  /\ windows \subseteq Names
  /\ up \in BOOLEAN
  /\ frame \in [Handlers -> Frame]

Init ==
  /\ db = [i \in Ids |-> Nil]
  /\ issued = {}
  /\ kube = [n \in Names |-> NoNamespace]
  /\ windows = {}
  /\ up = TRUE
  /\ frame = [h \in Handlers |-> AtRest("idle")]
=============================================================================
