----------------------------- MODULE EckServer -----------------------------
(***************************************************************************)
(* The server: concurrent request handlers over one database, the cluster  *)
(* they share with Kubernetes' own controllers, and crashes of the process.*)
(***************************************************************************)
EXTENDS DeploymentHandlers

\* EXTERNAL.  The namespace controller removes a terminating namespace and
\* everything in it.
FinalizeNamespace(n) ==
  /\ kube[n].status = "terminating"
  /\ kube' = [kube EXCEPT ![n] = NoNamespace]
  /\ UNCHANGED <<db, issued, windows, up, frame>>

\* The process dies: the handlers and the windows are gone, the database and
\* the cluster are not.
Crash ==
  /\ Crashes
  /\ up
  /\ up' = FALSE
  /\ windows' = {}
  /\ frame' = [h \in Handlers |-> AtRest("idle")]
  /\ UNCHANGED <<db, issued, kube>>

\* main.run: setupPodMonitoring opens a window for every stored project, then
\* startServer listens.  When the namespaces cannot be listed the process
\* panics before it listens, and has to be started again.
Restart ==
  /\ ~up
  /\ up' = TRUE
  /\ windows' = {db[i].Name : i \in Stored(db)}
  /\ UNCHANGED <<db, issued, kube, frame>>

Next ==
  \/ \E h \in Handlers : CreateProjects(h)
  \/ \E h \in Handlers : AddRoleToProject(h)
  \/ \E h \in Handlers : DeleteProject(h)
  \/ \E h \in Handlers : CreateDeployment(h)
  \/ \E h \in Handlers : DeleteDeployment(h)
  \/ \E n \in Names : FinalizeNamespace(n)
  \/ Crash
  \/ Restart

Spec == Init /\ [][Next]_vars

------------------------------------------------------------------------------
\* With one handler, the database is a Registry: its table is db.
Reg == INSTANCE Registry WITH table <- db

\* Requests served one at a time have at most one effect each on the projects,
\* on the record as it is then, whatever the cluster refuses and wherever the
\* server crashes: no handler leaves half of its work in the database, and none
\* touches a part of a record that it has no business with.
AtomicRequests == Reg!Spec

------------------------------------------------------------------------------
(***************************************************************************)
(* Invariants.                                                             *)
(***************************************************************************)

\* While the server runs, every stored project has a window of samples under
\* its name: processPods looks the window up without a check, and a missing
\* one is a nil dereference (podMetrics.go:93).  Names change by edits, stale
\* copies are written back, and a restart empties the map.
Monitored == up => \A i \in Stored(db) : db[i].Name \in windows

\* Somebody holds a role in every stored project; without one only a platform
\* administrator could reach it.  The form may list no role or unknown ones.
Governed == \A i \in Stored(db) : db[i].RoleMappings # {}

\* No request is being served.
Quiet == Running = {}

\* Whenever no request is being served, every stored project has a namespace,
\* although createProjects drops the error of CreateNamespace.
NamespaceEach ==
  Quiet => \A i \in Stored(db) : kube[db[i].Name].status # "absent"

\* Whenever no request is being served, every recorded deployment has an
\* ingress, with an id in either host, although ProxyDeploy may delete the
\* ingress to create it again while another handler does the same.
IngressPerDeployment ==
  Quiet => \A i \in Stored(db) : \A d \in Recorded(db[i]) :
             kube[db[i].Name].ingress[IngressName[d]] \in [es : Xids, kb : Xids]

\* Whenever no request is being served, the hosts of that ingress are made of the
\* ids in the record, of which the UI makes the links to the cluster and to
\* Kibana (deploymentView.js:371).
IngressAsRecorded ==
  Quiet => \A i \in Stored(db) : \A d \in Recorded(db[i]) :
             LET c == db[i].Deployment[d] IN
             kube[db[i].Name].ingress[IngressName[d]] = [es |-> c.es.Id, kb |-> c.kb.Id]

\* Whenever no request is being served, the Kibana of every recorded deployment
\* is in the namespace, in the version that was recorded.
KibanaAsRecorded ==
  Quiet => \A i \in Stored(db) : \A d \in Recorded(db[i]) :
             LET kb == kube[db[i].Name].kb[d] IN
             kb # Nil /\ kb.Version = db[i].Deployment[d].kb.Version

------------------------------------------------------------------------------
(***************************************************************************)
(* Action properties.                                                      *)
(***************************************************************************)

\* Handler h answers 200 from the step pc of its request.
Acknowledges(h, pc) == frame[h].pc = pc /\ frame'[h].pc = "ok"

\* A deployment leaves the record of its project only when a request to delete
\* that deployment, or the project, says so; no edit or deployment of another
\* one takes it away.
RecordedUntilDeleted ==
  [][\A i \in Stored(db) : \A d \in Recorded(db[i]) :
       ~(Found(db', i) /\ d \in Recorded(db'[i])) =>
         \E h \in Handlers : /\ frame[h].id = i
                             /\ \/ frame[h].pc = "dpDelete"
                                \/ frame[h].pc = "ddSave" /\ frame[h].dep = d]_vars

\* A project that has been deleted never comes back under its old id.
DeletedStaysDeleted ==
  [][\A i \in issued : ~Found(db, i) => ~Found(db', i)]_vars

\* When createProjects answers 200, the namespace has the limits of the request
\* in its limit range and in its resource quota, although the errors of two calls
\* before are dropped.
AcknowledgedLimits ==
  [][\A h \in Handlers :
       Acknowledges(h, "cpSave") \/ Acknowledges(h, "cpUpdate") =>
         /\ kube[Ns(h)].limitRange = frame[h].proj.Limits
         /\ kube[Ns(h)].quota = frame[h].proj.Limits]_vars

\* When createDeployment answers 200, the deployment can be seen in the record
\* of its project.
CreatedIsRecorded ==
  [][\A h \in Handlers :
       Acknowledges(h, "cdUpdate") => Dep(h) \in Recorded(db'[frame[h].id])]_vars

\* When createDeployment answers 200 to a form that names both a cluster and a
\* Kibana, the record has the two as they were sent, with the ids that were made
\* for them, whatever another handler has recorded since the project was read.
CreatedAsAsked ==
  [][\A h \in Handlers :
       Acknowledges(h, "cdUpdate") /\ Req(h).es # Nil /\ Req(h).kb # Nil =>
         DeploymentsOf(db'[frame[h].id])[Dep(h)] = Req(h)]_vars
=============================================================================
