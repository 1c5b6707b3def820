------------------------- MODULE DeploymentHandlers -------------------------
(***************************************************************************)
(* The handlers of api/deployment.go that change the project's record or   *)
(* the objects of its namespace: createDeployment (which also edits) and   *)
(* detleteDeploymentHandler.  Every object of a deployment has the name the *)
(* form gave the deployment; the ingress is called "<name>-ingress".       *)
(***************************************************************************)
EXTENDS ProjectHandlers

\* The namespace, the deployment's name and its form, in handler h.
Ns(h)  == frame[h].proj.Name
Dep(h) == frame[h].dep
Req(h) == frame[h].req

------------------------------------------------------------------------------
\* createDeployment.

\* The part of the handler that comes after the Elasticsearch one.
AfterElastic(req) == IF req.kb # Nil THEN "cdKibana" ELSE "cdUpdate"

ReadForDeploy(h) ==
  /\ Ready(h)
  /\ "deploy" \in Ops
  /\ \E i \in issued, d \in Deps, req \in DepRequests :
       GetProject(h, i, [pc |-> IF req.es # Nil THEN "cdSecret" ELSE AfterElastic(req),
                         id |-> i, proj |-> db[i], dep |-> d, req |-> req])
  /\ UNCHANGED <<db, issued, kube, windows, up>>

\* ElasticseachConfig.CreateSecrests: Create; when that fails Delete, then
\* Create again.  The error is dropped by the handler.
CreateSecret(h) ==
  LET possible == Active(Ns(h)) /\ Dep(h) \notin kube[Ns(h)].secrets IN
  /\ At(h, "cdSecret")
  /\ \/ /\ possible
        /\ kube' = [kube EXCEPT ![Ns(h)].secrets = @ \cup {Dep(h)}]
        /\ Goto(h, "cdElastic")
     \/ /\ ~possible \/ FALSE \in Answers("secrets")
        /\ Goto(h, "cdSecretDelete")
        /\ UNCHANGED kube
  /\ UNCHANGED <<db, issued, windows, up>>

DeleteSecret(h) ==
  /\ At(h, "cdSecretDelete")
  /\ \E answered \in Answers("secrets") :
       kube' = IF answered THEN [kube EXCEPT ![Ns(h)].secrets = @ \ {Dep(h)}] ELSE kube
  /\ Goto(h, "cdSecretCreate")
  /\ UNCHANGED <<db, issued, windows, up>>

RecreateSecret(h) ==
  /\ At(h, "cdSecretCreate")
  /\ \E answered \in Answers("secrets") :
       kube' = IF answered /\ Active(Ns(h))
               THEN [kube EXCEPT ![Ns(h)].secrets = @ \cup {Dep(h)}] ELSE kube
  /\ Goto(h, "cdElastic")
  /\ UNCHANGED <<db, issued, windows, up>>

\* ElasticseachConfig.Deploy: Get, then Update or Create.  The handler keeps
\* the error in a variable of the inner block, so a failure only skips GetID.
\* The new id may be any: nothing relies on its being unused.
DeployElastic(h) ==
  LET possible == Active(Ns(h)) \/ kube[Ns(h)].es[Dep(h)] # Nil IN
  /\ At(h, "cdElastic")
  /\ \/ /\ possible
        /\ kube' = [kube EXCEPT ![Ns(h)].es[Dep(h)] = Req(h).es.Version]
        /\ \E x \in Xids :
             frame' = [frame EXCEPT ![h].req.es.Id = GetID(@, x),
                                    ![h].pc = AfterElastic(Req(h))]
     \/ /\ ~possible \/ FALSE \in Answers("elasticsearches")
        /\ Goto(h, AfterElastic(Req(h)))
        /\ UNCHANGED kube
  /\ UNCHANGED <<db, issued, windows, up>>

\* Mutant: a Kibana that is there is left as it is.
KibanaObject_CreateOnly(old, new) ==
  IF old = Nil THEN [Version |-> new.Version, Size |-> new.Size] ELSE old

\* KibanaConfig.updateConfig changes the version of a Kibana that is there,
\* not its cpu and memory.
KibanaObject(old, new) ==
  IF old = Nil THEN [Version |-> new.Version, Size |-> new.Size]
               ELSE [old EXCEPT !.Version = new.Version]

\* KibanaConfig.Deploy: Create, then Get and Update when that fails.  On an
\* error the request ends; on success GetID, and when a cluster is named too
\* the deployment enters the handler's copy of the project.
DeployKibana(h) ==
  LET old      == kube[Ns(h)].kb[Dep(h)]
      possible == Active(Ns(h)) \/ old # Nil
      named    == Req(h).es # Nil IN
  /\ At(h, "cdKibana")
  /\ \/ /\ possible
        /\ kube' = [kube EXCEPT ![Ns(h)].kb[Dep(h)] = KibanaObject(old, Req(h).kb)]
        /\ \E x \in Xids :
             LET req == [Req(h) EXCEPT !.kb.Id = GetID(@, x)] IN
             frame' = [frame EXCEPT ![h].req = req,
               ![h].proj = IF named THEN UpdateDeployment(@, Dep(h), req) ELSE @,
               ![h].pc = IF named THEN "cdProxy" ELSE "cdUpdate"]
     \/ /\ ~possible \/ FALSE \in Answers("kibanas")
        /\ Reply(h, "bad")
        /\ UNCHANGED kube
  /\ UNCHANGED <<db, issued, windows, up>>

\* proxyDeploymentConfig: the hosts are made of the ids in the project.
ProxyHosts(h) ==
  LET d == frame[h].proj.Deployment[Dep(h)] IN [es |-> d.es.Id, kb |-> d.kb.Id]

\* Mutant: an ingress that is there is taken for the one that is wanted.
CreateIngress_KeepsOld(h) ==
  LET g == IngressName[Dep(h)] IN
  /\ At(h, "cdProxy")
  /\ kube' = IF Active(Ns(h)) /\ kube[Ns(h)].ingress[g] = Nil
             THEN [kube EXCEPT ![Ns(h)].ingress[g] = ProxyHosts(h)] ELSE kube
  /\ Goto(h, "cdUpdate")
  /\ UNCHANGED <<db, issued, windows, up>>

\* Deployment.ProxyDeploy: Create; when that fails Delete, then Create again.
\* The error is dropped by the handler.
CreateIngress(h) ==
  LET g == IngressName[Dep(h)]
      possible == Active(Ns(h)) /\ kube[Ns(h)].ingress[g] = Nil IN
  /\ At(h, "cdProxy")
  /\ \/ /\ possible
        /\ kube' = [kube EXCEPT ![Ns(h)].ingress[g] = ProxyHosts(h)]
        /\ Goto(h, "cdUpdate")
     \/ /\ ~possible \/ FALSE \in Answers("ingresses")
        /\ Goto(h, "cdProxyDelete")
        /\ UNCHANGED kube
  /\ UNCHANGED <<db, issued, windows, up>>

\* Mutant: the deleted ingress is not created again.
DeleteIngress_NoRetry(h) ==
  /\ At(h, "cdProxyDelete")
  /\ \E answered \in Answers("ingresses") :
       kube' = IF answered
               THEN [kube EXCEPT ![Ns(h)].ingress[IngressName[Dep(h)]] = Nil] ELSE kube
  /\ Goto(h, "cdUpdate")
  /\ UNCHANGED <<db, issued, windows, up>>

DeleteIngress(h) ==
  /\ At(h, "cdProxyDelete")
  /\ \E answered \in Answers("ingresses") :
       kube' = IF answered
               THEN [kube EXCEPT ![Ns(h)].ingress[IngressName[Dep(h)]] = Nil] ELSE kube
  /\ Goto(h, "cdProxyCreate")
  /\ UNCHANGED <<db, issued, windows, up>>

RecreateIngress(h) ==
  LET g == IngressName[Dep(h)] IN
  /\ At(h, "cdProxyCreate")
  /\ \E answered \in Answers("ingresses") :
       kube' = IF answered /\ Active(Ns(h)) /\ kube[Ns(h)].ingress[g] = Nil
               THEN [kube EXCEPT ![Ns(h)].ingress[g] = ProxyHosts(h)] ELSE kube
  /\ Goto(h, "cdUpdate")
  /\ UNCHANGED <<db, issued, windows, up>>

\* Mutant: the record is updated the way the project form updates it.
RecordDeployment_AsEdit(h) ==
  LET i == frame[h].id
      p == frame[h].proj IN
  /\ At(h, "cdUpdate")
  /\ \/ /\ UpdateOk(db, i, p)
        /\ db' = Save(db, i, UpdateWithProject(db[i], p))
        /\ Reply(h, "ok")
     \/ /\ ~UpdateOk(db, i, p)
        /\ Reply(h, "bad")
        /\ UNCHANGED db
  /\ UNCHANGED <<issued, kube, windows, up>>

\* project.Update writes the copy read at the start of the request.
RecordDeployment(h) ==
  /\ At(h, "cdUpdate")
  /\ UpdateRecord(h)
  /\ UNCHANGED <<issued, kube, windows, up>>

CreateDeployment(h) ==
  \/ ReadForDeploy(h)
  \/ CreateSecret(h)
  \/ DeleteSecret(h)
  \/ RecreateSecret(h)
  \/ DeployElastic(h)
  \/ DeployKibana(h)
  \/ CreateIngress(h)
  \/ DeleteIngress(h)
  \/ RecreateIngress(h)
  \/ RecordDeployment(h)

------------------------------------------------------------------------------
\* detleteDeploymentHandler: all errors but "not found" are dropped.
ReadForUndeploy(h) ==
  /\ Ready(h)
  /\ "undeploy" \in Ops
  /\ \E i \in issued, d \in Deps :
       GetProject(h, i, IF FindDeployment(db[i], d)
                        THEN [AtRest("ddProxy") EXCEPT !.id = i, !.proj = db[i],
                                                       !.dep = d]
                        ELSE AtRest("bad"))
  /\ UNCHANGED <<db, issued, kube, windows, up>>

\* ProxyDelete asks for an ingress with the deployment's own name.
ProxyDelete(h) ==
  /\ At(h, "ddProxy")
  /\ \E answered \in Answers("ingresses") :
       kube' = IF answered /\ Dep(h) \in Ingresses
               THEN [kube EXCEPT ![Ns(h)].ingress[Dep(h)] = Nil] ELSE kube
  /\ Goto(h, "ddElastic")
  /\ UNCHANGED <<db, issued, windows, up>>

DeleteElastic(h) ==
  /\ At(h, "ddElastic")
  /\ \E answered \in Answers("elasticsearches") :
       kube' = IF answered THEN [kube EXCEPT ![Ns(h)].es[Dep(h)] = Nil] ELSE kube
  /\ Goto(h, "ddKibana")
  /\ UNCHANGED <<db, issued, windows, up>>

DeleteKibana(h) ==
  /\ At(h, "ddKibana")
  /\ \E answered \in Answers("kibanas") :
       kube' = IF answered THEN [kube EXCEPT ![Ns(h)].kb[Dep(h)] = Nil] ELSE kube
  /\ Goto(h, "ddSave")
  /\ UNCHANGED <<db, issued, windows, up>>

\* project.Save writes the whole copy back, whether or not the project is
\* still there.
ForgetDeployment(h) ==
  LET i == frame[h].id
      p == DeletDeployment(frame[h].proj, Dep(h)) IN
  /\ At(h, "ddSave")
  /\ db' = IF SaveOk(db, i, p) THEN Save(db, i, p) ELSE db
  /\ Reply(h, "ok")
  /\ UNCHANGED <<issued, kube, windows, up>>

DeleteDeployment(h) ==
  \/ ReadForUndeploy(h)
  \/ ProxyDelete(h)
  \/ DeleteElastic(h)
  \/ DeleteKibana(h)
  \/ ForgetDeployment(h)
=============================================================================
