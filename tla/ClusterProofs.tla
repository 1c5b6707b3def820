---------------------------- MODULE ClusterProofs ----------------------------
(***************************************************************************)
(* Proofs about what the handlers of EckServer leave in the cluster.       *)
(***************************************************************************)
EXTENDS EckServerProofs

HandlerStep(h) ==
  \/ CreateProjects(h) \/ AddRoleToProject(h) \/ DeleteProject(h)
  \/ CreateDeployment(h) \/ DeleteDeployment(h)

\* What a step leaves alone in every namespace.
KeepsStatus  == \A n \in Names : /\ kube'[n].status = kube[n].status
                                 /\ kube'[n].limitRange = kube[n].limitRange
KeepsKibana  == \A n \in Names : kube'[n].kb = kube[n].kb
KeepsIngress == \A n \in Names : kube'[n].ingress = kube[n].ingress

IngressStep(h) ==
  CreateIngress(h) \/ DeleteIngress(h) \/ RecreateIngress(h) \/ ProxyDelete(h)

\* The steps that change something in the cluster, by what they change, and
\* the steps that leave some places of a handler.
ClusterStep(h) ==
  /\ KeepsStatus  \/ CreateNamespace(h) \/ CreateLimitRange(h) \/ DeleteNamespace(h)
  /\ KeepsKibana  \/ DeployKibana(h) \/ DeleteKibana(h)
  /\ KeepsIngress \/ IngressStep(h)
  /\ frame[h].pc = "cpQuota"   => CreateResourceQuota(h)
  /\ frame[h].pc = "cpLimits"  => CreateLimitRange(h)
  /\ frame[h].pc = "cpLookup"  => kube' = kube
  /\ frame[h].pc = "cdElastic" => DeployElastic(h)
  /\ frame[h].pc = "cdKibana"  => DeployKibana(h)
  /\ frame[h].pc = "ddKibana"  => DeleteKibana(h)
  /\ frame[h].pc \in ProxyPcs  => IngressStep(h)

LEMMA SetKeeps ==
  ASSUME TypeInv, NEW n \in Names, NEW r, kube' = [kube EXCEPT ![n] = r]
  PROVE  /\ r.status = kube[n].status /\ r.limitRange = kube[n].limitRange => KeepsStatus
         /\ r.kb = kube[n].kb => KeepsKibana
         /\ r.ingress = kube[n].ingress => KeepsIngress
BY DEF TypeInv, TypeOK, KeepsStatus, KeepsKibana, KeepsIngress

LEMMA SameKeeps ==
  ASSUME kube' = kube PROVE KeepsStatus /\ KeepsKibana /\ KeepsIngress
BY DEF KeepsStatus, KeepsKibana, KeepsIngress

LEMMA FormKeeps ==
  ASSUME TypeInv, NEW h \in Handlers
  PROVE  /\ CreateNamespace(h) \/ CreateLimitRange(h) => KeepsKibana /\ KeepsIngress
         /\ CreateResourceQuota(h) => KeepsStatus /\ KeepsKibana /\ KeepsIngress
<1> DEFINE n == frame[h].proj.Name
           p == frame[h].proj
<1>0. ASSUME frame[h].pc \in {"cpNamespace", "cpQuota", "cpLimits"}
      PROVE  n \in Names /\ kube[n] \in Namespace
  BY <1>0 DEF TypeInv, TypeOK, FramesOK, FrameOK, Resting, Project
<1>1. CASE CreateNamespace(h)
  <2> DEFINE r == [kube[n] EXCEPT !.status = "active"]
  <2>1. n \in Names /\ kube[n] \in Namespace
    BY <1>0, <1>1 DEF CreateNamespace, At
  <2>2. r.kb = kube[n].kb /\ r.ingress = kube[n].ingress
    BY <2>1 DEF Namespace
  <2>3. kube' = kube \/ kube' = [kube EXCEPT ![n] = r]
    BY <1>1 DEF CreateNamespace
  <2>4. KeepsKibana /\ KeepsIngress
    BY <2>1, <2>2, <2>3, SetKeeps, SameKeeps
  <2>5. ~CreateResourceQuota(h)
    BY <1>1 DEF CreateNamespace, CreateResourceQuota, At
  <2> QED
    BY <2>4, <2>5
<1>2. CASE CreateLimitRange(h)
  <2> DEFINE r == [kube[n] EXCEPT !.limitRange = p.Limits]
  <2>1. n \in Names /\ kube[n] \in Namespace
    BY <1>0, <1>2 DEF CreateLimitRange, At
  <2>2. r.kb = kube[n].kb /\ r.ingress = kube[n].ingress
    BY <2>1 DEF Namespace
  <2>3. kube' = kube \/ kube' = [kube EXCEPT ![n] = r]
    BY <1>2 DEF CreateLimitRange
  <2>4. KeepsKibana /\ KeepsIngress
    BY <2>1, <2>2, <2>3, SetKeeps, SameKeeps
  <2>5. ~CreateResourceQuota(h)
    BY <1>2 DEF CreateLimitRange, CreateResourceQuota, At
  <2> QED
    BY <2>4, <2>5
<1>3. CASE CreateResourceQuota(h)
  <2> DEFINE r == [kube[n] EXCEPT !.quota = p.Limits]
  <2>1. n \in Names /\ kube[n] \in Namespace
    BY <1>0, <1>3 DEF CreateResourceQuota, At
  <2>2. /\ r.kb = kube[n].kb /\ r.ingress = kube[n].ingress
        /\ r.status = kube[n].status /\ r.limitRange = kube[n].limitRange
    BY <2>1 DEF Namespace
  <2>3. kube' = kube \/ kube' = [kube EXCEPT ![n] = r]
    BY <1>3 DEF CreateResourceQuota
  <2> QED
    BY <2>1, <2>2, <2>3, SetKeeps, SameKeeps
<1> QED
  BY <1>1, <1>2, <1>3

LEMMA ElasticKeeps ==
  ASSUME TypeInv, NEW h \in Handlers,
         \/ CreateSecret(h) \/ DeleteSecret(h) \/ RecreateSecret(h)
         \/ DeployElastic(h) \/ DeleteElastic(h)
  PROVE  KeepsStatus /\ KeepsKibana /\ KeepsIngress
<1>0. Ns(h) \in Names /\ kube[Ns(h)] \in Namespace
  <2>1. frame[h].pc \notin Resting
    BY DEF CreateSecret, DeleteSecret, RecreateSecret, DeployElastic, DeleteElastic, At, Resting
  <2> QED
    BY <2>1 DEF TypeInv, TypeOK, FramesOK, FrameOK, Ns, Project
<1> DEFINE Secrets(s) == [kube[Ns(h)] EXCEPT !.secrets = s]
           Es(e)      == [kube[Ns(h)] EXCEPT !.es = e]
<1>1. \/ kube' = kube
      \/ \E s : kube' = [kube EXCEPT ![Ns(h)] = Secrets(s)]
      \/ \E e : kube' = [kube EXCEPT ![Ns(h)] = Es(e)]
  <2>1. CASE CreateSecret(h) \/ DeleteSecret(h) \/ RecreateSecret(h)
    <3>1. \/ kube' = kube
          \/ kube' = [kube EXCEPT ![Ns(h)] = Secrets(kube[Ns(h)].secrets \cup {Dep(h)})]
          \/ kube' = [kube EXCEPT ![Ns(h)] = Secrets(kube[Ns(h)].secrets \ {Dep(h)})]
      BY <2>1 DEF CreateSecret, DeleteSecret, RecreateSecret
    <3> QED
      BY <3>1
  <2>2. CASE DeployElastic(h)
    <3> DEFINE e == [kube[Ns(h)].es EXCEPT ![Dep(h)] = Req(h).es.Version]
    <3>1. kube' = kube \/ kube' = [kube EXCEPT ![Ns(h)] = Es(e)]
      BY <2>2 DEF DeployElastic
    <3> QED
      BY <3>1
  <2>3. CASE DeleteElastic(h)
    <3> DEFINE e == [kube[Ns(h)].es EXCEPT ![Dep(h)] = Nil]
    <3>1. kube' = kube \/ kube' = [kube EXCEPT ![Ns(h)] = Es(e)]
      BY <2>3 DEF DeleteElastic
    <3> QED
      BY <3>1
  <2> QED
    BY <2>1, <2>2, <2>3
<1>2. ASSUME NEW s
      PROVE  /\ Secrets(s).kb = kube[Ns(h)].kb /\ Secrets(s).ingress = kube[Ns(h)].ingress
             /\ Secrets(s).status = kube[Ns(h)].status
             /\ Secrets(s).limitRange = kube[Ns(h)].limitRange
  BY <1>0 DEF Namespace
<1>3. ASSUME NEW e
      PROVE  /\ Es(e).kb = kube[Ns(h)].kb /\ Es(e).ingress = kube[Ns(h)].ingress
             /\ Es(e).status = kube[Ns(h)].status
             /\ Es(e).limitRange = kube[Ns(h)].limitRange
  BY <1>0 DEF Namespace
<1> HIDE DEF Secrets, Es
<1> QED
  BY <1>0, <1>1, <1>2, <1>3, SetKeeps, SameKeeps

\* The two calls for Kibana, and the Kibanas they leave.
LEMMA KibanaKeeps ==
  ASSUME TypeInv, NEW h \in Handlers, DeployKibana(h) \/ DeleteKibana(h)
  PROVE  KeepsStatus /\ KeepsIngress
<1>0. Ns(h) \in Names /\ kube[Ns(h)] \in Namespace
  <2>1. frame[h].pc \notin Resting
    BY DEF DeployKibana, DeleteKibana, At, Resting
  <2> QED
    BY <2>1 DEF TypeInv, TypeOK, FramesOK, FrameOK, Ns, Project
<1> DEFINE Kb(e) == [kube[Ns(h)] EXCEPT !.kb = e]
<1>1. kube' = kube \/ \E e : kube' = [kube EXCEPT ![Ns(h)] = Kb(e)]
  <2>1. CASE DeployKibana(h)
    <3> DEFINE e == [kube[Ns(h)].kb EXCEPT ![Dep(h)] =
                       KibanaObject(kube[Ns(h)].kb[Dep(h)], Req(h).kb)]
    <3>1. kube' = kube \/ kube' = [kube EXCEPT ![Ns(h)] = Kb(e)]
      BY <2>1 DEF DeployKibana
    <3> QED
      BY <3>1
  <2>2. CASE DeleteKibana(h)
    <3> DEFINE e == [kube[Ns(h)].kb EXCEPT ![Dep(h)] = Nil]
    <3>1. kube' = kube \/ kube' = [kube EXCEPT ![Ns(h)] = Kb(e)]
      BY <2>2 DEF DeleteKibana
    <3> QED
      BY <3>1
  <2> QED
    BY <2>1, <2>2
<1>2. ASSUME NEW e
      PROVE  /\ Kb(e).status = kube[Ns(h)].status /\ Kb(e).ingress = kube[Ns(h)].ingress
             /\ Kb(e).limitRange = kube[Ns(h)].limitRange
  BY <1>0 DEF Namespace
<1> HIDE DEF Kb
<1> QED
  BY <1>0, <1>1, <1>2, SetKeeps, SameKeeps

LEMMA IngressKeeps ==
  ASSUME TypeInv, NEW h \in Handlers, IngressStep(h)
  PROVE  KeepsStatus /\ KeepsKibana
<1>0. Ns(h) \in Names /\ kube[Ns(h)] \in Namespace
  <2>1. frame[h].pc \notin Resting
    BY DEF IngressStep, CreateIngress, DeleteIngress, RecreateIngress, ProxyDelete, At, Resting
  <2> QED
    BY <2>1 DEF TypeInv, TypeOK, FramesOK, FrameOK, Ns, Project
<1> DEFINE Ing(e) == [kube[Ns(h)] EXCEPT !.ingress = e]
           g      == IngressName[Dep(h)]
           old    == kube[Ns(h)].ingress
<1>1. kube' = kube \/ \E e : kube' = [kube EXCEPT ![Ns(h)] = Ing(e)]
  <2>1. \/ kube' = kube
        \/ kube' = [kube EXCEPT ![Ns(h)] = Ing([old EXCEPT ![g] = ProxyHosts(h)])]
        \/ kube' = [kube EXCEPT ![Ns(h)] = Ing([old EXCEPT ![g] = Nil])]
        \/ kube' = [kube EXCEPT ![Ns(h)] = Ing([old EXCEPT ![Dep(h)] = Nil])]
    BY DEF IngressStep, CreateIngress, DeleteIngress, RecreateIngress, ProxyDelete
  <2> QED
    BY <2>1
<1>2. ASSUME NEW e
      PROVE  /\ Ing(e).status = kube[Ns(h)].status /\ Ing(e).kb = kube[Ns(h)].kb
             /\ Ing(e).limitRange = kube[Ns(h)].limitRange
  BY <1>0 DEF Namespace
<1> HIDE DEF Ing
<1> QED
  BY <1>0, <1>1, <1>2, SetKeeps, SameKeeps

LEMMA HandlerCluster ==
  ASSUME TypeInv, NEW h \in Handlers, HandlerStep(h)
  PROVE  ClusterStep(h) /\ (LocalStep(h) \/ WriteStep(h))
<1>1. CASE CreateProjects(h)
  <2>1. LocalStep(h) \/ WriteStep(h)
    BY <1>1, CreateProjectsLocal
  <2>2. CASE CreateNamespace(h) \/ CreateResourceQuota(h) \/ CreateLimitRange(h)
    <3>1. frame[h].pc \in {"cpNamespace", "cpQuota", "cpLimits"}
      BY <2>2 DEF CreateNamespace, CreateResourceQuota, CreateLimitRange, At
    <3>2. /\ frame[h].pc = "cpLimits" => CreateLimitRange(h)
          /\ frame[h].pc = "cpQuota" => CreateResourceQuota(h)
      BY <2>2 DEF CreateNamespace, CreateResourceQuota, CreateLimitRange, At
    <3> QED
      BY <2>1, <2>2, <3>1, <3>2, FormKeeps DEF ClusterStep, ProxyPcs
  <2>3. CASE \/ SubmitNew(h) \/ SubmitEdit(h) \/ LookupProject(h) \/ SaveProject(h)
             \/ UpdateProject(h)
    <3>1. kube' = kube
      BY <2>3 DEF SubmitNew, SubmitEdit, Submit, LookupProject, SaveProject, UpdateProject
    <3>2. frame[h].pc \in Resting \cup {"cpLookup", "cpSave", "cpUpdate"}
      BY <2>3 DEF SubmitNew, SubmitEdit, Submit, Ready, LookupProject, SaveProject,
                  UpdateProject, At
    <3> QED
      BY <2>1, <3>1, <3>2, SameKeeps DEF ClusterStep, Resting, ProxyPcs
  <2> QED
    BY <1>1, <2>2, <2>3 DEF CreateProjects
<1>2. CASE AddRoleToProject(h)
  <2>1. LocalStep(h) \/ WriteStep(h)
    BY <1>2, ReadsLocal DEF AddRoleToProject, WriteStep
  <2>2. kube' = kube /\ frame[h].pc \in Resting \cup {"arSave"}
    BY <1>2 DEF AddRoleToProject, ReadForRole, SaveRole, Ready, At
  <2> QED
    BY <2>1, <2>2, SameKeeps DEF ClusterStep, Resting, ProxyPcs
<1>3. CASE DeleteProject(h)
  <2>1. LocalStep(h) \/ WriteStep(h)
    BY <1>3, ReadsLocal, UndeployLocal DEF DeleteProject, WriteStep
  <2>2. frame[h].pc \in Resting \cup {"dpNamespace", "dpDelete"}
    BY <1>3 DEF DeleteProject, ReadForDelete, DeleteNamespace, DeleteRecord, Ready, At
  <2>3. CASE DeleteNamespace(h)
    <3> DEFINE n == frame[h].proj.Name
               r == [kube[n] EXCEPT !.status = "terminating"]
    <3>1. n \in Names /\ kube[n] \in Namespace
      BY <2>3 DEF DeleteNamespace, At, TypeInv, TypeOK, FramesOK, FrameOK, Resting, Project
    <3>2. r.kb = kube[n].kb /\ r.ingress = kube[n].ingress
      BY <3>1 DEF Namespace
    <3>3. kube' = kube \/ kube' = [kube EXCEPT ![n] = r]
      BY <2>3 DEF DeleteNamespace
    <3>4. KeepsKibana /\ KeepsIngress
      BY <3>1, <3>2, <3>3, SetKeeps, SameKeeps
    <3> QED
      BY <2>1, <2>2, <2>3, <3>4 DEF ClusterStep, Resting, ProxyPcs
  <2>4. CASE ~DeleteNamespace(h)
    <3>1. kube' = kube
      BY <1>3, <2>4 DEF DeleteProject, ReadForDelete, DeleteRecord
    <3> QED
      BY <2>1, <2>2, <3>1, SameKeeps DEF ClusterStep, Resting, ProxyPcs
  <2> QED
    BY <2>3, <2>4
<1>4. CASE CreateDeployment(h)
  <2>1. LocalStep(h) \/ WriteStep(h)
    BY <1>4, CreateDeploymentLocal
  <2>2. CASE ReadForDeploy(h) \/ RecordDeployment(h)
    <3>1. kube' = kube /\ frame[h].pc \in Resting \cup {"cdUpdate"}
      BY <2>2 DEF ReadForDeploy, RecordDeployment, Ready, At
    <3> QED
      BY <2>1, <3>1, SameKeeps DEF ClusterStep, Resting, ProxyPcs
  <2>3. CASE CreateSecret(h) \/ DeleteSecret(h) \/ RecreateSecret(h) \/ DeployElastic(h)
    <3>1. /\ frame[h].pc \in {"cdSecret", "cdSecretDelete", "cdSecretCreate", "cdElastic"}
          /\ frame[h].pc = "cdElastic" => DeployElastic(h)
      BY <2>3 DEF CreateSecret, DeleteSecret, RecreateSecret, DeployElastic, At
    <3> QED
      BY <2>1, <2>3, <3>1, ElasticKeeps DEF ClusterStep, ProxyPcs
  <2>4. CASE DeployKibana(h)
    <3>1. frame[h].pc = "cdKibana"
      BY <2>4 DEF DeployKibana, At
    <3> QED
      BY <2>1, <2>4, <3>1, KibanaKeeps DEF ClusterStep, ProxyPcs
  <2>5. CASE CreateIngress(h) \/ DeleteIngress(h) \/ RecreateIngress(h)
    <3>1. frame[h].pc \in ProxyPcs /\ IngressStep(h)
      BY <2>5 DEF CreateIngress, DeleteIngress, RecreateIngress, At, IngressStep, ProxyPcs
    <3> QED
      BY <2>1, <3>1, IngressKeeps DEF ClusterStep, ProxyPcs
  <2> QED
    BY <1>4, <2>2, <2>3, <2>4, <2>5 DEF CreateDeployment
<1>5. CASE DeleteDeployment(h)
  <2>1. LocalStep(h) \/ WriteStep(h)
    BY <1>5, ReadsLocal, UndeployLocal DEF DeleteDeployment, WriteStep
  <2>2. CASE ReadForUndeploy(h) \/ ForgetDeployment(h)
    <3>1. kube' = kube /\ frame[h].pc \in Resting \cup {"ddSave"}
      BY <2>2 DEF ReadForUndeploy, ForgetDeployment, Ready, At
    <3> QED
      BY <2>1, <3>1, SameKeeps DEF ClusterStep, Resting, ProxyPcs
  <2>3. CASE ProxyDelete(h)
    <3>1. frame[h].pc = "ddProxy" /\ IngressStep(h)
      BY <2>3 DEF ProxyDelete, At, IngressStep
    <3> QED
      BY <2>1, <3>1, IngressKeeps DEF ClusterStep, ProxyPcs
  <2>4. CASE DeleteElastic(h)
    <3>1. frame[h].pc = "ddElastic"
      BY <2>4 DEF DeleteElastic, At
    <3> QED
      BY <2>1, <2>4, <3>1, ElasticKeeps DEF ClusterStep, ProxyPcs
  <2>5. CASE DeleteKibana(h)
    <3>1. frame[h].pc = "ddKibana"
      BY <2>5 DEF DeleteKibana, At
    <3> QED
      BY <2>1, <2>5, <3>1, KibanaKeeps DEF ClusterStep, ProxyPcs
  <2> QED
    BY <1>5, <2>2, <2>3, <2>4, <2>5 DEF DeleteDeployment
<1> QED
  BY <1>1, <1>2, <1>3, <1>4, <1>5 DEF HandlerStep

------------------------------------------------------------------------------
(***************************************************************************)
(* Namespaces, where no project is deleted.                                *)
(***************************************************************************)

NoDeletion == "deleteProject" \notin Ops

\* No namespace is ending, and those with a limit range are there.
NeverEnding ==
  \A n \in Names : /\ kube[n].status # "terminating"
                   /\ kube[n].limitRange # Nil => Active(n)

\* A copy is of a project with a namespace once the limit range is in it: the
\* error of that call is the first that ends a createProjects.
FrameActive(f) ==
  /\ f.pc \notin DeletePcs
  /\ f.pc \notin Resting \cup {"cpNamespace", "cpQuota", "cpLimits"} => Active(f.proj.Name)

StoredActive == \A i \in Stored(db) : Active(db[i].Name)

ActiveInv ==
  TypeInv /\ NeverEnding /\ StoredActive /\ \A h \in Handlers : FrameActive(frame[h])


LEMMA InitActiveInv == Init => ActiveInv
<1> SUFFICES ASSUME Init PROVE ActiveInv
  OBVIOUS
<1>1. NeverEnding
  BY DEF Init, NoNamespace, NeverEnding
<1>2. StoredActive
  BY DEF Init, Stored, StoredActive
<1>3. \A h \in Handlers : FrameActive(frame[h])
  BY DEF Init, AtRest, FrameActive, Resting, DeletePcs
<1> QED
  BY <1>1, <1>2, <1>3, InitTypeInv DEF ActiveInv

\* A step neither ends nor removes a namespace, and puts the limit range into
\* one that is there.
LEMMA HandlerNamespaces ==
  ASSUME ActiveInv, NEW h \in Handlers, HandlerStep(h)
  PROVE  /\ NeverEnding'
         /\ \A n \in Names : Active(n) => Active(n)'
         /\ frame[h].pc = "cpLimits" => Reply(h, "bad") \/ Active(frame[h].proj.Name)
<1> DEFINE n == frame[h].proj.Name
<1>0. /\ TypeInv /\ NeverEnding /\ FrameActive(frame[h]) /\ FrameOK(frame[h])
      /\ kube \in [Names -> Namespace]
  BY DEF ActiveInv, TypeInv, TypeOK, FramesOK
<1>1. CASE CreateNamespace(h)
  <2> DEFINE r == [kube[n] EXCEPT !.status = "active"]
  <2>1. n \in Names /\ kube[n] \in Namespace /\ frame[h].pc = "cpNamespace"
    BY <1>0, <1>1 DEF CreateNamespace, At, FrameOK, Resting, Project
  <2>2. r.status = "active" /\ r.limitRange = kube[n].limitRange
    BY <2>1 DEF Namespace
  <2>3. kube' = kube \/ kube' = [kube EXCEPT ![n] = r]
    BY <1>1 DEF CreateNamespace
  <2>4. NeverEnding'
    BY <1>0, <2>1, <2>2, <2>3 DEF NeverEnding, Active
  <2>5. \A m \in Names : Active(m) => Active(m)'
    BY <1>0, <2>1, <2>2, <2>3 DEF Active
  <2> QED
    BY <2>1, <2>4, <2>5
<1>2. CASE CreateLimitRange(h)
  <2> DEFINE r == [kube[n] EXCEPT !.limitRange = frame[h].proj.Limits]
  <2>1. n \in Names /\ kube[n] \in Namespace
    BY <1>0, <1>2 DEF CreateLimitRange, At, FrameOK, Resting, Project
  <2>2. r.status = kube[n].status
    BY <2>1 DEF Namespace
  <2>3. \/ kube' = kube /\ Reply(h, "bad")
        \/ kube' = [kube EXCEPT ![n] = r] /\ Active(n)
    <3>1. \/ kube' = kube /\ Reply(h, "bad")
          \/ /\ kube' = [kube EXCEPT ![n] = r]
             /\ Active(n) \/ kube[n].limitRange # Nil
      BY <1>2 DEF CreateLimitRange
    <3>2. kube[n].limitRange # Nil => Active(n)
      BY <1>0, <2>1 DEF NeverEnding, Active
    <3> QED
      BY <3>1, <3>2
  <2>4. NeverEnding'
    BY <1>0, <2>1, <2>2, <2>3 DEF NeverEnding, Active
  <2>5. \A m \in Names : Active(m) => Active(m)'
    BY <1>0, <2>1, <2>2, <2>3 DEF Active
  <2> QED
    BY <2>1, <2>3, <2>4, <2>5
<1>3. CASE KeepsStatus /\ ~CreateLimitRange(h)
  BY <1>0, <1>3, HandlerCluster DEF KeepsStatus, NeverEnding, Active, ClusterStep
<1>4. ~DeleteNamespace(h)
  BY <1>0 DEF DeleteNamespace, At, FrameActive, DeletePcs
<1> QED
  BY <1>0, <1>1, <1>2, <1>3, <1>4, HandlerCluster DEF ClusterStep

\* What the database holds after a write: names of copies that are past the
\* limit range.
LEMMA WriteNames ==
  ASSUME TypeInv, NEW h \in Handlers, WriteStep(h), NEW i \in Stored(db')
  PROVE  \/ i \in Stored(db) /\ db'[i] = db[i]
         \/ /\ db'[i].Name = frame[h].proj.Name
            /\ frame[h].pc \notin Resting \cup FormPcs
<1>0. /\ FrameOK(frame[h]) /\ db \in [Ids -> Project \cup {Nil}]
      /\ frame[h].pc \in {"cpSave", "cpUpdate", "arSave", "dpDelete", "cdUpdate", "ddSave"}
  BY DEF TypeInv, TypeOK, FramesOK, WriteStep, SaveProject, UpdateProject, SaveRole,
         DeleteRecord, RecordDeployment, ForgetDeployment, At
<1>1. /\ frame[h].pc \notin Resting \cup FormPcs /\ frame[h].proj \in Project
      /\ frame[h].pc = "ddSave" => frame[h].dep \in Deps
  BY <1>0 DEF Resting, FormPcs, FrameOK, DeploymentPcs
<1>2. CASE DeleteRecord(h)
  BY <1>0, <1>2 DEF DeleteRecord, Delete, Stored
<1>3. ASSUME NEW j, NEW q, q.Name = frame[h].proj.Name, db' = Save(db, j, q) \/ db' = db
      PROVE  db'[i].Name = frame[h].proj.Name \/ (i \in Stored(db) /\ db'[i] = db[i])
  BY <1>0, <1>3 DEF Save, Stored
<1>4. CASE SaveProject(h) \/ SaveRole(h)
  BY <1>1, <1>3, <1>4 DEF SaveProject, SaveRole
<1>5. CASE UpdateProject(h) \/ RecordDeployment(h)
  <2>1. \/ db' = db
        \/ /\ Found(db, frame[h].id)
           /\ db' = Save(db, frame[h].id, NonZeroFields(db[frame[h].id], frame[h].proj))
    BY <1>5 DEF UpdateProject, RecordDeployment, UpdateRecord, UpdateOk
  <2>2. Found(db, frame[h].id) =>
          NonZeroFields(db[frame[h].id], frame[h].proj).Name = frame[h].proj.Name
    BY <1>1, FoundType, NonZeroFieldsType
  <2> QED
    BY <1>1, <1>3, <2>1, <2>2
<1>6. CASE ForgetDeployment(h)
  <2>1. DeletDeployment(frame[h].proj, Dep(h)).Name = frame[h].proj.Name
    BY <1>1, <1>6, DeletDeploymentType DEF ForgetDeployment, At, Dep
  <2> QED
    BY <1>1, <1>3, <1>6, <2>1 DEF ForgetDeployment
<1> QED
  BY <1>2, <1>4, <1>5, <1>6 DEF WriteStep

\* The copies after a step that leaves the database alone.
LEMMA LocalActive ==
  ASSUME NoDeletion, ActiveInv, NEW h \in Handlers, HandlerStep(h), LocalStep(h),
         NEW f \in Frame, frame' = [frame EXCEPT ![h] = f]
  PROVE  FrameActive(f)'
<1>0. /\ TypeInv /\ TypeInv' /\ StoredActive /\ FrameActive(frame[h]) /\ FrameOK(frame[h])
      /\ \A n \in Names : Active(n) => Active(n)'
      /\ frame'[h] = f
  BY NextTypeInv, HandlerNamespaces
     DEF ActiveInv, TypeInv, TypeOK, FramesOK, HandlerStep, Next
<1>1. \/ f.pc \in Refused \/ Submits(f) \/ Reads(f)
      \/ GoesOn(frame[h], f) \/ Looks(frame[h], f) \/ Enters(frame[h], f)
  <2>1. PICK g \in Frame :
        /\ frame' = [frame EXCEPT ![h] = g]
        /\ \/ g.pc \in Refused \/ Submits(g) \/ Reads(g)
           \/ GoesOn(frame[h], g) \/ Looks(frame[h], g) \/ Enters(frame[h], g)
    BY DEF LocalStep, SetsFrame
  <2>2. g = f
    BY <1>0, <2>1 DEF TypeInv, TypeOK
  <2> QED
    BY <2>1, <2>2
<1>2. CASE f.pc \in Refused \/ Submits(f)
  BY <1>2 DEF Refused, Submits, FrameActive, Resting, DeletePcs
<1>3. CASE Reads(f)
  <2>1. f.pc \notin DeletePcs
    BY <1>3 DEF Reads, AfterElastic, NoDeletion, DeletePcs
  <2>2. f.proj.Name = db[f.id].Name
    BY <1>3, <1>0, FoundType, AddRoleType DEF Reads
  <2>3. Active(db[f.id].Name) /\ db[f.id].Name \in Names
    BY <1>0, <1>3, FoundType DEF Reads, StoredActive, Found, Project
  <2> QED
    BY <1>0, <2>1, <2>2, <2>3 DEF FrameActive
<1>4. CASE GoesOn(frame[h], f)
  <2>1. frame[h].pc \notin DeletePcs /\ f.pc \notin DeletePcs
    BY <1>0, <1>4 DEF GoesOn, FrameActive, Precedes, Follows, AfterElastic, DeletePcs, UndeployPcs,
                      ElasticPcs, ProxyPcs
  <2>2. f.proj = frame[h].proj /\ frame[h].pc \notin Resting /\ f.proj.Name \in Names
    BY <1>0, <1>4 DEF GoesOn, Precedes, Follows, Resting, DeletePcs, UndeployPcs, ElasticPcs,
                      ProxyPcs, FrameOK, Project
  <2>3. CASE frame[h].pc \in {"cpNamespace", "cpQuota"}
    <3>1. f.pc \in {"cpQuota", "cpLimits"}
      BY <1>4, <2>3 DEF GoesOn, Precedes, Follows, DeletePcs, UndeployPcs, ElasticPcs, ProxyPcs
    <3> QED
      BY <2>1, <3>1 DEF FrameActive
  <2>4. CASE frame[h].pc = "cpLimits"
    <3>1. f.pc = "cpLookup"
      BY <1>4, <2>4 DEF GoesOn, Precedes, Follows, DeletePcs, UndeployPcs, ElasticPcs, ProxyPcs
    <3>2. ~Reply(h, "bad")
      BY <1>0, <3>1 DEF Reply, AtRest, TypeInv, TypeOK
    <3>3. Active(frame[h].proj.Name)
      BY <2>4, <3>2, HandlerNamespaces
    <3> QED
      BY <1>0, <2>1, <2>2, <3>3 DEF FrameActive
  <2>5. CASE frame[h].pc \notin {"cpNamespace", "cpQuota", "cpLimits"}
    BY <1>0, <2>1, <2>2, <2>5 DEF FrameActive
  <2> QED
    BY <2>3, <2>4, <2>5
<1>5. CASE Looks(frame[h], f)
  <2>1. frame[h].proj \in Project /\ frame[h].proj.Name \in Names
    BY <1>0, <1>5 DEF Looks, FrameOK, Resting, Project
  <2>2. f.proj.Name = frame[h].proj.Name
    BY <1>0, <1>5, <2>1, FoundType, UpdateWithProjectType DEF Looks
  <2> QED
    BY <1>0, <1>5, <2>1, <2>2 DEF Looks, FrameActive, Resting, DeletePcs
<1>6. CASE Enters(frame[h], f)
  <2>1. /\ frame[h].proj \in Project /\ frame[h].dep \in Deps
        /\ frame[h].proj.Name \in Names
    BY <1>0, <1>6, DeployFrame DEF Enters, CreatePcs, Dep, Ns
  <2>2. f.proj.Name = frame[h].proj.Name
    BY <1>6, <2>1, UpdateDeploymentType DEF Enters
  <2> QED
    BY <1>0, <1>6, <2>1, <2>2 DEF Enters, FrameActive, Resting, DeletePcs
<1> QED
  BY <1>1, <1>2, <1>3, <1>4, <1>5, <1>6

LEMMA NextActiveInv == ASSUME NoDeletion PROVE ActiveInv /\ [Next]_vars => ActiveInv'
<1> SUFFICES ASSUME ActiveInv, [Next]_vars PROVE ActiveInv'
  OBVIOUS
<1>0. TypeInv /\ TypeInv' /\ frame \in [Handlers -> Frame]
  BY NextTypeInv DEF ActiveInv, TypeInv, TypeOK
<1>1. ASSUME NEW h \in Handlers, HandlerStep(h) PROVE ActiveInv'
  <2>0. /\ NeverEnding' /\ \A n \in Names : Active(n) => Active(n)'
        /\ LocalStep(h) \/ WriteStep(h)
    BY <1>0, <1>1, HandlerNamespaces, HandlerCluster
  <2>1. ASSUME NEW g \in Handlers PROVE FrameActive(frame[g]) /\ FrameOK(frame[g])
    BY DEF ActiveInv, TypeInv, FramesOK
  <2>2. PICK f \in Frame : frame' = [frame EXCEPT ![h] = f] /\ FrameActive(f)'
    <3>1. CASE LocalStep(h)
      BY <1>1, <3>1, LocalActive DEF LocalStep, SetsFrame
    <3>2. CASE WriteStep(h)
      <4>1. PICK r \in Resting : Reply(h, r)
        BY <1>0, <3>2, WriteEnds
      <4>2. AtRest(r) \in Frame /\ AtRest(r).pc \in Resting
        BY AtRestOK DEF AtRest
      <4>3. FrameActive(AtRest(r))'
        BY <4>2 DEF FrameActive, Resting, DeletePcs
      <4> QED
        BY <4>1, <4>2, <4>3 DEF Reply
    <3> QED
      BY <2>0, <3>1, <3>2
  <2>3. ASSUME NEW g \in Handlers PROVE FrameActive(frame[g])'
    <3>1. CASE g = h
      BY <1>0, <2>2, <3>1 DEF FrameActive
    <3>2. CASE g # h
      <4>1. frame'[g] = frame[g]
        BY <1>0, <2>2, <3>2
      <4>2. frame[g].pc \notin Resting => frame[g].proj.Name \in Names
        BY <2>1 DEF FrameOK, Project
      <4> QED
        BY <2>0, <2>1, <4>1, <4>2 DEF FrameActive
    <3> QED
      BY <3>1, <3>2
  <2> DEFINE Awake(n) == kube'[n].status = "active"
  <2>4. ASSUME NEW i \in Stored(db') PROVE Awake(db'[i].Name)
    <3>1. ASSUME i \in Stored(db), db'[i] = db[i] PROVE Awake(db'[i].Name)
      BY <1>0, <2>0, <3>1, FoundType DEF ActiveInv, StoredActive, Found, Project, Active
    <3>2. CASE LocalStep(h)
      BY <2>4, <3>1, <3>2 DEF LocalStep
    <3>3. CASE WriteStep(h)
      <4>1. CASE /\ db'[i].Name = frame[h].proj.Name
                 /\ frame[h].pc \notin Resting \cup FormPcs
        BY <2>0, <2>1, <4>1 DEF FrameActive, FormPcs, FrameOK, Project, Active
      <4> QED
        BY <1>0, <2>4, <3>1, <3>3, <4>1, WriteNames
    <3> QED
      BY <2>0, <3>2, <3>3
  <2> QED
    BY <1>0, <2>0, <2>3, <2>4 DEF ActiveInv, StoredActive, Active
<1>2. CASE UNCHANGED <<db, kube, frame>>
  BY <1>0, <1>2 DEF ActiveInv, NeverEnding, StoredActive, FrameActive, Active
<1>3. CASE Crash
  <2>1. \A g \in Handlers : FrameActive(frame[g])'
    BY <1>3 DEF Crash, AtRest, FrameActive, Resting, DeletePcs
  <2> QED
    BY <1>0, <1>3, <2>1 DEF Crash, ActiveInv, NeverEnding, StoredActive, Active
<1>4. ~\E n \in Names : FinalizeNamespace(n)
  BY DEF FinalizeNamespace, ActiveInv, NeverEnding, Active
<1>5. \/ \E h \in Handlers : HandlerStep(h)
      \/ \E n \in Names : FinalizeNamespace(n)
      \/ Crash \/ Restart \/ UNCHANGED vars
  BY DEF Next, HandlerStep
<1> QED
  BY <1>1, <1>2, <1>3, <1>4, <1>5 DEF Restart, vars

\* Where no project is deleted, every project has its namespace, and has it at
\* every moment: although the error of CreateNamespace is dropped, the limit
\* range cannot be put into a namespace that is not there, whichever requests
\* overlap, whatever fails and wherever the process dies.
THEOREM NamespaceForEach == ASSUME NoDeletion PROVE Spec => []NamespaceEach
<1>1. ActiveInv => NamespaceEach
  BY DEF ActiveInv, StoredActive, Active, NamespaceEach
<1> QED
  BY <1>1, InitActiveInv, NextActiveInv, PTL DEF Spec

------------------------------------------------------------------------------
(***************************************************************************)
(* Limits, where requests are served one at a time and no project is       *)
(* deleted.                                                                *)
(***************************************************************************)

\* The API server answers for resource quotas.
QuotasAnswered == "resourcequotas" \notin Faulty

\* From the limit range on, a form finds its limits in the namespace.  Before, it
\* finds its quota there if there is a namespace.
FrameLimited(f) ==
  LET n == kube[f.proj.Name] IN
  /\ f.pc = "cpLimits" /\ Active(f.proj.Name) => n.quota = f.proj.Limits
  /\ f.pc \in {"cpLookup", "cpSave", "cpUpdate"} =>
       n.limitRange = f.proj.Limits /\ n.quota = f.proj.Limits

LimitsInv == ActiveInv /\ \A h \in Handlers : FrameLimited(frame[h])

\* The frame of a handler after a step that leaves the database alone.
LEMMA LocalFrame ==
  ASSUME TypeInv, NEW h \in Handlers, LocalStep(h)
  PROVE  \E f \in Frame :
           /\ frame' = [frame EXCEPT ![h] = f] /\ frame'[h] = f
           /\ \/ f.pc \in Refused \/ Submits(f) \/ Reads(f)
              \/ GoesOn(frame[h], f) \/ Looks(frame[h], f) \/ Enters(frame[h], f)
BY DEF LocalStep, SetsFrame, TypeInv, TypeOK

LEMMA LocalLimited ==
  ASSUME QuotasAnswered, LimitsInv, NEW h \in Handlers, HandlerStep(h), LocalStep(h)
  PROVE  \E f \in Frame : frame'[h] = f /\ FrameLimited(f)'
<1>0. /\ TypeInv /\ FrameLimited(frame[h]) /\ FrameOK(frame[h]) /\ ClusterStep(h)
      /\ kube \in [Names -> Namespace]
  BY HandlerCluster DEF LimitsInv, ActiveInv, TypeInv, TypeOK, FramesOK
<1>1. PICK f \in Frame :
        /\ frame' = [frame EXCEPT ![h] = f] /\ frame'[h] = f
        /\ \/ f.pc \in Refused \/ Submits(f) \/ Reads(f)
           \/ GoesOn(frame[h], f) \/ Looks(frame[h], f) \/ Enters(frame[h], f)
  BY <1>0, LocalFrame
<1> DEFINE p == frame[h].proj
           n == p.Name
<1>2. CASE f.pc \notin {"cpLimits", "cpLookup", "cpSave", "cpUpdate"}
  BY <1>1, <1>2 DEF FrameLimited
<1>3. CASE GoesOn(frame[h], f) /\ f.pc = "cpLimits"
  <2> DEFINE r == [kube[n] EXCEPT !.quota = p.Limits]
  <2>1. frame[h].pc = "cpQuota" /\ f.proj = p
    BY <1>3 DEF GoesOn, Precedes, Follows, AfterElastic, DeletePcs, UndeployPcs, ElasticPcs,
                ProxyPcs
  <2>2. n \in Names /\ kube[n] \in Namespace
    BY <1>0, <2>1 DEF FrameOK, Resting, Project
  <2>3. kube' = IF Active(n) \/ kube[n].quota # Nil
                THEN [kube EXCEPT ![n] = r] ELSE kube
    BY <1>0, <2>1 DEF ClusterStep, CreateResourceQuota, QuotasAnswered, Answers
  <2>4. r.quota = p.Limits /\ r.status = kube[n].status
    BY <2>2 DEF Namespace
  <2> HIDE DEF r
  <2>5. kube'[n].status = "active" => kube'[n].quota = p.Limits
    BY <1>0, <2>2, <2>3, <2>4 DEF Active
  <2> QED
    BY <1>1, <1>3, <2>1, <2>5 DEF FrameLimited, Active
<1>4. CASE GoesOn(frame[h], f) /\ f.pc = "cpLookup"
  <2> DEFINE r == [kube[n] EXCEPT !.limitRange = p.Limits]
  <2>1. frame[h].pc = "cpLimits" /\ f.proj = p
    BY <1>4 DEF GoesOn, Precedes, Follows, AfterElastic, DeletePcs, UndeployPcs, ElasticPcs,
                ProxyPcs
  <2>2. n \in Names /\ kube[n] \in Namespace
    BY <1>0, <2>1 DEF FrameOK, Resting, Project
  <2>3. ~Reply(h, "bad")
    BY <1>0, <1>1, <1>4 DEF Reply, AtRest, TypeInv, TypeOK
  <2>4. kube' = [kube EXCEPT ![n] = r]
    BY <1>0, <2>1, <2>3 DEF ClusterStep, CreateLimitRange
  <2>5. kube[n].quota = p.Limits
    BY <1>0, <2>1, <2>3, HandlerNamespaces DEF LimitsInv, FrameLimited
  <2>6. r.limitRange = p.Limits /\ r.quota = p.Limits
    BY <2>2, <2>5 DEF Namespace
  <2> HIDE DEF r
  <2>7. kube'[n] = r
    BY <1>0, <2>2, <2>4
  <2> QED
    BY <1>1, <1>4, <2>1, <2>6, <2>7 DEF FrameLimited
<1>5. CASE Looks(frame[h], f)
  <2>1. p \in Project /\ kube' = kube
    BY <1>0, <1>5 DEF Looks, FrameOK, Resting, ClusterStep
  <2>2. Found(db, f.id) => /\ UpdateWithProject(db[f.id], p).Name = n
                           /\ UpdateWithProject(db[f.id], p).Limits = p.Limits
    BY <1>0, <2>1, FoundType DEF UpdateWithProject, Project
  <2>3. f.proj.Name = n /\ f.proj.Limits = p.Limits
    BY <1>5, <2>2 DEF Looks
  <2> QED
    BY <1>0, <1>1, <1>5, <2>1, <2>3 DEF FrameLimited, Looks
<1> QED
  BY <1>1, <1>2, <1>3, <1>4, <1>5
     DEF Refused, Submits, Reads, GoesOn, Precedes, Follows, Enters, AfterElastic,
         DeletePcs, UndeployPcs, ElasticPcs, ProxyPcs

LEMMA NextLimitsInv ==
  ASSUME OneAtATime, NoDeletion, QuotasAnswered
  PROVE  LimitsInv /\ [Next]_vars => LimitsInv'
<1> SUFFICES ASSUME LimitsInv, [Next]_vars PROVE LimitsInv'
  OBVIOUS
<1>0. ActiveInv' /\ TypeInv
  BY NextActiveInv DEF LimitsInv, ActiveInv
<1>1. ASSUME \A g \in Handlers : frame'[g].pc \in Resting PROVE LimitsInv'
  BY <1>0, <1>1 DEF LimitsInv, FrameLimited, Active, Resting
<1>2. ASSUME NEW h \in Handlers, HandlerStep(h) PROVE LimitsInv'
  <2>1. CASE LocalStep(h)
    <3>1. PICK f \in Frame : frame'[h] = f /\ FrameLimited(f)'
      BY <1>2, <2>1, LocalLimited
    <3>2. \A g \in Handlers : frame'[g] = f
      BY <3>1 DEF OneAtATime
    <3> QED
      BY <1>0, <3>1, <3>2 DEF LimitsInv, FrameLimited, Active
  <2>2. CASE WriteStep(h)
    BY <1>0, <1>1, <2>2, WriteEnds DEF OneAtATime
  <2> QED
    BY <1>0, <1>2, <2>1, <2>2, HandlerCluster
<1>3. CASE UNCHANGED <<kube, frame>>
  BY <1>0, <1>3 DEF LimitsInv, FrameLimited, Active
<1>4. CASE Crash
  BY <1>1, <1>4 DEF Crash, AtRest, Resting
<1>5. ~\E n \in Names : FinalizeNamespace(n)
  BY DEF FinalizeNamespace, LimitsInv, ActiveInv, NeverEnding
<1>6. \/ \E h \in Handlers : HandlerStep(h)
      \/ \E n \in Names : FinalizeNamespace(n)
      \/ Crash \/ Restart \/ UNCHANGED vars
  BY DEF Next, HandlerStep
<1> QED
  BY <1>2, <1>3, <1>4, <1>5, <1>6 DEF Restart, vars

\* A form that is answered 200 left its limits in the namespace, in the limit
\* range and in the resource quota: when requests are served one at a time, no
\* project is deleted and the API server answers for quotas, whatever else it
\* refuses and wherever the server crashes.  That quotas are answered is needed:
\* the error of that call is overwritten.
THEOREM AcknowledgedHaveLimits ==
  ASSUME OneAtATime, NoDeletion, QuotasAnswered PROVE Spec => AcknowledgedLimits
<1>1. Init => LimitsInv
  <2> SUFFICES ASSUME Init PROVE LimitsInv
    OBVIOUS
  <2>1. \A h \in Handlers : FrameLimited(frame[h])
    BY DEF Init, AtRest, FrameLimited
  <2> QED
    BY <2>1, InitActiveInv DEF LimitsInv
<1>2. LimitsInv /\ [Next]_vars =>
        [\A h \in Handlers :
           Acknowledges(h, "cpSave") \/ Acknowledges(h, "cpUpdate") =>
             /\ kube[Ns(h)].limitRange = frame[h].proj.Limits
             /\ kube[Ns(h)].quota = frame[h].proj.Limits]_vars
  BY DEF LimitsInv, FrameLimited, Acknowledges, Ns
<1> QED
  BY <1>1, <1>2, NextLimitsInv, PTL DEF Spec, AcknowledgedLimits

------------------------------------------------------------------------------
(***************************************************************************)
(* The deployments of the records, where requests are served one at a      *)
(* time and no project is deleted or renamed.                              *)
(***************************************************************************)

NoRename == "rename" \notin Ops

UniqueNames == \A i, j \in Stored(db) : db[i].Name = db[j].Name => i = j

\* Deployment d of project p, with the namespace it is in.
Part(p, d) == <<p.Name, d, p.Deployment[d]>>

\* The form and its copy are of the project as it is named.
FrameName(f) ==
  /\ f.pc \in FormPcs /\ f.id # Nil => Found(db, f.id) /\ f.proj.Name = db[f.id].Name
  /\ f.pc = "cpUpdate" => f.proj.Name = db[f.id].Name

\* The request in f is about to write or forget deployment d of project i.
Settles(f, i, d) ==
  f.pc \in ProxyPcs \cup {"cdUpdate", "ddSave"} /\ f.id = i /\ f.dep = d

LEMMA PartType ==
  ASSUME NEW p \in Project, NEW d \in Recorded(p)
  PROVE  Part(p, d) \in Names \X Deps \X Deployment
<1>1. d \in Deps /\ DeploymentsOf(p)[d] # Nil
  BY DEF Recorded
<1>2. p.Deployment # Nil
  BY <1>1 DEF DeploymentsOf, NoDeployments
<1>3. p.Deployment[d] \in Deployment
  BY <1>1, <1>2, DeploymentsOfType DEF DeploymentsOf, DeploymentList
<1> QED
  BY <1>1, <1>3 DEF Part, Project

LEMMA LocalFrameName ==
  ASSUME NoRename, TypeInv, NEW h \in Handlers, FrameName(frame[h]), LocalStep(h)
  PROVE  \E f \in Frame : frame'[h] = f /\ FrameName(f)'
<1>1. PICK f \in Frame :
        /\ frame' = [frame EXCEPT ![h] = f] /\ frame'[h] = f
        /\ \/ f.pc \in Refused \/ Submits(f) \/ Reads(f)
           \/ GoesOn(frame[h], f) \/ Looks(frame[h], f) \/ Enters(frame[h], f)
  BY LocalFrame
<1>2. db' = db /\ FrameOK(frame[h])
  BY DEF LocalStep, TypeInv, FramesOK
<1>3. CASE f.pc \notin FormPcs \cup {"cpUpdate"}
  BY <1>1, <1>3 DEF FrameName
<1>4. CASE Submits(f)
  BY <1>1, <1>2, <1>4 DEF Submits, FormOf, NoRename, FrameName, FormPcs
<1>5. CASE GoesOn(frame[h], f) /\ f.pc \in FormPcs \cup {"cpUpdate"}
  <2>1. frame[h].pc \in FormPcs /\ f.pc \in FormPcs
    BY <1>5 DEF GoesOn, Precedes, Follows, AfterElastic, FormPcs, DeletePcs, UndeployPcs,
                ElasticPcs, ProxyPcs
  <2> QED
    BY <1>1, <1>2, <1>5, <2>1 DEF GoesOn, FrameName, FormPcs
<1>6. CASE Looks(frame[h], f) /\ f.pc = "cpUpdate"
  <2>1. Found(db, f.id) /\ f.id = frame[h].id /\ f.id # Nil /\ frame[h].proj \in Project
    BY <1>2, <1>6, FoundType, ServerAssumption DEF Looks, FrameOK, Resting
  <2>2. f.proj.Name = frame[h].proj.Name
    BY <1>6, <2>1, FoundType, UpdateWithProjectType DEF Looks
  <2> QED
    BY <1>1, <1>2, <1>6, <2>1, <2>2 DEF Looks, FrameName, FormPcs
<1> QED
  BY <1>1, <1>3, <1>4, <1>5, <1>6 DEF Refused, Reads, AfterElastic, Looks, Enters, FormPcs

\* A copy in createDeployment or detleteDeploymentHandler is of the project that
\* has the namespace.
LEMMA SameProjectByName ==
  ASSUME SerialInv, UniqueNames, NEW h \in Handlers, NEW i \in Stored(db),
         frame[h].pc \in CreatePcs \cup UndeployPcs, db[i].Name = frame[h].proj.Name
  PROVE  i = frame[h].id
<1>1. TypeInv /\ FrameSerial(frame[h])
  BY DEF SerialInv
<1>2. Found(db, frame[h].id) /\ frame[h].proj.Name = db[frame[h].id].Name
  BY <1>1, FoundType DEF FrameSerial, DiffersAt, Project
<1> QED
  BY <1>2 DEF UniqueNames, Found

\* The last steps of the two handlers, and the calls for the ingress in
\* createDeployment, come where they should.
LEMMA StepsByPlace ==
  ASSUME TypeInv, NEW h \in Handlers, HandlerStep(h)
  PROVE  /\ frame[h].pc = "cdUpdate" => RecordDeployment(h)
         /\ frame[h].pc = "ddSave" => ForgetDeployment(h)
         /\ frame[h].pc \in ElasticPcs \ {"cdElastic"} => \E pc \in ElasticPcs : Goto(h, pc)
         /\ frame[h].pc \in ProxyPcs =>
              /\ \E pc \in ProxyPcs \cup {"cdUpdate"} : Goto(h, pc)
              /\ CreateIngress(h) \/ DeleteIngress(h) \/ RecreateIngress(h)
<1>1. CASE CreateProjects(h)
  BY <1>1 DEF CreateProjects, SubmitNew, SubmitEdit, Submit, Ready, Resting, CreateNamespace,
              CreateResourceQuota, CreateLimitRange, LookupProject, SaveProject, UpdateProject,
              At, ProxyPcs, ElasticPcs
<1>2. CASE AddRoleToProject(h) \/ DeleteProject(h)
  BY <1>2 DEF AddRoleToProject, ReadForRole, SaveRole, DeleteProject, ReadForDelete,
              DeleteNamespace, DeleteRecord, Ready, Resting, At, ProxyPcs, ElasticPcs
<1>3. CASE CreateDeployment(h)
  BY <1>3 DEF CreateDeployment, ReadForDeploy, CreateSecret, DeleteSecret, RecreateSecret,
              DeployElastic, DeployKibana, CreateIngress, DeleteIngress, RecreateIngress,
              RecordDeployment, Ready, Resting, At, ProxyPcs, ElasticPcs
<1>4. CASE DeleteDeployment(h)
  BY <1>4 DEF DeleteDeployment, ReadForUndeploy, ProxyDelete, DeleteElastic, DeleteKibana,
              ForgetDeployment, Ready, Resting, At, ProxyPcs, ElasticPcs
<1> QED
  BY <1>1, <1>2, <1>3, <1>4 DEF HandlerStep

\* The deployments of a record that is updated, and of one that loses one.
LEMMA UpdatedDeployments ==
  ASSUME NEW o \in Project, NEW p \in Project, NEW d \in Deps, DiffersAt(o, p, d),
         NEW e \in Recorded(NonZeroFields(o, p))
  PROVE  LET q == NonZeroFields(o, p) IN
         IF e = d THEN e \in Recorded(p) /\ q.Deployment[e] = p.Deployment[e]
                  ELSE e \in Recorded(o) /\ q.Deployment[e] = o.Deployment[e]
<1> DEFINE q == NonZeroFields(o, p)
<1>1. q.Deployment = IF p.Deployment = Nil THEN o.Deployment ELSE p.Deployment
  BY DEF NonZeroFields, Project
<1>2. e \in Deps /\ DeploymentsOf(q)[e] # Nil
  BY DEF Recorded
<1> HIDE DEF q
<1>3. CASE p.Deployment = Nil
  <2>1. \A c \in Deps : DeploymentsOf(p)[c] = Nil
    BY <1>3 DEF DeploymentsOf, NoDeployments
  <2>2. \A c \in Deps : DeploymentsOf(o)[c] = Nil
    BY <2>1 DEF DiffersAt
  <2>3. DeploymentsOf(q) = DeploymentsOf(o)
    BY <1>1, <1>3 DEF DeploymentsOf
  <2> QED
    BY <1>2, <2>2, <2>3
<1>4. CASE p.Deployment # Nil
  <2>1. DeploymentsOf(q) = p.Deployment /\ DeploymentsOf(p) = p.Deployment
        /\ q.Deployment = p.Deployment
    BY <1>1, <1>4 DEF DeploymentsOf
  <2>2. e # d => DeploymentsOf(o)[e] = p.Deployment[e]
    BY <1>2, <2>1 DEF DiffersAt
  <2>3. e # d => o.Deployment # Nil
    BY <1>2, <2>1, <2>2 DEF DeploymentsOf, NoDeployments
  <2>4. e # d => e \in Recorded(o) /\ q.Deployment[e] = o.Deployment[e]
    BY <1>2, <2>1, <2>2, <2>3 DEF Recorded, DeploymentsOf
  <2>5. e = d => e \in Recorded(p) /\ q.Deployment[e] = p.Deployment[e]
    BY <1>2, <2>1 DEF Recorded
  <2> QED
    BY <2>4, <2>5 DEF q
<1> QED
  BY <1>3, <1>4

LEMMA RemainingDeployments ==
  ASSUME NEW o \in Project, NEW d \in Deps, NEW e \in Recorded(DeletDeployment(o, d))
  PROVE  /\ e # d /\ e \in Recorded(o)
         /\ DeletDeployment(o, d).Deployment[e] = o.Deployment[e]
<1> DEFINE list == [DeploymentsOf(o) EXCEPT ![d] = Nil]
           q    == DeletDeployment(o, d)
<1>1. list \in DeploymentList /\ DeploymentsOf(o) \in DeploymentList
  BY DeploymentsOfType DEF DeploymentList
<1>2. q.Deployment = list
  BY DEF DeletDeployment, Project
<1>3. DeploymentsOf(q) = list
  BY <1>1, <1>2, NilAssumption DEF DeploymentsOf
<1>4. e \in Deps /\ list[e] # Nil
  BY <1>3 DEF Recorded
<1>5. e # d /\ list[e] = DeploymentsOf(o)[e]
  BY <1>1, <1>4 DEF DeploymentList
<1>6. o.Deployment # Nil
  BY <1>4, <1>5 DEF DeploymentsOf, NoDeployments
<1> QED
  BY <1>2, <1>4, <1>5, <1>6 DEF Recorded, DeploymentsOf

\* A record is written whose name is free and whose deployments are in S.
LEMMA SaveRecords ==
  ASSUME TypeInv, UniqueNames, NEW i \in Ids, NEW q \in Project, NameFree(db, i, q.Name),
         db' = Save(db, i, q), NEW S,
         \A j \in Stored(db) \ {i} : \A d \in Recorded(db[j]) : Part(db[j], d) \in S,
         \A d \in Recorded(q) : Part(q, d) \in S
  PROVE  UniqueNames' /\ \A j \in Stored(db') : \A d \in Recorded(db'[j]) : Part(db'[j], d) \in S
<1>0. /\ db \in [Ids -> Project \cup {Nil}] /\ q # Nil
  BY NilAssumption DEF TypeInv, TypeOK
<1>1. /\ db'[i] = q /\ \A j \in Ids \ {i} : db'[j] = db[j]
      /\ Stored(db') = Stored(db) \cup {i}
  BY <1>0 DEF Save, Stored
<1>2. UniqueNames'
  BY <1>0, <1>1 DEF UniqueNames, NameFree, Stored
<1>3. ASSUME NEW j \in Stored(db'), NEW d \in Recorded(db'[j])
      PROVE  Part(db'[j], d) \in S
  <2>1. j # i => j \in Stored(db) /\ db'[j] = db[j]
    BY <1>0, <1>1, <1>3 DEF Stored
  <2> QED
    BY <1>1, <1>3, <2>1
<1> QED
  BY <1>2, <1>3

LEMMA WriteRecords ==
  ASSUME SerialInv, UniqueNames, NEW h \in Handlers, HandlerStep(h), WriteStep(h),
         frame[h].pc # "dpDelete", FrameName(frame[h]), NEW S,
         \A j \in Stored(db) : \A e \in Recorded(db[j]) :
           Part(db[j], e) \in S \/ Settles(frame[h], j, e),
         frame[h].pc = "cdUpdate" /\ frame[h].dep \in Recorded(frame[h].proj) =>
           Part(frame[h].proj, frame[h].dep) \in S
  PROVE  UniqueNames' /\ \A j \in Stored(db') : \A e \in Recorded(db'[j]) : Part(db'[j], e) \in S
<1> DEFINE i == frame[h].id
           p == frame[h].proj
           d == frame[h].dep
           Good == UniqueNames' /\ \A j \in Stored(db') : \A e \in Recorded(db'[j]) :
                                    Part(db'[j], e) \in S
<1> SUFFICES Good
  OBVIOUS
<1>0. /\ TypeInv /\ FrameSerial(frame[h]) /\ FrameOK(frame[h])
      /\ db \in [Ids -> Project \cup {Nil}]
  BY DEF SerialInv, TypeInv, TypeOK, FramesOK
<1>1. ASSUME NEW j \in Stored(db), NEW e \in Recorded(db[j]),
             frame[h].pc \notin {"cdUpdate", "ddSave"} \/ j # i \/ e # d
      PROVE  Part(db[j], e) \in S
  <2>1. frame[h].pc \notin ProxyPcs
    BY DEF WriteStep, SaveProject, UpdateProject, SaveRole, DeleteRecord, RecordDeployment,
           ForgetDeployment, At, ProxyPcs
  <2> QED
    BY <1>1, <2>1 DEF Settles
<1>2. Found(db, i) => \A q \in Project : q.Name = db[i].Name => NameFree(db, i, q.Name)
  BY <1>0 DEF UniqueNames, NameFree, Found
<1>3. CASE frame[h].pc = "cdUpdate"
  <2> DEFINE q == NonZeroFields(db[i], p)
  <2>1. /\ Found(db, i) /\ i \in Ids /\ db[i] \in Project /\ p \in Project /\ d \in Deps
        /\ DiffersAt(db[i], p, d)
    BY <1>0, <1>3, FoundType DEF FrameSerial, CreatePcs, FrameOK, Resting, DeploymentPcs
  <2>2. q \in Project /\ q.Name = p.Name /\ p.Name = db[i].Name
    BY <2>1, NonZeroFieldsType DEF DiffersAt, Project
  <2>3. db' = Save(db, i, q)
    BY <1>0, <1>2, <1>3, <2>1, <2>2, StepsByPlace DEF RecordDeployment, UpdateRecord, UpdateOk
  <2>4. ASSUME NEW e \in Recorded(q) PROVE Part(q, e) \in S
    <3>1. CASE e = d
      <4>1. e \in Recorded(p) /\ q.Deployment[e] = p.Deployment[e]
        BY <2>1, <2>4, <3>1, UpdatedDeployments
      <4> QED
        BY <1>3, <2>2, <3>1, <4>1 DEF Part
    <3>2. CASE e # d
      <4>1. e \in Recorded(db[i]) /\ q.Deployment[e] = db[i].Deployment[e]
        BY <2>1, <2>4, <3>2, UpdatedDeployments
      <4> QED
        BY <1>1, <2>1, <2>2, <3>2, <4>1 DEF Found, Part
    <3> QED
      BY <3>1, <3>2
  <2> HIDE DEF q
  <2> QED
    BY <1>0, <1>1, <1>2, <2>1, <2>2, <2>3, <2>4, SaveRecords
<1>4. CASE frame[h].pc = "ddSave"
  <2> DEFINE q == DeletDeployment(p, d)
  <2>1. /\ Found(db, i) /\ i \in Ids /\ db[i] \in Project /\ p = db[i] /\ d \in Deps
    BY <1>0, <1>4, FoundType DEF FrameSerial, UndeployPcs, FrameOK, DeploymentPcs
  <2>2. q \in Project /\ q.Name = db[i].Name
    BY <2>1, DeletDeploymentType
  <2>3. db' = Save(db, i, q)
    BY <1>0, <1>2, <1>4, <2>1, <2>2, StepsByPlace DEF ForgetDeployment, SaveOk, Dep
  <2>4. ASSUME NEW e \in Recorded(q) PROVE Part(q, e) \in S
    <3>1. e # d /\ e \in Recorded(db[i]) /\ q.Deployment[e] = db[i].Deployment[e]
      BY <2>1, <2>4, RemainingDeployments
    <3> QED
      BY <1>1, <2>1, <2>2, <3>1 DEF Found, Part
  <2> HIDE DEF q
  <2> QED
    BY <1>0, <1>1, <1>2, <2>1, <2>2, <2>3, <2>4, SaveRecords
<1>5. CASE frame[h].pc \notin {"cdUpdate", "ddSave"}
  <2>1. CASE UNCHANGED db
    BY <1>0, <1>1, <1>5, <2>1 DEF UniqueNames
  <2>2. ASSUME NEW j \in Ids, NEW q \in Project, SaveOk(db, j, q), db' = Save(db, j, q),
               \A e \in Recorded(q) : Part(q, e) \in S
        PROVE  Good
    BY <1>0, <1>1, <1>5, <2>2, SaveRecords DEF SaveOk
  <2>3. ASSUME NEW j \in Ids, p \in Project, p.Deployment = Nil, SaveOk(db, j, p),
               db' = Save(db, j, p)
        PROVE  Good
    <3>1. Recorded(p) = {}
      BY <2>3 DEF Recorded, DeploymentsOf, NoDeployments
    <3> QED
      BY <2>2, <2>3, <3>1
  <2>4. ASSUME NEW q \in Project, i \in Ids, Found(db, i), SaveOk(db, i, q),
               db' = Save(db, i, q), q.Deployment = db[i].Deployment, q.Name = db[i].Name
        PROVE  Good
    <3>1. Recorded(q) = Recorded(db[i])
      BY <2>4 DEF Recorded, DeploymentsOf
    <3>2. \A e \in Recorded(q) : Part(q, e) \in S
      BY <1>1, <1>5, <2>4, <3>1 DEF Found, Part
    <3> QED
      BY <2>2, <2>4, <3>2
  <2>5. ASSUME NEW q \in Project, i \in Ids, Found(db, i), db' = Save(db, i, q),
               frame[h].pc = "cpUpdate"
        PROVE  q.Name = db[i].Name
    <3>1. db'[i] = q /\ i \in Stored(db') /\ p.Name = db[i].Name
      BY <1>0, <2>5, NilAssumption DEF Save, Stored, FrameName
    <3> QED
      BY <1>0, <3>1, WriteNames
  <2>6. ASSUME NEW q \in Project, Found(db, i),
               \E u \in Users, r \in Roles : q = AddRole(db[i], u, r)
        PROVE  q.Deployment = db[i].Deployment /\ q.Name = db[i].Name
    BY <1>0, <2>6, FoundType DEF AddRole, Project
  <2> QED
    BY <1>0, <1>5, <2>1, <2>3, <2>4, <2>5, <2>6, WriteCases
<1> QED
  BY <1>3, <1>4, <1>5

------------------------------------------------------------------------------
(***************************************************************************)
(* Kibanas, where also every form names a cluster and the server does not  *)
(* crash.                                                                  *)
(***************************************************************************)

EveryEs == \A req \in DepRequests : req.es # Nil

\* Kibana d of namespace n has the version of deployment c.
HasKibana(n, d, c) == kube[n].kb[d] # Nil /\ kube[n].kb[d].Version = c.kb.Version

StoredKibana ==
  \A i \in Stored(db) : \A d \in Recorded(db[i]) :
    \/ HasKibana(db[i].Name, d, db[i].Deployment[d])
    \/ \E h \in Handlers : Settles(frame[h], i, d)

\* A deployment in the copy has its Kibana: nothing changes the Kibana of a
\* record without the copy.
FrameKibana(f) ==
  /\ f.pc \in ElasticPcs \cup {"cdKibana"} => f.req.es # Nil
  /\ f.pc \in CreatePcs /\ f.dep \in Recorded(f.proj) =>
       HasKibana(f.proj.Name, f.dep, f.proj.Deployment[f.dep])

KibanaInv ==
  /\ SerialInv /\ ActiveInv
  /\ UniqueNames /\ StoredKibana
  /\ \A h \in Handlers : FrameName(frame[h]) /\ FrameKibana(frame[h])

\* Recording a deployment records its Kibana.
LEMMA UpdateDeploymentKibana ==
  ASSUME NEW p \in Project, NEW d \in Deps, NEW c \in Deployment
  PROVE  UpdateDeployment(p, d, c).Deployment[d].kb = c.kb
<1> DEFINE old  == DeploymentsOf(p)
           part == IF old[d] = Nil THEN c ELSE UpdateDeploymentParts(old[d], c)
           list == [old EXCEPT ![d] = part]
<1>1. old \in DeploymentList
  BY DeploymentsOfType
<1>2. c.kb # Nil
  BY NilAssumption DEF Deployment
<1>3. part.kb = c.kb
  BY <1>2 DEF UpdateDeploymentParts
<1>4. UpdateDeployment(p, d, c) = [p EXCEPT !.Deployment = list]
  BY DEF UpdateDeployment
<1>5. list[d] = part
  BY <1>1 DEF DeploymentList
<1> HIDE DEF part, list
<1> QED
  BY <1>3, <1>4, <1>5 DEF Project

\* What the two calls for Kibana do.
LEMMA DeployKibanaEffect ==
  ASSUME TypeInv, NEW h \in Handlers, DeployKibana(h), Req(h).es # Nil
  PROVE  \/ kube' = kube /\ Reply(h, "bad")
         \/ /\ Settles(frame'[h], frame[h].id, Dep(h))
            /\ \E c \in Deployment :
                 /\ c.es = Req(h).es /\ c.kb.Id \in Xids
                 /\ frame'[h].proj = UpdateDeployment(frame[h].proj, Dep(h), c)
                 /\ kube'[Ns(h)].kb[Dep(h)] # Nil
                 /\ kube'[Ns(h)].kb[Dep(h)].Version = c.kb.Version
            /\ \A n \in Names, d \in Deps :
                 n # Ns(h) \/ d # Dep(h) => kube'[n].kb[d] = kube[n].kb[d]
<1> DEFINE n == Ns(h)
           d == Dep(h)
           o == KibanaObject(kube[n].kb[d], Req(h).kb)
           r == [kube[n] EXCEPT !.kb = [kube[n].kb EXCEPT ![d] = o]]
<1>0. /\ frame[h].pc = "cdKibana" /\ frame[h].pc \in CreatePcs
      /\ kube \in [Names -> Namespace] /\ frame \in [Handlers -> Frame]
  BY DEF DeployKibana, At, CreatePcs, TypeInv, TypeOK
<1>1. /\ n \in Names /\ d \in Deps /\ kube[n] \in Namespace
      /\ Req(h) \in DepRequest /\ Req(h).kb \in KibanaConfig
      /\ frame[h] \in Frame
  BY <1>0, DeployFrame
<1>2. o # Nil /\ o.Version = Req(h).kb.Version
  BY <1>1, ObjectAssumption DEF KibanaObject, Namespace, KibanaConfig
<1>3. /\ r.kb[d] = o /\ \A e \in Deps : e # d => r.kb[e] = kube[n].kb[e]
  BY <1>1 DEF Namespace
<1>4. ASSUME NEW c \in DepRequest, c.es = Req(h).es, c.kb \in KibanaConfig, c.kb.Id \in Xids,
             c.kb.Version = Req(h).kb.Version,
             frame' = [frame EXCEPT ![h] = KibanaFrame(h, c)]
      PROVE  /\ Settles(frame'[h], frame[h].id, Dep(h))
             /\ c \in Deployment
             /\ frame'[h].proj = UpdateDeployment(frame[h].proj, Dep(h), c)
             /\ kube'[Ns(h)].kb[Dep(h)] # Nil
             /\ kube'[Ns(h)].kb[Dep(h)].Version = c.kb.Version
             /\ \A m \in Names, e \in Deps :
                  m # Ns(h) \/ e # Dep(h) => kube'[m].kb[e] = kube[m].kb[e]
  <2> DEFINE q == UpdateDeployment(frame[h].proj, d, c)
             f == [frame[h] EXCEPT !.req = c, !.proj = q, !.pc = "cdProxy"]
  <2>1. frame' = [frame EXCEPT ![h] = f] /\ c \in Deployment
    BY <1>4 DEF KibanaFrame, DepRequest, Deployment
  <2>2. /\ Settles(frame'[h], frame[h].id, d) /\ frame'[h].proj = q
        /\ frame'[h].pc = "cdProxy"
    BY <1>0, <1>1, <2>1 DEF Frame, Settles, ProxyPcs, Dep
  <2>3. ~Reply(h, "bad")
    BY <1>0, <2>2 DEF Reply, AtRest
  <2>4. kube' = [kube EXCEPT ![n] = r]
    BY <2>3 DEF DeployKibana
  <2> HIDE DEF r, o
  <2>5. kube'[n] = r /\ \A m \in Names : m # n => kube'[m] = kube[m]
    BY <1>0, <1>1, <2>4
  <2>6. kube'[n].kb[d] # Nil /\ kube'[n].kb[d].Version = c.kb.Version
    BY <1>2, <1>3, <1>4, <2>5
  <2>7. \A m \in Names, e \in Deps : m # n \/ e # d => kube'[m].kb[e] = kube[m].kb[e]
    BY <1>3, <2>5
  <2> QED
    BY <2>1, <2>2, <2>6, <2>7
<1> HIDE DEF n, d, o, r
<1>5. CASE \E c \in DepRequest :
             /\ c.es = Req(h).es /\ c.kb \in KibanaConfig /\ c.kb.Id \in Xids
             /\ c.kb.Version = Req(h).kb.Version
             /\ frame' = [frame EXCEPT ![h] = KibanaFrame(h, c)]
  <2>1. PICK c \in DepRequest :
             /\ c.es = Req(h).es /\ c.kb \in KibanaConfig /\ c.kb.Id \in Xids
             /\ c.kb.Version = Req(h).kb.Version
             /\ frame' = [frame EXCEPT ![h] = KibanaFrame(h, c)]
    BY <1>5
  <2> QED
    BY <1>4, <2>1
<1> QED
  BY <1>5, DeployKibanaFrame

LEMMA DeleteKibanaEffect ==
  ASSUME TypeInv, NEW h \in Handlers, DeleteKibana(h)
  PROVE  /\ Settles(frame'[h], frame[h].id, Dep(h))
         /\ \A n \in Names, d \in Deps :
              n # Ns(h) \/ d # Dep(h) => kube'[n].kb[d] = kube[n].kb[d]
<1> DEFINE r == [kube[Ns(h)] EXCEPT !.kb = [kube[Ns(h)].kb EXCEPT ![Dep(h)] = Nil]]
<1>0. /\ frame[h].pc = "ddKibana" /\ FrameOK(frame[h]) /\ frame[h] \in Frame
      /\ kube \in [Names -> Namespace] /\ frame \in [Handlers -> Frame]
  BY DEF DeleteKibana, At, TypeInv, TypeOK, FramesOK
<1>1. Ns(h) \in Names /\ Dep(h) \in Deps
  BY <1>0 DEF FrameOK, Resting, DeploymentPcs, Ns, Dep, Project
<1>2. \A e \in Deps : e # Dep(h) => r.kb[e] = kube[Ns(h)].kb[e]
  BY <1>0, <1>1 DEF Namespace
<1>3. kube' = kube \/ kube' = [kube EXCEPT ![Ns(h)] = r]
  BY DEF DeleteKibana
<1> HIDE DEF r
<1>4. \A n \in Names, d \in Deps :
        n # Ns(h) \/ d # Dep(h) => kube'[n].kb[d] = kube[n].kb[d]
  BY <1>0, <1>1, <1>2, <1>3
<1>5. frame' = [frame EXCEPT ![h] = [frame[h] EXCEPT !.pc = "ddSave"]]
  BY DEF DeleteKibana, Goto
<1>6. Settles(frame'[h], frame[h].id, Dep(h))
  BY <1>0, <1>5 DEF Frame, Settles, Dep
<1> QED
  BY <1>4, <1>6

\* The Kibanas after a step, and who changed one.
LEMMA KibanaStep ==
  ASSUME KibanaInv, NEW h \in Handlers, HandlerStep(h), NEW n \in Names, NEW d \in Deps
  PROVE  \/ kube'[n].kb[d] = kube[n].kb[d]
         \/ /\ n = Ns(h) /\ d = Dep(h)
            /\ frame[h].pc \in CreatePcs \cup UndeployPcs
            /\ Settles(frame'[h], frame[h].id, d)
<1>0. TypeInv /\ ClusterStep(h) /\ FrameKibana(frame[h])
  BY HandlerCluster DEF KibanaInv, SerialInv
<1>1. CASE DeployKibana(h)
  <2>1. frame[h].pc = "cdKibana" /\ Req(h).es # Nil
    BY <1>0, <1>1 DEF DeployKibana, At, FrameKibana, Req
  <2> QED
    BY <1>0, <1>1, <2>1, DeployKibanaEffect DEF CreatePcs
<1>2. CASE DeleteKibana(h)
  <2>1. frame[h].pc = "ddKibana"
    BY <1>2 DEF DeleteKibana, At
  <2> QED
    BY <1>0, <1>2, <2>1, DeleteKibanaEffect DEF UndeployPcs
<1> QED
  BY <1>0, <1>1, <1>2 DEF ClusterStep, KeepsKibana

\* A step that leaves the database alone keeps the Kibana of every record, or
\* is about to write that record.
LEMMA LocalStoredKibana ==
  ASSUME OneAtATime, KibanaInv, NEW h \in Handlers, HandlerStep(h), LocalStep(h), ~WriteStep(h)
  PROVE  StoredKibana'
<1>0. /\ TypeInv /\ UniqueNames /\ StoredKibana /\ FrameSerial(frame[h]) /\ db' = db
      /\ frame[h] \in Frame /\ frame \in [Handlers -> Frame]
  BY DEF KibanaInv, SerialInv, TypeInv, TypeOK, LocalStep
<1>1. SUFFICES ASSUME NEW i \in Stored(db), NEW d \in Recorded(db[i])
               PROVE  \/ /\ kube'[db[i].Name].kb[d] # Nil
                         /\ kube'[db[i].Name].kb[d].Version = db[i].Deployment[d].kb.Version
                      \/ Settles(frame'[h], i, d)
  BY <1>0 DEF StoredKibana, HasKibana
<1>2. db[i] \in Project /\ db[i].Name \in Names /\ d \in Deps
  BY <1>0, <1>1, FoundType DEF Found, Project, Recorded
<1>3. CASE Settles(frame[h], i, d)
  <2>1. frame[h].pc \in ProxyPcs
    BY <1>0, <1>3, StepsByPlace DEF Settles, WriteStep
  <2>2. PICK pc \in ProxyPcs \cup {"cdUpdate"} : Goto(h, pc)
    BY <1>0, <2>1, StepsByPlace
  <2>3. frame'[h] = [frame[h] EXCEPT !.pc = pc]
    BY <1>0, <2>2 DEF Goto
  <2> QED
    BY <1>0, <1>3, <2>3 DEF Settles, Frame
<1>4. CASE ~Settles(frame[h], i, d)
  <2>1. HasKibana(db[i].Name, d, db[i].Deployment[d])
    BY <1>0, <1>1, <1>4 DEF StoredKibana, OneAtATime
  <2>2. CASE kube'[db[i].Name].kb[d] = kube[db[i].Name].kb[d]
    BY <2>1, <2>2 DEF HasKibana
  <2>3. CASE /\ db[i].Name = Ns(h) /\ frame[h].pc \in CreatePcs \cup UndeployPcs
             /\ Settles(frame'[h], frame[h].id, d)
    <3>1. i = frame[h].id
      BY <1>1, <2>3, SameProjectByName DEF KibanaInv, Ns
    <3> QED
      BY <2>3, <3>1
  <2> QED
    BY <1>2, <2>2, <2>3, KibanaStep
<1> QED
  BY <1>3, <1>4

LEMMA LocalFrameKibana ==
  ASSUME OneAtATime, EveryEs, KibanaInv, NEW h \in Handlers,
         HandlerStep(h), LocalStep(h), ~WriteStep(h)
  PROVE  \E f \in Frame : frame'[h] = f /\ FrameKibana(f)'
<1>0. /\ TypeInv /\ FrameSerial(frame[h]) /\ FrameKibana(frame[h]) /\ FrameOK(frame[h])
      /\ db' = db /\ StoredKibana' /\ ClusterStep(h) /\ \A g \in Handlers : g = h
  BY LocalStoredKibana, HandlerCluster
     DEF KibanaInv, SerialInv, TypeInv, FramesOK, LocalStep, OneAtATime
<1>1. PICK f \in Frame :
        /\ frame' = [frame EXCEPT ![h] = f] /\ frame'[h] = f
        /\ \/ f.pc \in Refused \/ Submits(f) \/ Reads(f)
           \/ GoesOn(frame[h], f) \/ Looks(frame[h], f) \/ Enters(frame[h], f)
  BY <1>0, LocalFrame
<1> DEFINE Kept == kube'[f.proj.Name].kb[f.dep] # Nil /\ kube'[f.proj.Name].kb[f.dep].Version
                     = f.proj.Deployment[f.dep].kb.Version
<1>2. SUFFICES /\ f.pc \in ElasticPcs \cup {"cdKibana"} => f.req.es # Nil
               /\ f.pc \in CreatePcs /\ f.dep \in Recorded(f.proj) => Kept
  BY <1>0, <1>1 DEF FrameKibana, HasKibana
<1>3. CASE f.pc \in Refused
  BY <1>3 DEF Refused, ElasticPcs, CreatePcs
<1>4. CASE Submits(f)
  BY <1>4 DEF Submits, ElasticPcs, CreatePcs
<1>5. CASE Reads(f)
  <2>1. CASE f.pc \in {"arSave", "dpNamespace", "ddProxy"}
    BY <2>1 DEF ElasticPcs, CreatePcs
  <2>2. CASE f.pc = "cdSecret" /\ f.req.es # Nil /\ f.proj = db[f.id]
    <3>1. ASSUME f.dep \in Recorded(f.proj) PROVE Kept
      <4>1. f.id \in Stored(db)
        BY <1>5 DEF Reads, Found
      <4>2. ~Settles(frame'[h], f.id, f.dep)
        BY <1>1, <2>2 DEF Settles, ProxyPcs
      <4> QED
        BY <1>0, <2>2, <3>1, <4>1, <4>2 DEF StoredKibana, HasKibana
    <3> QED
      BY <2>2, <3>1
  <2> QED
    BY <1>5, <2>1, <2>2 DEF Reads, EveryEs
<1>6. CASE GoesOn(frame[h], f)
  <2>1. f.id = frame[h].id /\ f.proj = frame[h].proj /\ f.dep = frame[h].dep
    BY <1>6 DEF GoesOn
  <2>2. /\ f.pc \in ElasticPcs \cup {"cdKibana"} =>
             frame[h].pc \in ElasticPcs /\ SameParts(frame[h].req, f.req)
        /\ f.pc \in CreatePcs => frame[h].pc \in CreatePcs \ {"cdKibana"}
    BY <1>0, <1>6 DEF GoesOn, Precedes, Follows, AfterElastic, FormPcs, DeletePcs, UndeployPcs,
                      ElasticPcs, ProxyPcs, CreatePcs, FrameKibana
  <2>3. ASSUME f.pc \in CreatePcs, f.dep \in Recorded(f.proj) PROVE Kept
    <3>1. f.proj.Name \in Names /\ f.dep \in Deps
      BY <2>1, <2>2, <2>3, <1>0, DeployFrame DEF Ns, Dep
    <3>2. kube'[f.proj.Name].kb[f.dep] = kube[f.proj.Name].kb[f.dep]
      <4>1. ~DeployKibana(h) /\ ~DeleteKibana(h)
        BY <2>2, <2>3 DEF DeployKibana, DeleteKibana, At, CreatePcs
      <4> QED
        BY <1>0, <3>1, <4>1 DEF ClusterStep, KeepsKibana
    <3> QED
      BY <1>0, <2>1, <2>2, <2>3, <3>2 DEF FrameKibana, HasKibana
  <2> QED
    BY <1>0, <2>1, <2>2, <2>3 DEF FrameKibana, SameParts
<1>7. CASE Looks(frame[h], f)
  BY <1>7 DEF Looks, ElasticPcs, CreatePcs
<1>8. CASE Enters(frame[h], f)
  <2>1. /\ frame[h].pc = "cdKibana" /\ DeployKibana(h) /\ Req(h).es # Nil /\ f.pc = "cdProxy"
        /\ f.dep = Dep(h)
    BY <1>0, <1>8 DEF Enters, ClusterStep, FrameKibana, Req, Dep
  <2>2. frame[h].proj \in Project /\ Dep(h) \in Deps
    BY <1>0, <2>1, DeployFrame DEF CreatePcs
  <2>3. ~Reply(h, "bad")
    BY <1>0, <1>1, <2>1 DEF Reply, AtRest, TypeInv, TypeOK
  <2>4. PICK c \in Deployment : /\ f.proj = UpdateDeployment(frame[h].proj, Dep(h), c)
                                /\ kube'[Ns(h)].kb[Dep(h)] # Nil
                                /\ kube'[Ns(h)].kb[Dep(h)].Version = c.kb.Version
    BY <1>0, <1>1, <2>1, <2>3, DeployKibanaEffect
  <2>5. f.proj.Name = Ns(h) /\ f.proj.Deployment[Dep(h)].kb = c.kb
    BY <2>2, <2>4, UpdateDeploymentType, UpdateDeploymentKibana DEF Ns
  <2>6. Kept
    BY <2>1, <2>4, <2>5
  <2> QED
    BY <2>1, <2>6 DEF ElasticPcs
<1> QED
  BY <1>1, <1>3, <1>4, <1>5, <1>6, <1>7, <1>8

LEMMA WriteKibana ==
  ASSUME OneAtATime, KibanaInv, NEW h \in Handlers, HandlerStep(h), WriteStep(h)
  PROVE  UniqueNames' /\ StoredKibana'
<1> DEFINE S == {t \in Names \X Deps \X Deployment : HasKibana(t[1], t[2], t[3])}
<1>0. /\ SerialInv /\ TypeInv /\ UniqueNames /\ StoredKibana /\ kube' = kube
      /\ FrameName(frame[h]) /\ FrameKibana(frame[h]) /\ FrameOK(frame[h])
      /\ frame[h].pc # "dpDelete" /\ TypeInv'
  BY NextTypeInv DEF KibanaInv, SerialInv, TypeInv, FramesOK, ActiveInv, FrameActive, DeletePcs,
         WriteStep, SaveProject, UpdateProject, SaveRole, DeleteRecord, RecordDeployment,
         ForgetDeployment, HandlerStep, Next
<1>1. \A j \in Stored(db) : \A e \in Recorded(db[j]) :
        Part(db[j], e) \in S \/ Settles(frame[h], j, e)
  BY <1>0, FoundType, PartType DEF StoredKibana, OneAtATime, Found, Part
<1>2. ASSUME frame[h].pc = "cdUpdate", frame[h].dep \in Recorded(frame[h].proj)
      PROVE  Part(frame[h].proj, frame[h].dep) \in S
  <2>1. HasKibana(frame[h].proj.Name, frame[h].dep, frame[h].proj.Deployment[frame[h].dep])
    BY <1>0, <1>2 DEF FrameKibana, CreatePcs
  <2>2. frame[h].proj \in Project
    BY <1>0, <1>2 DEF FrameOK, Resting
  <2> QED
    BY <1>2, <2>1, <2>2, PartType DEF Part
<1>3. UniqueNames' /\ \A j \in Stored(db') : \A e \in Recorded(db'[j]) : Part(db'[j], e) \in S
  <2> HIDE DEF S
  <2> QED
    BY <1>0, <1>1, <1>2, WriteRecords
<1> QED
  BY <1>0, <1>3 DEF StoredKibana, HasKibana, Part

LEMMA NextKibanaInv ==
  ASSUME OneAtATime, NoDeletion, NoRename, EveryEs, ~Crashes
  PROVE  KibanaInv /\ [Next]_vars => KibanaInv'
<1> SUFFICES ASSUME KibanaInv, [Next]_vars PROVE KibanaInv'
  OBVIOUS
<1>0. SerialInv' /\ ActiveInv' /\ TypeInv
  BY NextSerialInv, NextActiveInv DEF KibanaInv, SerialInv
<1>1. ASSUME NEW h \in Handlers, HandlerStep(h) PROVE KibanaInv'
  <2>1. CASE WriteStep(h)
    <3>1. \A g \in Handlers : frame'[g].pc \in Resting
      BY <1>0, <2>1, WriteEnds DEF OneAtATime
    <3>2. \A g \in Handlers : FrameName(frame[g])' /\ FrameKibana(frame[g])'
      BY <3>1 DEF FrameName, FrameKibana, Resting, FormPcs, ElasticPcs, CreatePcs
    <3> QED
      BY <1>0, <1>1, <2>1, <3>2, WriteKibana DEF KibanaInv
  <2>2. CASE LocalStep(h) /\ ~WriteStep(h)
    <3>1. PICK f \in Frame : frame'[h] = f /\ FrameKibana(f)'
      BY <1>1, <2>2, LocalFrameKibana
    <3>2. FrameName(frame[h])'
      BY <1>0, <2>2, LocalFrameName DEF KibanaInv, FrameName
    <3>3. \A g \in Handlers : FrameName(frame[g])' /\ FrameKibana(frame[g])'
      BY <3>1, <3>2 DEF OneAtATime, FrameName, FrameKibana, HasKibana
    <3>4. UniqueNames'
      BY <2>2 DEF KibanaInv, UniqueNames, LocalStep
    <3> QED
      BY <1>0, <1>1, <2>2, <3>3, <3>4, LocalStoredKibana DEF KibanaInv
  <2> QED
    BY <1>0, <1>1, <2>1, <2>2, HandlerCluster
<1>2. CASE UNCHANGED <<db, kube, frame>>
  BY <1>0, <1>2 DEF KibanaInv, UniqueNames, StoredKibana, FrameName, FrameKibana, HasKibana
<1>3. ~\E n \in Names : FinalizeNamespace(n)
  BY DEF FinalizeNamespace, KibanaInv, ActiveInv, NeverEnding
<1>4. \/ \E h \in Handlers : HandlerStep(h)
      \/ \E n \in Names : FinalizeNamespace(n)
      \/ Restart \/ UNCHANGED vars
  BY DEF Next, HandlerStep, Crash
<1> QED
  BY <1>1, <1>2, <1>3, <1>4 DEF Restart, vars

\* One client at a time finds the Kibana of every recorded deployment in the
\* version that is recorded, whatever the cluster refuses: where a request
\* fails after it changed a Kibana, its record is written nevertheless.  It
\* takes that no crash comes between the two, that every form names a cluster
\* (else the record is not changed), and that no namespace goes or changes.
THEOREM SerialKibanaAsRecorded ==
  ASSUME OneAtATime, NoDeletion, NoRename, EveryEs, ~Crashes
  PROVE  Spec => []KibanaAsRecorded
<1>1. Init => KibanaInv
  <2> SUFFICES ASSUME Init PROVE KibanaInv
    OBVIOUS
  <2>1. UniqueNames /\ StoredKibana
    BY DEF Init, Stored, UniqueNames, StoredKibana
  <2>2. \A h \in Handlers : FrameName(frame[h]) /\ FrameKibana(frame[h])
    BY DEF Init, AtRest, FrameName, FrameKibana, FormPcs, ElasticPcs, CreatePcs
  <2> QED
    BY <2>1, <2>2, InitSerialInv, InitActiveInv DEF KibanaInv
<1>2. KibanaInv => KibanaAsRecorded
  BY DEF KibanaInv, StoredKibana, HasKibana, Settles, KibanaAsRecorded, Quiet, Running,
         Resting, ProxyPcs
<1> QED
  BY <1>1, <1>2, NextKibanaInv, PTL DEF Spec

------------------------------------------------------------------------------
(***************************************************************************)
(* Ingresses, where requests overlap but no project is deleted or renamed, *)
(* the API server answers for clusters and ingresses, no deployment is     *)
(* called like the ingress of another, and the server does not crash.      *)
(***************************************************************************)

Answering  == Faulty \cap {"elasticsearches", "ingresses"} = {}
ApartNames == \A d, e \in Deps : IngressName[e] # d

Named(c)    == c.es.Id \in Xids /\ c.kb.Id \in Xids
AllNamed(p) == \A d \in Recorded(p) : Named(p.Deployment[d])

\* Namespace n has an ingress for d, or a request is about to create it again.
Covered(n, d) ==
  \/ kube[n].ingress[IngressName[d]] # Nil
  \/ \E h \in Handlers : /\ frame[h].pc = "cdProxyCreate"
                         /\ frame[h].proj.Name = n /\ frame[h].dep = d

\* The name of a project never changes.
FrameNamed(f) ==
  f.pc \notin Resting /\ f.id # Nil => Found(db, f.id) /\ f.proj.Name = db[f.id].Name

\* Every deployment in a copy has ids and an ingress, but for the one that the
\* request brings, until it has dealt with its ingress.
FrameIngress(f) ==
  /\ FrameNamed(f)
  /\ f.pc \in FormPcs \cup {"cpSave"} => f.proj.Deployment = Nil
  /\ f.pc \in ElasticPcs => f.req.es # Nil
  /\ f.pc = "cdKibana" /\ f.req.es # Nil => f.req.es.Id \in Xids
  /\ f.pc \notin Resting =>
       /\ AllNamed(f.proj)
       /\ \A d \in Recorded(f.proj) : Covered(f.proj.Name, d) \/ (f.pc \in ProxyPcs /\ d = f.dep)

StoredIngress ==
  \A i \in Stored(db) : AllNamed(db[i]) /\ \A d \in Recorded(db[i]) : Covered(db[i].Name, d)

\* Both hosts of an ingress carry an id.
FullHosts == [es : Xids, kb : Xids]
Complete  ==
  \A n \in Names, d \in Deps : kube[n].ingress[IngressName[d]] \in FullHosts \cup {Nil}

IngressInv ==
  /\ ActiveInv /\ StoredIssued /\ Complete /\ StoredIngress
  /\ \A h \in Handlers : FrameIngress(frame[h])

\* One ingress of a namespace is set.
SetsIngress(n, g, v) == kube' = [kube EXCEPT ![n].ingress[g] = v]

LEMMA SetIngress ==
  ASSUME TypeInv, NEW n \in Names, NEW g \in Ingresses, NEW v, SetsIngress(n, g, v)
  PROVE  /\ kube'[n].ingress[g] = v
         /\ \A m \in Names, e \in Ingresses :
              m # n \/ e # g => kube'[m].ingress[e] = kube[m].ingress[e]
<1> DEFINE r == [kube[n] EXCEPT !.ingress = [kube[n].ingress EXCEPT ![g] = v]]
<1>1. kube \in [Names -> Namespace]
  BY DEF TypeInv, TypeOK
<1>2. r.ingress[g] = v /\ \A e \in Ingresses : e # g => r.ingress[e] = kube[n].ingress[e]
  BY <1>1 DEF Namespace
<1>3. kube' = [kube EXCEPT ![n] = r]
  BY DEF SetsIngress
<1> HIDE DEF r
<1>4. kube'[n] = r /\ \A m \in Names : m # n => kube'[m] = kube[m]
  BY <1>1, <1>3
<1> QED
  BY <1>2, <1>4

\* The hosts of the deployment that createDeployment brings carry its ids.
LEMMA HostsNamed ==
  ASSUME TypeInv, NEW h \in Handlers, FrameIngress(frame[h]), frame[h].pc \in ProxyPcs
  PROVE  ProxyHosts(h) \in FullHosts /\ ProxyHosts(h) # Nil
<1> DEFINE c == frame[h].proj.Deployment[Dep(h)]
<1>1. FrameOK(frame[h]) /\ frame[h].pc \in CreatePcs /\ frame[h].pc \notin Resting
  BY DEF TypeInv, FramesOK, ProxyPcs, CreatePcs, Resting
<1>2. /\ Dep(h) \in Deps /\ frame[h].proj.Deployment \in DeploymentList
      /\ c \in Deployment
  BY <1>1, DeployFrame DEF FrameOK, Dep
<1>3. Dep(h) \in Recorded(frame[h].proj)
  BY <1>2, NilAssumption DEF Recorded, DeploymentsOf
<1>4. c.es.Id \in Xids /\ c.kb.Id \in Xids
  BY <1>1, <1>3 DEF FrameIngress, AllNamed, Named
<1>6. ProxyHosts(h) \in FullHosts
  BY <1>4 DEF ProxyHosts, FullHosts
<1>7. FullHosts \subseteq Hosts
  BY DEF Hosts, FullHosts
<1> QED
  BY <1>6, <1>7, ObjectAssumption

\* Nothing but these calls touches the ingress of a deployment: the one of
\* detleteDeploymentHandler asks for another name.
LEMMA OtherIngress ==
  ASSUME ApartNames, TypeInv, NEW h \in Handlers, HandlerStep(h), frame[h].pc \notin ProxyPcs,
         NEW n \in Names, NEW d \in Deps
  PROVE  kube'[n].ingress[IngressName[d]] = kube[n].ingress[IngressName[d]]
<1>1. ClusterStep(h) /\ FrameOK(frame[h]) /\ IngressName[d] \in Ingresses
  BY HandlerCluster, ServerAssumption DEF TypeInv, FramesOK
<1>2. CASE ProxyDelete(h)
  <2>1. Ns(h) \in Names /\ Dep(h) \in Deps
    BY <1>1, <1>2 DEF ProxyDelete, At, FrameOK, Resting, DeploymentPcs, Ns, Dep, Project
  <2>2. \/ kube' = kube
        \/ Dep(h) \in Ingresses /\ SetsIngress(Ns(h), Dep(h), Nil)
    BY <1>2 DEF ProxyDelete, SetsIngress
  <2> QED
    BY <1>1, <2>1, <2>2, SetIngress DEF ApartNames
<1>3. CASE ~ProxyDelete(h)
  <2>1. ~IngressStep(h)
    BY <1>3 DEF IngressStep, CreateIngress, DeleteIngress, RecreateIngress, At, ProxyPcs
  <2> QED
    BY <1>1, <2>1 DEF ClusterStep, KeepsIngress
<1> QED
  BY <1>2, <1>3

\* The ingresses after a step, and the place of who deleted one.
LEMMA IngressEffect ==
  ASSUME Answering, ApartNames, ActiveInv, NEW h \in Handlers, FrameIngress(frame[h]),
         HandlerStep(h), NEW n \in Names, NEW d \in Deps
  PROVE  LET g == kube[n].ingress[IngressName[d]]
             v == kube'[n].ingress[IngressName[d]] IN
         /\ v \in FullHosts \cup {g, Nil}
         /\ v = Nil => g = Nil \/ Goto(h, "cdProxyCreate")
         /\ frame[h].pc \in ProxyPcs /\ n = Ns(h) /\ d = Dep(h) =>
              v # Nil \/ Goto(h, "cdProxyCreate") \/ Goto(h, "cdProxyDelete")
         /\ frame[h].pc = "cdProxyCreate" /\ n = Ns(h) /\ d = Dep(h) => v # Nil
<1> DEFINE g == kube[n].ingress[IngressName[d]]
           v == kube'[n].ingress[IngressName[d]]
           Mine == n = Ns(h) /\ d = Dep(h)
<1>0. /\ TypeInv /\ ClusterStep(h) /\ FrameOK(frame[h]) /\ FrameActive(frame[h])
      /\ IngressName[d] \in Ingresses /\ Answers("ingresses") = {TRUE}
  <2>1. /\ TypeInv /\ ClusterStep(h) /\ FrameOK(frame[h]) /\ FrameActive(frame[h])
    BY HandlerCluster DEF ActiveInv, TypeInv, FramesOK
  <2>2. IngressName[d] \in Ingresses
    BY ServerAssumption
  <2>3. "ingresses" \notin Faulty
    BY DEF Answering
  <2> QED
    BY <2>1, <2>2, <2>3 DEF Answers
<1>1. CASE CreateIngress(h)
  <2>1. /\ frame[h].pc = "cdProxy" /\ frame[h].pc \in ProxyPcs /\ frame[h].pc \in CreatePcs
        /\ ProxyHosts(h) \in FullHosts /\ ProxyHosts(h) # Nil
    BY <1>0, <1>1, HostsNamed DEF CreateIngress, At, ProxyPcs, CreatePcs
  <2>2. /\ Ns(h) \in Names /\ Dep(h) \in Deps /\ IngressName[Dep(h)] \in Ingresses
        /\ Active(Ns(h))
    BY <1>0, <2>1, DeployFrame, ServerAssumption DEF FrameActive, Resting, Ns
  <2>3. CASE SetsIngress(Ns(h), IngressName[Dep(h)], ProxyHosts(h))
    <3>0. kube'[Ns(h)].ingress[IngressName[Dep(h)]] = ProxyHosts(h)
      BY <1>0, <2>2, <2>3, SetIngress
    <3>1. CASE Mine
      BY <2>1, <3>0, <3>1
    <3>2. CASE ~Mine
      <4>1. n # Ns(h) \/ IngressName[d] # IngressName[Dep(h)]
        BY <2>2, <3>2, ServerAssumption
      <4>2. v = g
        BY <1>0, <2>2, <2>3, <4>1, SetIngress
      <4> QED
        BY <2>1, <3>2, <4>2
    <3> QED
      BY <3>1, <3>2
  <2>4. CASE kube' = kube /\ Goto(h, "cdProxyDelete")
    BY <2>1, <2>4
  <2> QED
    BY <1>1, <2>3, <2>4 DEF CreateIngress, SetsIngress
<1>2. CASE DeleteIngress(h)
  <2>1. /\ frame[h].pc = "cdProxyDelete" /\ frame[h].pc \in CreatePcs
        /\ Goto(h, "cdProxyCreate")
        /\ \/ kube' = kube
           \/ SetsIngress(Ns(h), IngressName[Dep(h)], Nil)
    BY <1>2 DEF DeleteIngress, At, CreatePcs, SetsIngress
  <2>2. /\ Ns(h) \in Names /\ Dep(h) \in Deps /\ IngressName[Dep(h)] \in Ingresses
    BY <1>0, <2>1, DeployFrame, ServerAssumption
  <2>3. v \in {g, Nil}
    <3>1. CASE SetsIngress(Ns(h), IngressName[Dep(h)], Nil)
      <4>1. kube'[Ns(h)].ingress[IngressName[Dep(h)]] = Nil
        BY <1>0, <2>2, <3>1, SetIngress
      <4>2. n # Ns(h) \/ IngressName[d] # IngressName[Dep(h)] => v = g
        BY <1>0, <2>2, <3>1, SetIngress
      <4> QED
        BY <4>1, <4>2
    <3> QED
      BY <2>1, <3>1
  <2> QED
    BY <2>1, <2>3
<1>3. CASE RecreateIngress(h)
  <2>1. /\ frame[h].pc = "cdProxyCreate" /\ frame[h].pc \in ProxyPcs
        /\ frame[h].pc \in CreatePcs
        /\ ProxyHosts(h) \in FullHosts /\ ProxyHosts(h) # Nil
    BY <1>0, <1>3, HostsNamed DEF RecreateIngress, At, ProxyPcs, CreatePcs
  <2>2. /\ Ns(h) \in Names /\ Dep(h) \in Deps /\ IngressName[Dep(h)] \in Ingresses
        /\ Active(Ns(h))
    BY <1>0, <2>1, DeployFrame, ServerAssumption DEF FrameActive, Resting, Ns
  <2>3. \/ /\ kube[Ns(h)].ingress[IngressName[Dep(h)]] = Nil
           /\ SetsIngress(Ns(h), IngressName[Dep(h)], ProxyHosts(h))
        \/ kube[Ns(h)].ingress[IngressName[Dep(h)]] # Nil /\ kube' = kube
    <3>1. kube' = IF TRUE /\ Active(Ns(h)) /\ kube[Ns(h)].ingress[IngressName[Dep(h)]] = Nil
                  THEN [kube EXCEPT ![Ns(h)].ingress[IngressName[Dep(h)]] = ProxyHosts(h)]
                  ELSE kube
      BY <1>0, <1>3 DEF RecreateIngress
    <3> QED
      BY <2>2, <3>1 DEF SetsIngress
  <2>4. kube'[Ns(h)].ingress[IngressName[Dep(h)]]
          \in {kube[Ns(h)].ingress[IngressName[Dep(h)]], ProxyHosts(h)} \ {Nil}
    BY <1>0, <2>1, <2>2, <2>3, SetIngress
  <2>5. CASE ~Mine
    <3>1. n # Ns(h) \/ IngressName[d] # IngressName[Dep(h)]
      BY <2>2, <2>5, ServerAssumption
    <3>2. v = g
      BY <1>0, <2>2, <2>3, <3>1, SetIngress
    <3> QED
      BY <2>1, <2>5, <3>2
  <2>6. CASE Mine
    BY <2>1, <2>4, <2>6
  <2> QED
    BY <2>5, <2>6
<1>4. CASE ~(CreateIngress(h) \/ DeleteIngress(h) \/ RecreateIngress(h))
  <2>1. frame[h].pc \notin ProxyPcs
    BY <1>0, <1>4, StepsByPlace
  <2>2. frame[h].pc # "cdProxyCreate"
    BY <2>1 DEF ProxyPcs
  <2> QED
    BY <1>0, <2>1, <2>2, OtherIngress
<1> QED
  BY <1>1, <1>2, <1>3, <1>4

\* Who deletes an ingress is about to create it again.
LEMMA DeletedIngress ==
  ASSUME ApartNames, ActiveInv, NEW h \in Handlers, HandlerStep(h),
         Goto(h, "cdProxyCreate"), NEW n \in Names, NEW d \in Deps,
         kube[n].ingress[IngressName[d]] # Nil, kube'[n].ingress[IngressName[d]] = Nil
  PROVE  /\ frame'[h].pc = "cdProxyCreate"
         /\ frame'[h].proj.Name = n /\ frame'[h].dep = d
<1>0. /\ TypeInv /\ ClusterStep(h) /\ frame[h] \in Frame /\ frame \in [Handlers -> Frame]
  BY HandlerCluster DEF ActiveInv, TypeInv, TypeOK
<1>1. frame'[h] = [frame[h] EXCEPT !.pc = "cdProxyCreate"]
  BY <1>0 DEF Goto
<1>2. ~KeepsIngress
  BY DEF KeepsIngress
<1>3. ~CreateIngress(h) /\ ~RecreateIngress(h) /\ ~ProxyDelete(h)
  <2>1. frame'[h].pc = "cdProxyCreate"
    BY <1>0, <1>1 DEF Frame
  <2>2. ~Goto(h, "cdUpdate") /\ ~Goto(h, "cdProxyDelete") /\ ~Goto(h, "ddElastic")
    BY <1>0, <2>1 DEF Goto, Frame
  <2>3. ~RecreateIngress(h) /\ ~ProxyDelete(h) /\ (CreateIngress(h) => kube' = kube)
    BY <2>2 DEF CreateIngress, RecreateIngress, ProxyDelete
  <2> QED
    BY <2>2, <2>3 DEF CreateIngress
<1>4. DeleteIngress(h)
  BY <1>0, <1>2, <1>3 DEF ClusterStep, IngressStep
<1>5. /\ frame[h].pc \in CreatePcs
      /\ kube' = kube \/ SetsIngress(Ns(h), IngressName[Dep(h)], Nil)
  BY <1>4 DEF DeleteIngress, At, CreatePcs, SetsIngress
<1>6. Ns(h) \in Names /\ Dep(h) \in Deps /\ IngressName \in [Deps -> Ingresses]
  BY <1>0, <1>5, DeployFrame, ServerAssumption
<1>7. SetsIngress(Ns(h), IngressName[Dep(h)], Nil)
  BY <1>5
<1>8. n = Ns(h) /\ IngressName[d] = IngressName[Dep(h)]
  BY <1>0, <1>6, <1>7, SetIngress
<1>9. d = Dep(h)
  BY <1>6, <1>8, ServerAssumption
<1> QED
  BY <1>0, <1>1, <1>8, <1>9 DEF Frame, Ns, Dep

\* No step leaves a deployment without an ingress.
LEMMA CoveredKept ==
  ASSUME Answering, ApartNames, IngressInv, NEW h \in Handlers, HandlerStep(h),
         NEW f, frame' = [frame EXCEPT ![h] = f],
         NEW n \in Names, NEW d \in Deps, Covered(n, d)
  PROVE  \/ kube'[n].ingress[IngressName[d]] # Nil
         \/ \E g \in Handlers : /\ frame'[g].pc = "cdProxyCreate"
                                /\ frame'[g].proj.Name = n /\ frame'[g].dep = d
<1>0. /\ ActiveInv /\ TypeInv /\ FrameIngress(frame[h]) /\ FrameOK(frame[h])
      /\ frame \in [Handlers -> Frame] /\ frame[h] \in Frame
  BY DEF IngressInv, ActiveInv, TypeInv, TypeOK, FramesOK
<1>1. CASE kube[n].ingress[IngressName[d]] # Nil
  <2>1. CASE kube'[n].ingress[IngressName[d]] = Nil
    <3>1. Goto(h, "cdProxyCreate")
      BY <1>0, <1>1, <2>1, IngressEffect
    <3> QED
      BY <1>0, <1>1, <2>1, <3>1, DeletedIngress
  <2> QED
    BY <2>1
<1>2. ASSUME NEW g \in Handlers, frame[g].pc = "cdProxyCreate",
             frame[g].proj.Name = n, frame[g].dep = d
      PROVE  \/ kube'[n].ingress[IngressName[d]] # Nil
             \/ /\ frame'[g].pc = "cdProxyCreate"
                /\ frame'[g].proj.Name = n /\ frame'[g].dep = d
  <2>1. CASE g = h
    BY <1>0, <1>2, <2>1, IngressEffect DEF Ns, Dep
  <2>2. CASE g # h
    BY <1>0, <1>2, <2>2
  <2> QED
    BY <2>1, <2>2
<1> QED
  BY <1>1, <1>2 DEF Covered

\* Where no project is deleted, a write leaves every project with its name,
\* and with deployments of the copy or of the record it replaces.
LEMMA WriteDeployments ==
  ASSUME TypeInv, StoredIssued, NEW h \in Handlers, WriteStep(h),
         frame[h].pc # "dpDelete", FrameNamed(frame[h])
  PROVE  /\ StoredIssued'
         /\ \A i \in Stored(db) : i \in Stored(db') /\ db'[i].Name = db[i].Name
         /\ \A i \in Stored(db') :
              \/ i \in Stored(db) /\ db'[i] = db[i]
              \/ /\ db'[i].Name = frame[h].proj.Name
                 /\ \A d \in Recorded(db'[i]) :
                      \/ /\ d \in Recorded(frame[h].proj)
                         /\ db'[i].Deployment[d] = frame[h].proj.Deployment[d]
                      \/ /\ i \in Stored(db) /\ d \in Recorded(db[i])
                         /\ db'[i].Deployment[d] = db[i].Deployment[d]
<1> DEFINE i == frame[h].id
           p == frame[h].proj
           From(j, q) ==
             \A d \in Recorded(q) :
               \/ d \in Recorded(p) /\ q.Deployment[d] = p.Deployment[d]
               \/ j \in Stored(db) /\ d \in Recorded(db[j]) /\ q.Deployment[d] = db[j].Deployment[d]
<1>0. /\ db \in [Ids -> Project \cup {Nil}] /\ FrameOK(frame[h])
      /\ frame[h].pc \in {"cpSave", "cpUpdate", "arSave", "cdUpdate", "ddSave"}
      /\ ~DeleteRecord(h) /\ frame[h] \in Frame /\ issued \subseteq Ids
  BY DEF TypeInv, TypeOK, FramesOK, WriteStep, SaveProject, UpdateProject, SaveRole,
         DeleteRecord, RecordDeployment, ForgetDeployment, At
<1>1. /\ p \in Project /\ frame[h].pc \notin Resting
      /\ i # Nil => Found(db, i) /\ p.Name = db[i].Name
      /\ frame[h].pc # "cpSave" => i \in Ids /\ i # Nil
      /\ frame[h].pc = "ddSave" => frame[h].dep \in Deps
  BY <1>0, ServerAssumption DEF FrameOK, Resting, DeploymentPcs, FrameNamed
<1> DEFINE Good == /\ StoredIssued'
                   /\ \A j \in Stored(db) : j \in Stored(db') /\ db'[j].Name = db[j].Name
                   /\ \A j \in Stored(db') :
                        \/ j \in Stored(db) /\ db'[j] = db[j]
                        \/ db'[j].Name = p.Name /\ From(j, db'[j])
<1> SUFFICES Good
  OBVIOUS
<1>2. CASE UNCHANGED <<db, issued>>
  BY <1>2 DEF StoredIssued, Found
<1>3. ASSUME NEW j \in Ids, NEW q \in Project, db' = Save(db, j, q), q.Name = p.Name,
             From(j, q), j \in Stored(db) => p.Name = db[j].Name,
             j \in issued', issued \subseteq issued'
      PROVE  Good
  <2> HIDE DEF From
  <2>1. /\ db'[j] = q /\ \A k \in Ids \ {j} : db'[k] = db[k]
        /\ Stored(db') = Stored(db) \cup {j} /\ Stored(db) \subseteq Ids
    BY <1>0, <1>3, NilAssumption DEF Save, Stored
  <2>2. StoredIssued'
    BY <1>3, <2>1 DEF StoredIssued, Found
  <2>3. \A k \in Stored(db) : k \in Stored(db') /\ db'[k].Name = db[k].Name
    BY <1>3, <2>1
  <2>4. \A k \in Stored(db') : \/ k \in Stored(db) /\ db'[k] = db[k]
                               \/ db'[k].Name = p.Name /\ From(k, db'[k])
    BY <1>3, <2>1
  <2> QED
    BY <2>2, <2>3, <2>4
<1> HIDE DEF Good
<1>4. CASE SaveProject(h)
  <2>1. CASE UNCHANGED <<db, issued>>
    BY <1>2, <2>1
  <2>2. CASE ~UNCHANGED <<db, issued>>
    <3>1. PICK j \in (IF i = Nil THEN Ids \ issued ELSE {i}) :
            db' = Save(db, j, p) /\ issued' = issued \cup {j}
      BY <1>4, <2>2 DEF SaveProject
    <3>2. j \in Ids /\ j \in Stored(db) => p.Name = db[j].Name
      BY <1>0, <1>1, <3>1 DEF Frame, StoredIssued, Found, Stored
    <3>3. j \in Ids
      BY <1>0, <3>1 DEF Frame
    <3> QED
      BY <1>1, <1>3, <3>1, <3>2, <3>3
  <2> QED
    BY <2>1, <2>2
<1>5. ASSUME NEW q \in Project, q.Name = p.Name, From(i, q), frame[h].pc # "cpSave",
             db' = Save(db, i, q) \/ db' = db, issued' = issued
      PROVE  Good
  <2>1. i \in Ids /\ i \in issued
    BY <1>0, <1>1, <1>5 DEF StoredIssued
  <2> HIDE DEF From
  <2>2. CASE db' = db
    BY <1>2, <1>5, <2>2
  <2>3. CASE db' = Save(db, i, q)
    <3>1. i \in Stored(db) => p.Name = db[i].Name
      BY <1>1, <1>5
    <3> QED
      BY <1>3, <1>5, <2>1, <2>3, <3>1
  <2> QED
    BY <1>5, <2>2, <2>3
<1>6. CASE UpdateProject(h) \/ RecordDeployment(h)
  <2> DEFINE q == NonZeroFields(db[i], p)
  <2>1. /\ frame[h].pc \in {"cpUpdate", "cdUpdate"} /\ issued' = issued
        /\ db' = Save(db, i, q) \/ db' = db
    BY <1>6 DEF UpdateProject, RecordDeployment, UpdateRecord, At
  <2>2. Found(db, i) /\ db[i] \in Project
    BY <1>1, <2>1, FoundType
  <2>3. q \in Project /\ q.Name = p.Name
    BY <1>1, <2>2, NonZeroFieldsType
  <2>4. q.Deployment = p.Deployment \/ q.Deployment = db[i].Deployment
    BY <1>1 DEF NonZeroFields, Project
  <2> HIDE DEF q
  <2>5. From(i, q)
    BY <2>2, <2>4 DEF Recorded, DeploymentsOf, Found
  <2> HIDE DEF From
  <2> QED
    BY <1>5, <2>1, <2>3, <2>5
<1>7. CASE SaveRole(h)
  <2>1. /\ frame[h].pc = "arSave" /\ issued' = issued
        /\ db' = Save(db, i, p) \/ db' = db
    BY <1>7 DEF SaveRole, At
  <2> QED
    BY <1>1, <1>5, <2>1
<1>8. CASE ForgetDeployment(h)
  <2> DEFINE q == DeletDeployment(p, frame[h].dep)
  <2>1. /\ frame[h].pc = "ddSave" /\ issued' = issued
        /\ db' = Save(db, i, q) \/ db' = db
    BY <1>8 DEF ForgetDeployment, At, Dep
  <2>2. q \in Project /\ q.Name = p.Name
    BY <1>1, <2>1, DeletDeploymentType
  <2>3. From(i, q)
    BY <1>1, <2>1, RemainingDeployments
  <2> HIDE DEF q, From
  <2> QED
    BY <1>5, <2>1, <2>2, <2>3
<1> QED
  BY <1>0, <1>4, <1>6, <1>7, <1>8 DEF WriteStep

\* createDeployment sets the id of the cluster before it comes to Kibana.
LEMMA ElasticNamed ==
  ASSUME Answering, ActiveInv, NEW h \in Handlers, HandlerStep(h),
         frame[h].pc \in ElasticPcs, frame'[h].pc = "cdKibana"
  PROVE  frame'[h].req.es.Id \in Xids
<1>0. /\ TypeInv /\ ClusterStep(h) /\ FrameActive(frame[h]) /\ frame[h] \in Frame
      /\ frame \in [Handlers -> Frame] /\ frame[h].pc \in CreatePcs
  BY HandlerCluster DEF ActiveInv, TypeInv, TypeOK, ElasticPcs, CreatePcs
<1>1. frame[h].pc = "cdElastic" /\ DeployElastic(h)
  <2>1. \A pc \in ElasticPcs : ~Goto(h, pc)
    BY <1>0 DEF Goto, Frame, ElasticPcs
  <2> QED
    BY <1>0, <2>1, StepsByPlace DEF ClusterStep, ElasticPcs
<1>2. Active(Ns(h))
  BY <1>0 DEF FrameActive, CreatePcs, ElasticPcs, Resting, Ns
<1>3. FALSE \notin Answers("elasticsearches")
  BY DEF Answers, Answering
<1>4. \E x \in Xids : frame' = [frame EXCEPT ![h].req.es.Id = GetID(@, x),
                                           ![h].pc = AfterElastic(Req(h))]
  BY <1>1, <1>2, <1>3 DEF DeployElastic
<1>5. PICK x \in Xids : frame' = [frame EXCEPT ![h].req.es.Id = GetID(@, x),
                                            ![h].pc = AfterElastic(Req(h))]
  BY <1>4
<1> DEFINE id  == GetID(frame[h].req.es.Id, x)
           pc  == AfterElastic(Req(h))
           req == [frame[h].req EXCEPT !.es.Id = id]
<1>6. frame[h].req \in DepRequest /\ frame[h].req.es \in ElasticseachConfig
  BY <1>0, DeployFrame DEF Req
<1>7. id \in Xids
  BY <1>6 DEF GetID, ElasticseachConfig
<1>8. frame' = [frame EXCEPT ![h] = [frame[h] EXCEPT !.req = req, !.pc = pc]]
  BY <1>0, <1>5 DEF Frame
<1> HIDE DEF id
<1>9. req.es.Id = id
  BY <1>6 DEF DepRequest, ElasticseachConfig
<1> HIDE DEF pc, req
<1> QED
  BY <1>0, <1>7, <1>8, <1>9 DEF Frame

\* The deployment that Kibana's call brings into the copy has both ids.
LEMMA EntersNamed ==
  ASSUME ActiveInv, NEW h \in Handlers, HandlerStep(h), FrameIngress(frame[h]),
         frame[h].pc = "cdKibana", frame'[h].pc = "cdProxy"
  PROVE  \E c \in Deployment : /\ frame'[h].proj = UpdateDeployment(frame[h].proj, Dep(h), c)
                               /\ Named(c)
<1>0. /\ TypeInv /\ DeployKibana(h) /\ frame \in [Handlers -> Frame] /\ frame[h] \in Frame
  BY HandlerCluster DEF ActiveInv, TypeInv, TypeOK, ClusterStep, CreatePcs
<1>1. ~Reply(h, "bad")
  BY <1>0 DEF Reply, AtRest
<1>2. Req(h).es # Nil
  <2>1. PICK c \in DepRequest :
          c.es = Req(h).es /\ frame' = [frame EXCEPT ![h] = KibanaFrame(h, c)]
    BY <1>0, <1>1, DeployKibanaFrame
  <2>2. c.es = Nil => KibanaFrame(h, c).pc = "cdUpdate"
    BY <1>0 DEF KibanaFrame, Frame
  <2>3. frame'[h] = KibanaFrame(h, c)
    BY <1>0, <2>1
  <2> QED
    BY <2>1, <2>2, <2>3
<1>3. Req(h).es.Id \in Xids
  BY <1>2 DEF FrameIngress, Req
<1> QED
  BY <1>0, <1>1, <1>2, <1>3, DeployKibanaEffect DEF Named

\* A deployment that is added or replaced has ids if the new one has.
LEMMA UpdatedNamed ==
  ASSUME NEW p \in Project, NEW d \in Deps, NEW c \in Deployment, AllNamed(p), Named(c)
  PROVE  /\ AllNamed(UpdateDeployment(p, d, c))
         /\ Recorded(UpdateDeployment(p, d, c)) \subseteq Recorded(p) \cup {d}
<1> DEFINE old  == DeploymentsOf(p)
           part == IF old[d] = Nil THEN c ELSE UpdateDeploymentParts(old[d], c)
           list == [old EXCEPT ![d] = part]
           q    == UpdateDeployment(p, d, c)
<1>1. old \in DeploymentList
  BY DeploymentsOfType
<1>2. c.es # Nil /\ c.kb # Nil
  BY NilAssumption DEF Deployment
<1>3. part \in Deployment /\ part.es = c.es /\ part.kb = c.kb
  BY <1>1, <1>2 DEF UpdateDeploymentParts, Deployment, DeploymentList
<1>4. /\ list \in DeploymentList /\ list[d] = part
      /\ \A e \in Deps : e # d => list[e] = old[e]
  BY <1>1, <1>3 DEF DeploymentList
<1>5. q = [p EXCEPT !.Deployment = list]
  BY DEF UpdateDeployment
<1> HIDE DEF list, q, part
<1>6. q.Deployment = list /\ DeploymentsOf(q) = list
  BY <1>4, <1>5, NilAssumption DEF Project, DeploymentsOf
<1>7. ASSUME NEW e \in Recorded(q), e # d
      PROVE  e \in Recorded(p) /\ q.Deployment[e] = p.Deployment[e]
  <2>1. e \in Deps /\ old[e] # Nil
    BY <1>4, <1>6, <1>7 DEF Recorded
  <2>2. p.Deployment # Nil
    BY <2>1 DEF DeploymentsOf, NoDeployments
  <2> QED
    BY <1>4, <1>6, <1>7, <2>1, <2>2 DEF Recorded, DeploymentsOf
<1>8. Named(q.Deployment[d])
  BY <1>3, <1>4, <1>6 DEF Named
<1> QED
  BY <1>7, <1>8 DEF AllNamed, q

LEMMA LocalFrameIngress ==
  ASSUME Answering, ApartNames, NoRename, IngressInv,
         NEW h \in Handlers, HandlerStep(h), LocalStep(h), ~WriteStep(h)
  PROVE  \E f \in Frame :
           /\ frame' = [frame EXCEPT ![h] = f] /\ frame'[h] = f /\ FrameNamed(f)
           /\ f.pc \in FormPcs \cup {"cpSave"} => f.proj.Deployment = Nil
           /\ f.pc \in ElasticPcs => f.req.es # Nil
           /\ f.pc = "cdKibana" /\ f.req.es # Nil => f.req.es.Id \in Xids
           /\ f.pc \notin Resting =>
                /\ AllNamed(f.proj)
                /\ \A d \in Recorded(f.proj) :
                     Covered(f.proj.Name, d)' \/ (f.pc \in ProxyPcs /\ d = f.dep)
<1>0. /\ ActiveInv /\ TypeInv /\ FrameIngress(frame[h]) /\ FrameOK(frame[h])
      /\ db' = db /\ StoredIngress
      /\ frame[h] \in Frame /\ frame \in [Handlers -> Frame]
  BY DEF IngressInv, ActiveInv, TypeInv, TypeOK, FramesOK, LocalStep
<1>1. PICK f \in Frame :
        /\ frame' = [frame EXCEPT ![h] = f] /\ frame'[h] = f
        /\ \/ f.pc \in Refused \/ Submits(f) \/ Reads(f)
           \/ GoesOn(frame[h], f) \/ Looks(frame[h], f) \/ Enters(frame[h], f)
  BY <1>0, LocalFrame
<1> DEFINE Still(n, d) == Covered(n, d)'
           Good == /\ FrameNamed(f)
                   /\ f.pc \in FormPcs \cup {"cpSave"} => f.proj.Deployment = Nil
                   /\ f.pc \in ElasticPcs => f.req.es # Nil
                   /\ f.pc = "cdKibana" /\ f.req.es # Nil => f.req.es.Id \in Xids
                   /\ f.pc \notin Resting =>
                        /\ AllNamed(f.proj)
                        /\ \A d \in Recorded(f.proj) :
                             Still(f.proj.Name, d) \/ (f.pc \in ProxyPcs /\ d = f.dep)
<1>2. SUFFICES Good
  BY <1>1
<1>3. ASSUME NEW n \in Names, NEW d \in Deps, Covered(n, d) PROVE Still(n, d)
  BY <1>1, <1>3, CoveredKept DEF Covered
<1> HIDE DEF Still
<1>4. CASE f.pc \in Refused
  BY <1>4 DEF Refused, Resting, FormPcs, ElasticPcs, FrameNamed
<1>5. CASE Submits(f)
  <2>1. Recorded(f.proj) = {}
    BY <1>5 DEF Submits, Recorded, DeploymentsOf, NoDeployments
  <2> QED
    BY <1>5, <2>1 DEF Submits, FormOf, NoRename, FrameNamed, AllNamed, ElasticPcs
<1>6. CASE Reads(f)
  <2>1. Found(db, f.id) /\ db[f.id] \in Project /\ db[f.id].Name \in Names
    BY <1>0, <1>6, FoundType DEF Reads, Project
  <2>2. f.proj.Name = db[f.id].Name /\ f.proj.Deployment = db[f.id].Deployment
    BY <1>6, <2>1 DEF Reads, AddRole, Project
  <2>3. Recorded(f.proj) = Recorded(db[f.id]) /\ Recorded(f.proj) \subseteq Deps
    BY <2>2 DEF Recorded, DeploymentsOf
  <2>4. AllNamed(f.proj) /\ \A d \in Recorded(f.proj) : Still(f.proj.Name, d)
    BY <1>0, <1>3, <2>1, <2>2, <2>3 DEF StoredIngress, Found, AllNamed
  <2>5. /\ f.pc \notin FormPcs \cup {"cpSave"}
        /\ f.pc \in ElasticPcs => f.req.es # Nil
        /\ f.pc = "cdKibana" => f.req.es = Nil
    BY <1>6 DEF Reads, AfterElastic, FormPcs, ElasticPcs
  <2> QED
    BY <2>1, <2>2, <2>4, <2>5 DEF FrameNamed
<1>7. CASE GoesOn(frame[h], f)
  <2>1. /\ f.id = frame[h].id /\ f.proj = frame[h].proj /\ f.dep = frame[h].dep
        /\ frame[h].pc \notin Resting
    BY <1>7 DEF GoesOn, Precedes, Follows, Resting, DeletePcs, UndeployPcs, ElasticPcs, ProxyPcs
  <2>2. /\ f.pc \in FormPcs \cup {"cpSave"} => frame[h].pc \in FormPcs
        /\ f.pc \in ElasticPcs => frame[h].pc \in ElasticPcs /\ SameParts(frame[h].req, f.req)
        /\ f.pc = "cdKibana" => frame[h].pc \in ElasticPcs
        /\ frame[h].pc \in ProxyPcs => f.pc \in ProxyPcs \cup {"cdUpdate"}
    BY <1>7 DEF GoesOn, Precedes, Follows, AfterElastic, FormPcs, DeletePcs, UndeployPcs,
                ElasticPcs, ProxyPcs
  <2>3. f.proj.Name \in Names /\ Recorded(f.proj) \subseteq Deps
    BY <1>0, <2>1 DEF FrameOK, Project, Recorded
  <2>4. ASSUME NEW d \in Recorded(f.proj)
        PROVE  Still(f.proj.Name, d) \/ (f.pc \in ProxyPcs /\ d = f.dep)
    <3>1. CASE Covered(f.proj.Name, d)
      BY <1>3, <2>3, <3>1
    <3>2. CASE frame[h].pc \in ProxyPcs /\ d = f.dep /\ f.pc = "cdUpdate"
      <4>1. ~Goto(h, "cdProxyCreate") /\ ~Goto(h, "cdProxyDelete")
        BY <1>0, <1>1, <3>2 DEF Goto, Frame
      <4>2. kube'[f.proj.Name].ingress[IngressName[d]] # Nil
        BY <1>0, <2>1, <2>3, <3>2, <4>1, IngressEffect DEF Ns, Dep
      <4> QED
        BY <4>2 DEF Still, Covered
    <3> QED
      BY <1>0, <2>1, <2>2, <3>1, <3>2 DEF FrameIngress
  <2>5. f.pc = "cdKibana" /\ f.req.es # Nil => f.req.es.Id \in Xids
    BY <1>0, <1>1, <2>2, ElasticNamed
  <2> QED
    BY <1>0, <2>1, <2>2, <2>4, <2>5 DEF FrameIngress, FrameNamed, SameParts
<1>8. CASE Looks(frame[h], f)
  <2>1. /\ frame[h].proj \in Project /\ frame[h].pc \notin Resting /\ f.id = frame[h].id
        /\ f.pc \in {"cpSave", "cpUpdate"}
    BY <1>0, <1>8 DEF Looks, FrameOK, Resting
  <2>2. CASE f.pc = "cpSave"
    <3>1. f.proj = frame[h].proj /\ f.proj.Deployment = Nil
      BY <1>0, <1>8, <2>2 DEF Looks, FrameIngress, FormPcs
    <3>2. Recorded(f.proj) = {}
      BY <3>1 DEF Recorded, DeploymentsOf, NoDeployments
    <3> QED
      BY <1>0, <2>1, <2>2, <3>1, <3>2 DEF FrameIngress, FrameNamed, AllNamed, ElasticPcs
  <2>3. CASE f.pc = "cpUpdate"
    <3>1. /\ Found(db, f.id) /\ f.id \in Ids /\ db[f.id] \in Project
          /\ f.proj = UpdateWithProject(db[f.id], frame[h].proj)
      BY <1>0, <1>8, <2>1, <2>3, FoundType DEF Looks
    <3>2. f.proj.Name = frame[h].proj.Name /\ f.proj.Deployment = db[f.id].Deployment
      BY <2>1, <3>1 DEF UpdateWithProject, Project
    <3>3. f.proj.Name = db[f.id].Name /\ db[f.id].Name \in Names
      BY <1>0, <2>1, <3>1, <3>2, ServerAssumption DEF FrameIngress, FrameNamed, Project
    <3>4. Recorded(f.proj) = Recorded(db[f.id]) /\ Recorded(f.proj) \subseteq Deps
      BY <3>2 DEF Recorded, DeploymentsOf
    <3>5. AllNamed(f.proj) /\ \A d \in Recorded(f.proj) : Still(f.proj.Name, d)
      BY <1>0, <1>3, <3>1, <3>2, <3>3, <3>4 DEF StoredIngress, Found, AllNamed
    <3> QED
      BY <2>3, <3>1, <3>3, <3>5 DEF FrameNamed, FormPcs, ElasticPcs
  <2> QED
    BY <2>1, <2>2, <2>3
<1>9. CASE Enters(frame[h], f)
  <2>1. /\ frame[h].pc = "cdKibana" /\ f.pc = "cdProxy" /\ f.id = frame[h].id
        /\ f.dep = frame[h].dep /\ SameParts(frame[h].req, f.req)
        /\ frame[h].pc \in CreatePcs /\ frame[h].pc \notin Resting
        /\ frame[h].pc \notin ProxyPcs
    BY <1>9 DEF Enters, CreatePcs, Resting, ProxyPcs
  <2>2. frame[h].proj \in Project /\ Dep(h) \in Deps /\ frame[h].proj.Name \in Names
    BY <1>0, <2>1, DeployFrame DEF Ns
  <2>3. PICK c \in Deployment : f.proj = UpdateDeployment(frame[h].proj, Dep(h), c) /\ Named(c)
    BY <1>0, <1>1, <2>1, EntersNamed
  <2>4. AllNamed(frame[h].proj) /\ f.proj.Name = frame[h].proj.Name
    BY <1>0, <2>1, <2>2, <2>3, UpdateDeploymentType DEF FrameIngress
  <2>5. AllNamed(f.proj) /\ Recorded(f.proj) \subseteq Recorded(frame[h].proj) \cup {Dep(h)}
    BY <2>2, <2>3, <2>4, UpdatedNamed
  <2>6. \A d \in Recorded(f.proj) : d = f.dep \/ Still(f.proj.Name, d)
    BY <1>0, <1>3, <2>1, <2>2, <2>4, <2>5 DEF FrameIngress, Recorded, Dep
  <2> QED
    BY <1>0, <2>1, <2>4, <2>5, <2>6
       DEF FrameIngress, FrameNamed, FormPcs, ElasticPcs, ProxyPcs
<1> QED
  BY <1>1, <1>4, <1>5, <1>6, <1>7, <1>8, <1>9

LEMMA HandlerIngress ==
  ASSUME Answering, ApartNames, NoDeletion, NoRename, IngressInv, ActiveInv',
         NEW h \in Handlers, HandlerStep(h)
  PROVE  IngressInv'
<1>0. /\ ActiveInv /\ TypeInv /\ StoredIssued /\ Complete /\ StoredIngress
      /\ \A g \in Handlers : FrameIngress(frame[g]) /\ FrameOK(frame[g])
      /\ frame \in [Handlers -> Frame] /\ frame[h].pc # "dpDelete"
  BY DEF IngressInv, ActiveInv, TypeInv, TypeOK, FramesOK, FrameActive, DeletePcs
<1> DEFINE Still(n, d) ==
             \/ kube'[n].ingress[IngressName[d]] # Nil
             \/ \E g \in Handlers : /\ frame'[g].pc = "cdProxyCreate"
                                    /\ frame'[g].proj.Name = n /\ frame'[g].dep = d
           NamedNext(f) ==
             f.pc \notin Resting /\ f.id # Nil => Found(db', f.id) /\ f.proj.Name = db'[f.id].Name
           FrameNext(f) ==
             /\ NamedNext(f)
             /\ f.pc \in FormPcs \cup {"cpSave"} => f.proj.Deployment = Nil
             /\ f.pc \in ElasticPcs => f.req.es # Nil
             /\ f.pc = "cdKibana" /\ f.req.es # Nil => f.req.es.Id \in Xids
             /\ f.pc \notin Resting =>
                  /\ AllNamed(f.proj)
                  /\ \A d \in Recorded(f.proj) :
                       Still(f.proj.Name, d) \/ (f.pc \in ProxyPcs /\ d = f.dep)
           StoredNext ==
             \A i \in Stored(db') : /\ AllNamed(db'[i])
                                    /\ \A d \in Recorded(db'[i]) : Still(db'[i].Name, d)
<1>1. SUFFICES StoredIssued' /\ StoredNext /\ \A g \in Handlers : FrameNext(frame'[g])
  <2>1. Complete'
    <3>1. ASSUME NEW n \in Names, NEW d \in Deps
          PROVE  kube'[n].ingress[IngressName[d]] \in FullHosts \cup {Nil}
      <4>1. kube[n].ingress[IngressName[d]] \in FullHosts \cup {Nil}
        BY <1>0 DEF Complete
      <4>2. kube'[n].ingress[IngressName[d]]
              \in FullHosts \cup {kube[n].ingress[IngressName[d]], Nil}
        BY <1>0, IngressEffect
      <4> QED
        BY <4>1, <4>2
    <3> QED
      BY <3>1 DEF Complete
  <2>2. StoredNext => StoredIngress'
    BY DEF StoredIngress, Covered, AllNamed
  <2>3. ASSUME NEW g \in Handlers, FrameNext(frame'[g]) PROVE FrameIngress(frame[g])'
    BY <2>3 DEF FrameIngress, FrameNamed, Covered, AllNamed
  <2> QED
    BY <2>1, <2>2, <2>3 DEF IngressInv
<1>2. PICK f \in Frame : frame' = [frame EXCEPT ![h] = f]
  <2>1. CASE LocalStep(h)
    BY <2>1 DEF LocalStep, SetsFrame
  <2>2. CASE WriteStep(h)
    <3>1. PICK r \in Resting : Reply(h, r)
      BY <1>0, <2>2, WriteEnds
    <3> QED
      BY <3>1, AtRestOK DEF Reply
  <2> QED
    BY <1>0, <2>1, <2>2, HandlerCluster
<1>3. ASSUME NEW n \in Names, NEW d \in Deps, Covered(n, d) PROVE Still(n, d)
  BY <1>2, <1>3, CoveredKept
<1> HIDE DEF Still
<1>4. ASSUME NEW g \in Handlers \ {h},
             \A i \in Stored(db) : i \in Stored(db') /\ db'[i].Name = db[i].Name
      PROVE  FrameNext(frame'[g])
  <2>1. frame'[g] = frame[g]
    BY <1>0, <1>2
  <2>2. frame[g].pc \notin Resting => frame[g].proj.Name \in Names
    BY <1>0 DEF FrameOK, Project
  <2>3. NamedNext(frame[g])
    BY <1>0, <1>4 DEF FrameIngress, FrameNamed, Found
  <2>4. \A d \in Recorded(frame[g].proj) : d \in Deps
    BY DEF Recorded
  <2> QED
    BY <1>0, <1>3, <2>1, <2>2, <2>3, <2>4 DEF FrameIngress
<1>5. CASE LocalStep(h) /\ ~WriteStep(h)
  <2>0. db' = db /\ issued' = issued
    BY <1>5 DEF LocalStep
  <2>1. StoredIssued'
    BY <1>0, <2>0 DEF StoredIssued
  <2>2. StoredNext
    <3>1. ASSUME NEW i \in Stored(db), NEW d \in Recorded(db[i]) PROVE Still(db[i].Name, d)
      <4>1. db[i].Name \in Names /\ d \in Deps
        BY <1>0, <3>1, FoundType DEF Found, Project, Recorded
      <4> QED
        BY <1>0, <1>3, <3>1, <4>1 DEF StoredIngress
    <3> QED
      BY <1>0, <2>0, <3>1 DEF StoredIngress
  <2>3. FrameNext(frame'[h])
    BY <1>5, <2>0, LocalFrameIngress DEF Still, Covered, FrameNamed
  <2> QED
    BY <1>4, <2>0, <2>1, <2>2, <2>3
<1>6. CASE WriteStep(h)
  <2>1. /\ frame[h].pc \notin Resting /\ frame[h].pc \notin ProxyPcs
        /\ FrameNamed(frame[h])
    BY <1>0, <1>6 DEF WriteStep, SaveProject, UpdateProject, SaveRole, DeleteRecord,
       RecordDeployment, ForgetDeployment, At, Resting, ProxyPcs, FrameIngress
  <2>2. /\ StoredIssued'
        /\ \A i \in Stored(db) : i \in Stored(db') /\ db'[i].Name = db[i].Name
    BY <1>0, <1>6, <2>1, WriteDeployments
  <2>3. ASSUME NEW i \in Stored(db') PROVE AllNamed(db'[i])
                                           /\ \A d \in Recorded(db'[i]) : Still(db'[i].Name, d)
    <3>1. i \in Stored(db) => /\ AllNamed(db[i]) /\ db[i].Name \in Names
                              /\ db'[i].Name = db[i].Name
                              /\ \A d \in Recorded(db[i]) : Covered(db[i].Name, d)
      BY <1>0, <2>2, FoundType DEF StoredIngress, Found, Project
    <3>2. /\ AllNamed(frame[h].proj) /\ frame[h].proj.Name \in Names
          /\ \A d \in Recorded(frame[h].proj) : Covered(frame[h].proj.Name, d)
      BY <1>0, <2>1 DEF FrameIngress, FrameOK, Project
    <3>3. \A p : Recorded(p) \subseteq Deps
      BY DEF Recorded
    <3>4. CASE i \in Stored(db) /\ db'[i] = db[i]
      BY <1>3, <3>1, <3>3, <3>4
    <3>5. CASE /\ db'[i].Name = frame[h].proj.Name
               /\ \A d \in Recorded(db'[i]) :
                    \/ /\ d \in Recorded(frame[h].proj)
                       /\ db'[i].Deployment[d] = frame[h].proj.Deployment[d]
                    \/ /\ i \in Stored(db) /\ d \in Recorded(db[i])
                       /\ db'[i].Deployment[d] = db[i].Deployment[d]
      <4>1. ASSUME NEW d \in Recorded(db'[i])
            PROVE  Named(db'[i].Deployment[d]) /\ Still(db'[i].Name, d)
        BY <1>3, <3>1, <3>2, <3>3, <3>5, <4>1 DEF AllNamed
      <4> QED
        BY <4>1 DEF AllNamed
    <3> QED
      BY <1>0, <1>6, <2>1, <2>3, <3>4, <3>5, WriteDeployments
  <2>4. frame'[h].pc \in Resting
    BY <1>0, <1>6, WriteEnds
  <2>5. FrameNext(frame'[h])
    BY <2>4 DEF Resting, FormPcs, ElasticPcs
  <2> QED
    BY <1>4, <2>2, <2>3, <2>5
<1> QED
  BY <1>0, <1>5, <1>6, HandlerCluster

LEMMA NextIngressInv ==
  ASSUME Answering, ApartNames, NoDeletion, NoRename, ~Crashes
  PROVE  IngressInv /\ [Next]_vars => IngressInv'
<1> SUFFICES ASSUME IngressInv, [Next]_vars PROVE IngressInv'
  OBVIOUS
<1>0. ActiveInv'
  BY NextActiveInv DEF IngressInv
<1>1. CASE \E h \in Handlers : HandlerStep(h)
  BY <1>0, <1>1, HandlerIngress
<1>2. CASE UNCHANGED <<db, issued, kube, frame>>
  <2>1. \A n, d : Covered(n, d)' <=> Covered(n, d)
    BY <1>2 DEF Covered
  <2> QED
    BY <1>0, <1>2, <2>1 DEF IngressInv, StoredIssued, Complete, StoredIngress, FrameIngress,
                            FrameNamed
<1>3. ~\E n \in Names : FinalizeNamespace(n)
  BY DEF FinalizeNamespace, IngressInv, ActiveInv, NeverEnding
<1>4. \/ \E h \in Handlers : HandlerStep(h)
      \/ \E n \in Names : FinalizeNamespace(n)
      \/ Restart \/ UNCHANGED vars
  BY DEF Next, HandlerStep, Crash
<1> QED
  BY <1>1, <1>2, <1>3, <1>4 DEF Restart, vars

\* When no request is being served, every recorded deployment has an ingress
\* with an id in either host, however the requests overlapped, although each of
\* them may delete the ingress that another one made: who deletes it creates it
\* again, or finds that somebody did.
THEOREM IngressForEach ==
  ASSUME Answering, ApartNames, NoDeletion, NoRename, ~Crashes
  PROVE  Spec => []IngressPerDeployment
<1>1. Init => IngressInv
  <2> SUFFICES ASSUME Init PROVE IngressInv
    OBVIOUS
  <2>1. StoredIssued /\ StoredIngress
    BY DEF Init, Stored, Found, StoredIssued, StoredIngress
  <2>2. Complete
    BY ServerAssumption DEF Init, NoNamespace, Complete
  <2>3. \A h \in Handlers : FrameIngress(frame[h])
    BY DEF Init, AtRest, FrameIngress, FrameNamed, Resting, FormPcs, ElasticPcs
  <2> QED
    BY <2>1, <2>2, <2>3, InitActiveInv DEF IngressInv
<1>2. IngressInv => IngressPerDeployment
  <2> SUFFICES ASSUME IngressInv, Quiet, NEW i \in Stored(db), NEW d \in Recorded(db[i])
               PROVE  kube[db[i].Name].ingress[IngressName[d]] \in FullHosts
    BY DEF IngressPerDeployment, FullHosts
  <2>1. Covered(db[i].Name, d) /\ Complete /\ TypeInv
    BY DEF IngressInv, StoredIngress, ActiveInv
  <2>2. kube[db[i].Name].ingress[IngressName[d]] # Nil
    BY <2>1 DEF Covered, Quiet, Running, Resting
  <2>3. db[i].Name \in Names /\ d \in Deps
    BY <2>1, FoundType DEF Found, Project, Recorded
  <2> QED
    BY <2>1, <2>2, <2>3 DEF Complete
<1> QED
  BY <1>1, <1>2, NextIngressInv, PTL DEF Spec

------------------------------------------------------------------------------
(***************************************************************************)
(* The hosts of the ingresses, where requests are served one at a time, no *)
(* project is deleted or renamed, the API server answers for ingresses, no *)
(* deployment is called like the ingress of another, and the server does   *)
(* not crash.                                                              *)
(***************************************************************************)

IngressesAnswered == "ingresses" \notin Faulty

\* The ingress of d in namespace n is made of the ids of deployment c.
HasIngress(n, d, c) == kube[n].ingress[IngressName[d]] = [es |-> c.es.Id, kb |-> c.kb.Id]

StoredLinked ==
  \A i \in Stored(db) : \A d \in Recorded(db[i]) :
    \/ HasIngress(db[i].Name, d, db[i].Deployment[d])
    \/ \E h \in Handlers : Settles(frame[h], i, d)

\* The deployment in the copy has its ingress, but while that is being made.  To
\* make it a second time there must be none.
FrameLinked(f) ==
  /\ f.pc \in CreatePcs \ ProxyPcs /\ f.dep \in Recorded(f.proj) =>
       HasIngress(f.proj.Name, f.dep, f.proj.Deployment[f.dep])
  /\ f.pc = "cdProxyCreate" => kube[f.proj.Name].ingress[IngressName[f.dep]] = Nil

LinkedInv ==
  /\ SerialInv /\ ActiveInv
  /\ UniqueNames /\ StoredLinked
  /\ \A h \in Handlers : FrameName(frame[h]) /\ FrameLinked(frame[h])

\* What the calls for the ingress do.
LEMMA LinkEffect ==
  ASSUME IngressesAnswered, ActiveInv, NEW h \in Handlers, FrameLinked(frame[h]),
         CreateIngress(h) \/ DeleteIngress(h) \/ RecreateIngress(h)
  PROVE  /\ \A n \in Names, d \in Deps :
              n # Ns(h) \/ d # Dep(h) =>
                kube'[n].ingress[IngressName[d]] = kube[n].ingress[IngressName[d]]
         /\ LET v == kube'[Ns(h)].ingress[IngressName[Dep(h)]] IN
            \/ Goto(h, "cdUpdate") /\ v = ProxyHosts(h)
            \/ Goto(h, "cdProxyDelete")
            \/ Goto(h, "cdProxyCreate") /\ v = Nil
<1> DEFINE g == IngressName[Dep(h)]
           v == kube'[Ns(h)].ingress[g]
<1>0. /\ TypeInv /\ FrameActive(frame[h]) /\ frame[h].pc \in CreatePcs
      /\ frame[h].pc \in ProxyPcs /\ Answers("ingresses") = {TRUE}
  BY DEF ActiveInv, CreateIngress, DeleteIngress, RecreateIngress, At, CreatePcs, ProxyPcs,
         IngressesAnswered, Answers
<1>1. Ns(h) \in Names /\ Dep(h) \in Deps /\ g \in Ingresses /\ Active(Ns(h))
  BY <1>0, DeployFrame, ServerAssumption DEF FrameActive, Resting, ProxyPcs, Ns
<1>2. \/ SetsIngress(Ns(h), g, ProxyHosts(h)) /\ Goto(h, "cdUpdate")
      \/ kube' = kube /\ Goto(h, "cdProxyDelete")
      \/ SetsIngress(Ns(h), g, Nil) /\ Goto(h, "cdProxyCreate")
  <2>1. CASE CreateIngress(h)
    BY <2>1 DEF CreateIngress, SetsIngress
  <2>2. CASE DeleteIngress(h)
    BY <1>0, <2>2 DEF DeleteIngress, SetsIngress
  <2>3. CASE RecreateIngress(h)
    <3>1. kube[Ns(h)].ingress[g] = Nil
      BY <2>3 DEF RecreateIngress, At, FrameLinked, Ns, Dep
    <3> QED
      BY <1>0, <1>1, <2>3, <3>1 DEF RecreateIngress, SetsIngress
  <2> QED
    BY <2>1, <2>2, <2>3
<1>3. ASSUME NEW w, SetsIngress(Ns(h), g, w)
      PROVE  /\ v = w
             /\ \A n \in Names, d \in Deps :
                  n # Ns(h) \/ d # Dep(h) =>
                    kube'[n].ingress[IngressName[d]] = kube[n].ingress[IngressName[d]]
  <2>1. \A d \in Deps : d # Dep(h) => IngressName[d] \in Ingresses /\ IngressName[d] # g
    BY <1>1, ServerAssumption
  <2>2. \A d \in Deps : IngressName[d] \in Ingresses
    BY ServerAssumption
  <2> QED
    BY <1>0, <1>1, <1>3, <2>1, <2>2, SetIngress
<1> QED
  BY <1>2, <1>3

\* Unless it writes the database, a handler that is past the calls for the
\* ingress, or before them, settles nothing.
LEMMA SettlesInProxy ==
  ASSUME TypeInv, NEW h \in Handlers, HandlerStep(h), ~WriteStep(h), frame[h].pc \notin ProxyPcs
  PROVE  \A i, d : ~Settles(frame[h], i, d)
BY StepsByPlace DEF Settles, WriteStep

LEMMA LocalLinked ==
  ASSUME OneAtATime, ApartNames, IngressesAnswered, LinkedInv, NEW h \in Handlers,
         HandlerStep(h), LocalStep(h), ~WriteStep(h)
  PROVE  StoredLinked' /\ \E f \in Frame : frame'[h] = f /\ FrameLinked(f)'
<1> DEFINE Kept(n, d) == kube'[n].ingress[IngressName[d]] = kube[n].ingress[IngressName[d]]
           Linked(p, d) == kube'[p.Name].ingress[IngressName[d]]
                             = [es |-> p.Deployment[d].es.Id, kb |-> p.Deployment[d].kb.Id]
<1>0. /\ TypeInv /\ ActiveInv /\ StoredLinked /\ FrameLinked(frame[h]) /\ FrameOK(frame[h])
      /\ frame[h] \in Frame /\ frame \in [Handlers -> Frame] /\ db' = db
      /\ \A g \in Handlers : g = h
  BY DEF LinkedInv, SerialInv, TypeInv, TypeOK, FramesOK, LocalStep, OneAtATime
<1>1. PICK f \in Frame :
        /\ frame' = [frame EXCEPT ![h] = f] /\ frame'[h] = f
        /\ \/ f.pc \in Refused \/ Submits(f) \/ Reads(f)
           \/ GoesOn(frame[h], f) \/ Looks(frame[h], f) \/ Enters(frame[h], f)
  BY <1>0, LocalFrame
<1>2. SUFFICES /\ \A i \in Stored(db) : \A d \in Recorded(db[i]) :
                    Linked(db[i], d) \/ Settles(f, i, d)
               /\ f.pc \in CreatePcs \ ProxyPcs /\ f.dep \in Recorded(f.proj) =>
                    Linked(f.proj, f.dep)
               /\ f.pc = "cdProxyCreate" =>
                    kube'[f.proj.Name].ingress[IngressName[f.dep]] = Nil
  BY <1>0, <1>1 DEF StoredLinked, FrameLinked, HasIngress
<1>3. ASSUME NEW i \in Stored(db), NEW d \in Recorded(db[i])
      PROVE  /\ db[i].Name \in Names /\ d \in Deps
             /\ Linked(db[i], d) \/ Settles(frame[h], i, d) \/ ~Kept(db[i].Name, d)
  <2>1. db[i].Name \in Names /\ d \in Deps
    BY <1>0, FoundType DEF Found, Project, Recorded
  <2> QED
    BY <1>0, <2>1 DEF StoredLinked, HasIngress
<1>4. CASE frame[h].pc \in ProxyPcs
  <2>1. /\ CreateIngress(h) \/ DeleteIngress(h) \/ RecreateIngress(h)
        /\ frame[h].pc \in CreatePcs
    BY <1>0, <1>4, StepsByPlace DEF ProxyPcs, CreatePcs
  <2>2. PICK pc \in ProxyPcs \cup {"cdUpdate"} : Goto(h, pc)
    BY <1>0, <1>4, StepsByPlace
  <2>3. /\ f.proj = frame[h].proj /\ f.dep = frame[h].dep /\ f.id = frame[h].id /\ f.pc = pc
        /\ \A q \in Pcs : Goto(h, q) => f.pc = q
    BY <1>0, <1>1, <2>2 DEF Goto, Frame
  <2>4. ASSUME NEW i \in Stored(db), NEW d \in Recorded(db[i])
        PROVE  Linked(db[i], d) \/ Settles(f, i, d)
    <3>1. CASE Settles(frame[h], i, d)
      BY <2>3, <3>1 DEF Settles
    <3>2. CASE ~Settles(frame[h], i, d)
      <4>1. db[i].Name # Ns(h) \/ d # Dep(h)
        BY <1>4, <2>1, <2>4, <3>2, SameProjectByName DEF Settles, LinkedInv, Ns, Dep
      <4>2. Kept(db[i].Name, d)
        BY <1>0, <1>3, <2>1, <2>4, <4>1, LinkEffect
      <4> QED
        BY <1>3, <2>4, <3>2, <4>2
    <3> QED
      BY <3>1, <3>2
  <2>5. f.pc = "cdUpdate" => Linked(f.proj, f.dep)
    <3>1. f.pc = "cdUpdate" => ~Goto(h, "cdProxyDelete") /\ ~Goto(h, "cdProxyCreate")
      BY <2>3 DEF Pcs, DeploymentPcs
    <3> QED
      BY <1>0, <2>1, <2>3, <3>1, LinkEffect DEF ProxyHosts, Ns, Dep
  <2>6. f.pc = "cdProxyCreate" => kube'[f.proj.Name].ingress[IngressName[f.dep]] = Nil
    <3>1. f.pc = "cdProxyCreate" => ~Goto(h, "cdProxyDelete") /\ ~Goto(h, "cdUpdate")
      BY <2>3 DEF Pcs, DeploymentPcs
    <3> QED
      BY <1>0, <2>1, <2>3, <3>1, LinkEffect DEF Ns, Dep
  <2> QED
    BY <2>2, <2>3, <2>4, <2>5, <2>6
<1>5. CASE frame[h].pc \notin ProxyPcs
  <2>1. \A n \in Names, d \in Deps : Kept(n, d)
    BY <1>0, <1>5, OtherIngress
  <2>2. \A i \in Stored(db) : \A d \in Recorded(db[i]) : Linked(db[i], d)
    BY <1>0, <1>3, <1>5, <2>1, SettlesInProxy
  <2>3. ASSUME f.pc \in CreatePcs \ ProxyPcs, f.dep \in Recorded(f.proj)
        PROVE  Linked(f.proj, f.dep)
    <3>1. CASE Reads(f)
      BY <2>2, <2>3, <3>1 DEF Reads, CreatePcs, Found
    <3>2. CASE GoesOn(frame[h], f)
      <4>1. /\ frame[h].pc \in CreatePcs \ ProxyPcs
            /\ f.proj = frame[h].proj /\ f.dep = frame[h].dep
        BY <1>5, <2>3, <3>2 DEF GoesOn, Precedes, Follows, CreatePcs, ElasticPcs, ProxyPcs,
                                DeletePcs, UndeployPcs
      <4>2. frame[h].proj.Name \in Names /\ frame[h].dep \in Deps
        BY <1>0, <4>1, DeployFrame DEF Ns, Dep
      <4> QED
        BY <1>0, <2>1, <2>3, <4>1, <4>2 DEF FrameLinked, HasIngress
    <3> QED
      BY <1>1, <2>3, <3>1, <3>2 DEF Refused, Submits, Looks, Enters, CreatePcs, ProxyPcs
  <2>4. f.pc # "cdProxyCreate"
    BY <1>1, <1>5 DEF Refused, Submits, Reads, AfterElastic, GoesOn, Precedes, Follows, Looks,
                      Enters, ElasticPcs, ProxyPcs, DeletePcs, UndeployPcs
  <2> QED
    BY <2>2, <2>3, <2>4
<1> QED
  BY <1>4, <1>5

LEMMA WriteLinked ==
  ASSUME OneAtATime, LinkedInv, NEW h \in Handlers, HandlerStep(h), WriteStep(h)
  PROVE  UniqueNames' /\ StoredLinked'
<1> DEFINE S == {t \in Names \X Deps \X Deployment : HasIngress(t[1], t[2], t[3])}
<1>0. /\ SerialInv /\ TypeInv /\ UniqueNames /\ StoredLinked /\ kube' = kube
      /\ FrameName(frame[h]) /\ FrameLinked(frame[h]) /\ FrameOK(frame[h])
      /\ frame[h].pc # "dpDelete"
  BY DEF LinkedInv, SerialInv, TypeInv, FramesOK, ActiveInv, FrameActive, DeletePcs,
         WriteStep, SaveProject, UpdateProject, SaveRole, DeleteRecord, RecordDeployment,
         ForgetDeployment
<1>1. \A j \in Stored(db) : \A e \in Recorded(db[j]) :
        Part(db[j], e) \in S \/ Settles(frame[h], j, e)
  BY <1>0, FoundType, PartType DEF StoredLinked, OneAtATime, Found, Part
<1>2. ASSUME frame[h].pc = "cdUpdate", frame[h].dep \in Recorded(frame[h].proj)
      PROVE  Part(frame[h].proj, frame[h].dep) \in S
  <2>1. HasIngress(frame[h].proj.Name, frame[h].dep, frame[h].proj.Deployment[frame[h].dep])
    BY <1>0, <1>2 DEF FrameLinked, CreatePcs, ProxyPcs
  <2>2. frame[h].proj \in Project
    BY <1>0, <1>2 DEF FrameOK, Resting
  <2> QED
    BY <1>2, <2>1, <2>2, PartType DEF Part
<1>3. UniqueNames' /\ \A j \in Stored(db') : \A e \in Recorded(db'[j]) : Part(db'[j], e) \in S
  <2> HIDE DEF S
  <2> QED
    BY <1>0, <1>1, <1>2, WriteRecords
<1> QED
  BY <1>0, <1>3 DEF StoredLinked, HasIngress, Part

LEMMA NextLinkedInv ==
  ASSUME OneAtATime, ApartNames, IngressesAnswered, NoDeletion, NoRename, ~Crashes
  PROVE  LinkedInv /\ [Next]_vars => LinkedInv'
<1> SUFFICES ASSUME LinkedInv, [Next]_vars PROVE LinkedInv'
  OBVIOUS
<1>0. SerialInv' /\ ActiveInv' /\ TypeInv
  BY NextSerialInv, NextActiveInv DEF LinkedInv, SerialInv
<1>1. ASSUME NEW h \in Handlers, HandlerStep(h) PROVE LinkedInv'
  <2>1. CASE WriteStep(h)
    <3>1. \A g \in Handlers : frame'[g].pc \in Resting
      BY <1>0, <2>1, WriteEnds DEF OneAtATime
    <3>2. \A g \in Handlers : FrameName(frame[g])' /\ FrameLinked(frame[g])'
      BY <3>1 DEF FrameName, FrameLinked, Resting, FormPcs, CreatePcs
    <3> QED
      BY <1>0, <1>1, <2>1, <3>2, WriteLinked DEF LinkedInv
  <2>2. CASE LocalStep(h) /\ ~WriteStep(h)
    <3>1. PICK f \in Frame : frame'[h] = f /\ FrameLinked(f)'
      BY <1>1, <2>2, LocalLinked
    <3>2. FrameName(frame[h])'
      BY <1>0, <2>2, LocalFrameName DEF LinkedInv, FrameName
    <3>3. \A g \in Handlers : FrameName(frame[g])' /\ FrameLinked(frame[g])'
      BY <3>1, <3>2 DEF OneAtATime, FrameName, FrameLinked, HasIngress
    <3>4. UniqueNames'
      BY <2>2 DEF LinkedInv, UniqueNames, LocalStep
    <3> QED
      BY <1>0, <1>1, <2>2, <3>3, <3>4, LocalLinked DEF LinkedInv
  <2> QED
    BY <1>0, <1>1, <2>1, <2>2, HandlerCluster
<1>2. CASE UNCHANGED <<db, kube, frame>>
  BY <1>0, <1>2 DEF LinkedInv, UniqueNames, StoredLinked, FrameName, FrameLinked, HasIngress
<1>3. ~\E n \in Names : FinalizeNamespace(n)
  BY DEF FinalizeNamespace, LinkedInv, ActiveInv, NeverEnding
<1>4. \/ \E h \in Handlers : HandlerStep(h)
      \/ \E n \in Names : FinalizeNamespace(n)
      \/ Restart \/ UNCHANGED vars
  BY DEF Next, HandlerStep, Crash
<1> QED
  BY <1>1, <1>2, <1>3, <1>4 DEF Restart, vars

\* One client at a time finds every recorded deployment behind an ingress whose
\* hosts have the ids of the record, though every save of a form may make new
\* ones: the ingress that is there refuses the new hosts, and is deleted and made
\* again before the record is written.  Overlapping requests break it.
THEOREM SerialIngressAsRecorded ==
  ASSUME OneAtATime, ApartNames, IngressesAnswered, NoDeletion, NoRename, ~Crashes
  PROVE  Spec => []IngressAsRecorded
<1>1. Init => LinkedInv
  <2> SUFFICES ASSUME Init PROVE LinkedInv
    OBVIOUS
  <2>1. UniqueNames /\ StoredLinked
    BY DEF Init, Stored, UniqueNames, StoredLinked
  <2>2. \A h \in Handlers : FrameName(frame[h]) /\ FrameLinked(frame[h])
    BY DEF Init, AtRest, FrameName, FrameLinked, FormPcs, CreatePcs
  <2> QED
    BY <2>1, <2>2, InitSerialInv, InitActiveInv DEF LinkedInv
<1>2. LinkedInv => IngressAsRecorded
  BY DEF LinkedInv, StoredLinked, HasIngress, Settles, IngressAsRecorded, Quiet, Running,
         Resting, ProxyPcs
<1> QED
  BY <1>1, <1>2, NextLinkedInv, PTL DEF Spec
=============================================================================
