-------------------------- MODULE EckServerProofs --------------------------
(***************************************************************************)
(* Proofs about EckServer, for every value of its constants.               *)
(*                                                                         *)
(* TypeOK, Monitored and Governed speak of the database.  None of them is  *)
(* inductive: a handler writes its own copy of a project, read many steps  *)
(* before, so what is to hold of every record has to hold of every copy in *)
(* flight.  FramesOK, CopiesMonitored and CopiesGoverned say so.           *)
(***************************************************************************)
EXTENDS EckServer, TLAPS

CreatePcs == {"cdSecret", "cdSecretDelete", "cdSecretCreate", "cdElastic",
              "cdKibana", "cdProxy", "cdProxyDelete", "cdProxyCreate", "cdUpdate"}
ElasticPcs == {"cdSecret", "cdSecretDelete", "cdSecretCreate", "cdElastic"}
ProxyPcs   == {"cdProxy", "cdProxyDelete", "cdProxyCreate"}

\* What a handler's variables hold at each of its steps.
FrameOK(f) ==
  /\ f.pc \notin Resting => f.proj \in Project
  /\ f.pc \in {"cpUpdate", "arSave", "dpNamespace", "dpDelete"} \cup DeploymentPcs
       => f.id \in Ids
  /\ f.pc \in DeploymentPcs => f.dep \in Deps
  /\ f.pc \in CreatePcs => f.req \in DepRequest
  /\ f.pc \in ElasticPcs => f.req.es # Nil
  /\ f.pc = "cdKibana" => f.req.kb # Nil
  /\ f.pc \in ProxyPcs => /\ f.proj.Deployment \in DeploymentList
                          /\ f.proj.Deployment[f.dep] \in Deployment

FramesOK == \A h \in Handlers : FrameOK(frame[h])

\* Every copy in flight is of a project whose name has a window, once the
\* handler that brings a new name has opened it.
CopyMonitored(f) == f.pc \in Resting \cup {"cpNamespace"} \/ f.proj.Name \in windows
CopiesMonitored  == up => \A h \in Handlers : CopyMonitored(frame[h])

\* Every copy in flight has a role.
CopiesGoverned ==
  \A h \in Handlers : frame[h].pc \notin Resting => frame[h].proj.RoleMappings # {}

TypeInv == TypeOK /\ FramesOK

------------------------------------------------------------------------------
(***************************************************************************)
(* The functions on records.                                               *)
(***************************************************************************)

\* The deployments of a project are a list, also when the slice is nil.
LEMMA DeploymentsOfType ==
  ASSUME NEW p \in Project PROVE DeploymentsOf(p) \in DeploymentList
BY DEF DeploymentsOf, NoDeployments, DeploymentList, Project

\* Adding a role, recording and removing a deployment give a project again,
\* with the same name and no fewer roles.
LEMMA AddRoleType ==
  ASSUME NEW p \in Project, NEW u \in Users, NEW r \in Roles
  PROVE  /\ AddRole(p, u, r) \in Project
         /\ AddRole(p, u, r).Name = p.Name
         /\ AddRole(p, u, r).RoleMappings # {}
<1> DEFINE roles == p.RoleMappings \cup {[User |-> u, Role |-> r]}
<1>1. roles \in SUBSET RoleUserMapping /\ roles # {}
  <2>1. p.RoleMappings \subseteq RoleUserMapping
    BY DEF Project
  <2>2. [User |-> u, Role |-> r] \in RoleUserMapping
    BY DEF RoleUserMapping
  <2> QED
    BY <2>1, <2>2
<1>2. AddRole(p, u, r) = [p EXCEPT !.RoleMappings = roles]
  BY DEF AddRole
<1> QED
  BY <1>1, <1>2 DEF Project

LEMMA DeletDeploymentType ==
  ASSUME NEW p \in Project, NEW d \in Deps
  PROVE  /\ DeletDeployment(p, d) \in Project
         /\ DeletDeployment(p, d).Name = p.Name
         /\ DeletDeployment(p, d).RoleMappings = p.RoleMappings
<1>1. [DeploymentsOf(p) EXCEPT ![d] = Nil] \in DeploymentList
  BY DeploymentsOfType DEF DeploymentList
<1> QED
  BY <1>1 DEF DeletDeployment, Project

LEMMA UpdateDeploymentType ==
  ASSUME NEW p \in Project, NEW d \in Deps, NEW c \in Deployment
  PROVE  /\ UpdateDeployment(p, d, c) \in Project
         /\ UpdateDeployment(p, d, c).Name = p.Name
         /\ UpdateDeployment(p, d, c).RoleMappings = p.RoleMappings
         /\ UpdateDeployment(p, d, c).Deployment \in DeploymentList
         /\ UpdateDeployment(p, d, c).Deployment[d] \in Deployment
<1> DEFINE old  == DeploymentsOf(p)
           part == IF old[d] = Nil THEN c ELSE UpdateDeploymentParts(old[d], c)
           list == [old EXCEPT ![d] = part]
<1>1. old \in DeploymentList
  BY DeploymentsOfType
<1>2. old[d] \in Deployment \cup {Nil}
  BY <1>1 DEF DeploymentList
<1>3. part \in Deployment
  BY <1>2 DEF UpdateDeploymentParts, Deployment
<1>4. list \in DeploymentList /\ list[d] = part
  BY <1>1, <1>3 DEF DeploymentList
<1>5. UpdateDeployment(p, d, c) = [p EXCEPT !.Deployment = list]
  BY DEF UpdateDeployment
<1> QED
  BY <1>3, <1>4, <1>5 DEF Project

\* What an update leaves in the table is a project with the new name and roles.
LEMMA NonZeroFieldsType ==
  ASSUME NEW old \in Project, NEW new \in Project
  PROVE  /\ NonZeroFields(old, new) \in Project
         /\ NonZeroFields(old, new).Name = new.Name
         /\ NonZeroFields(old, new).RoleMappings = new.RoleMappings
BY DEF NonZeroFields, Project

LEMMA UpdateWithProjectType ==
  ASSUME NEW old \in Project, NEW new \in Project
  PROVE  /\ UpdateWithProject(old, new) \in Project
         /\ UpdateWithProject(old, new).Name = new.Name
         /\ UpdateWithProject(old, new).RoleMappings = new.RoleMappings
BY DEF UpdateWithProject, Project

\* A form asks for a project, and always for one with a role.
LEMMA RequestedProjectType ==
  ASSUME NEW n \in Names, NEW es \in RoleEntries, NEW u \in Users,
         NEW l \in LimitValues
  PROVE  /\ RequestedProject(n, es, u, l) \in Project
         /\ RequestedProject(n, es, u, l).RoleMappings # {}
<1>1. es \subseteq RoleEntry
  BY ServerAssumption
<1>2. CovertRolesToMappings(es) \subseteq RoleUserMapping
  BY <1>1 DEF CovertRolesToMappings, KnownRole, RoleFromString, RoleEntry, RoleUserMapping
<1>3. [User |-> u, Role |-> "Platform_ADMIN"] \in RoleUserMapping
  BY DEF RoleUserMapping, Roles
<1>4. RequestMappings(es, u) \subseteq RoleUserMapping /\ RequestMappings(es, u) # {}
  BY <1>2, <1>3 DEF RequestMappings
<1> QED
  BY <1>4 DEF RequestedProject, Project

------------------------------------------------------------------------------
(***************************************************************************)
(* The frames.                                                             *)
(***************************************************************************)

\* A handler that is done holds nothing.
LEMMA AtRestOK ==
  ASSUME NEW r \in Resting PROVE AtRest(r) \in Frame /\ FrameOK(AtRest(r))
BY DEF AtRest, Frame, FrameOK, Pcs, Resting, ProjectPcs, DeploymentPcs, CreatePcs,
       ElasticPcs, ProxyPcs

\* Changing one frame for a good one keeps all of them good.
LEMMA SetFrame ==
  ASSUME TypeInv, NEW h \in Handlers, NEW f \in Frame, FrameOK(f),
         frame' = [frame EXCEPT ![h] = f]
  PROVE  frame' \in [Handlers -> Frame] /\ FramesOK'
BY DEF TypeInv, TypeOK, FramesOK

LEMMA ReplyType ==
  ASSUME TypeInv, NEW h \in Handlers, NEW r \in Resting, Reply(h, r)
  PROVE  frame' \in [Handlers -> Frame] /\ FramesOK'
BY SetFrame, AtRestOK DEF Reply

LEMMA GotoType ==
  ASSUME TypeInv, NEW h \in Handlers, NEW pc \in Pcs,
         FrameOK([frame[h] EXCEPT !.pc = pc]), Goto(h, pc)
  PROVE  frame' \in [Handlers -> Frame] /\ FramesOK'
<1>1. frame[h] \in Frame
  BY DEF TypeInv, TypeOK
<1>2. [frame[h] EXCEPT !.pc = pc] \in Frame
  BY <1>1 DEF Frame
<1> QED
  BY <1>2, SetFrame DEF Goto

\* A handler that starts by reading the project ends, or goes on in a frame
\* that is good because the project was there.
LEMMA GetProjectType ==
  ASSUME TypeInv, NEW h \in Handlers, NEW id, NEW f,
         Found(db, id) => f \in Frame /\ FrameOK(f),
         GetProject(h, id, f)
  PROVE  frame' \in [Handlers -> Frame] /\ FramesOK'
<1>1. CASE Reply(h, "bad") \/ Reply(h, "panicked")
  BY <1>1, ReplyType DEF Resting
<1>2. CASE Found(db, id) /\ frame' = [frame EXCEPT ![h] = f]
  BY <1>2, SetFrame
<1> QED
  BY <1>1, <1>2 DEF GetProject

\* A record that can be found is a project.
LEMMA FoundType ==
  ASSUME TypeInv, NEW i, Found(db, i) PROVE i \in Ids /\ db[i] \in Project
BY DEF TypeInv, TypeOK, Found, Stored

\* Changing one namespace for a good one keeps all of them good.
LEMMA SetNamespace ==
  ASSUME TypeInv, NEW n \in Names, NEW r \in Namespace, kube' = [kube EXCEPT ![n] = r]
  PROVE  kube' \in [Names -> Namespace]
BY DEF TypeInv, TypeOK

LEMMA InitTypeInv == Init => TypeInv
<1> SUFFICES ASSUME Init PROVE TypeInv
  OBVIOUS
<1>1. NoNamespace \in Namespace
  BY DEF NoNamespace, Namespace
<1>2. AtRest("idle") \in Frame /\ FrameOK(AtRest("idle"))
  BY AtRestOK DEF Resting
<1> QED
  BY <1>1, <1>2 DEF Init, TypeInv, TypeOK, FramesOK

------------------------------------------------------------------------------
(***************************************************************************)
(* Type correctness, handler by handler.                                   *)
(***************************************************************************)

\* project.Update replaces a record by a project.
LEMMA UpdateRecordType ==
  ASSUME TypeInv, NEW h \in Handlers, frame[h].proj \in Project, UpdateRecord(h)
  PROVE  /\ db' \in [Ids -> Project \cup {Nil}]
         /\ frame' \in [Handlers -> Frame] /\ FramesOK'
<1> DEFINE i == frame[h].id
           q == NonZeroFields(db[i], frame[h].proj)
<1>1. CASE UpdateOk(db, i, frame[h].proj) /\ db' = Save(db, i, q) /\ Reply(h, "ok")
  <2>1. i \in Ids /\ q \in Project
    BY <1>1, FoundType, NonZeroFieldsType DEF UpdateOk
  <2> QED
    BY <1>1, <2>1, ReplyType DEF Save, Resting, TypeInv, TypeOK
<1>2. CASE Reply(h, "bad") /\ UNCHANGED db
  BY <1>2, ReplyType DEF Resting, TypeInv, TypeOK
<1> QED
  BY <1>1, <1>2 DEF UpdateRecord

LEMMA SubmitType ==
  ASSUME TypeInv, NEW h \in Handlers, NEW id \in Ids \cup {Nil},
         NEW p \in Project, Submit(h, id, p)
  PROVE  TypeInv'
<1> DEFINE f == [AtRest("cpNamespace") EXCEPT !.id = id, !.proj = p]
<1>1. f \in Frame /\ FrameOK(f)
  BY DEF AtRest, Frame, FrameOK, Pcs, Resting, ProjectPcs, DeploymentPcs,
         CreatePcs, ElasticPcs, ProxyPcs
<1>2. frame' \in [Handlers -> Frame] /\ FramesOK'
  BY <1>1, SetFrame DEF Submit
<1> QED
  BY <1>2 DEF Submit, TypeInv, TypeOK

LEMMA CreateProjectsType ==
  ASSUME TypeInv, NEW h \in Handlers, CreateProjects(h) PROVE TypeInv'
<1> DEFINE p == frame[h].proj
<1>0. /\ frame[h] \in Frame /\ FrameOK(frame[h])
      /\ kube \in [Names -> Namespace] /\ db \in [Ids -> Project \cup {Nil}]
  BY DEF TypeInv, TypeOK, FramesOK
<1>1. CASE SubmitNew(h)
  BY <1>1, SubmitType, RequestedProjectType DEF SubmitNew
<1>2. CASE SubmitEdit(h)
  BY <1>2, SubmitType, RequestedProjectType DEF SubmitEdit, TypeInv, TypeOK
<1>3. CASE CreateNamespace(h)
  <2>1. p \in Project /\ p.Name \in Names
    BY <1>0, <1>3 DEF CreateNamespace, At, FrameOK, Resting, Project
  <2>2. kube' \in [Names -> Namespace]
    <3> DEFINE r == [kube[p.Name] EXCEPT !.status = "active"]
    <3>0. kube[p.Name] \in Namespace
      BY <1>0, <2>1
    <3>1. r \in Namespace
      BY <2>1, <3>0 DEF Namespace
    <3>2. kube' = kube \/ kube' = [kube EXCEPT ![p.Name] = r]
      BY <1>3 DEF CreateNamespace
    <3> QED
      BY <1>0, <2>1, <3>1, <3>2, SetNamespace
  <2>3. FrameOK([frame[h] EXCEPT !.pc = "cpQuota"])
    BY <1>0, <2>1 DEF Frame, FrameOK, Resting, DeploymentPcs, CreatePcs, ElasticPcs, ProxyPcs
  <2>4. frame' \in [Handlers -> Frame] /\ FramesOK'
    BY <1>3, <2>3, GotoType DEF CreateNamespace, Pcs, ProjectPcs
  <2> QED
    BY <1>3, <2>1, <2>2, <2>4 DEF CreateNamespace, TypeInv, TypeOK
<1>4. CASE CreateResourceQuota(h)
  <2>1. p \in Project /\ p.Name \in Names /\ p.Limits \in LimitValues
    BY <1>0, <1>4 DEF CreateResourceQuota, At, FrameOK, Resting, Project
  <2>2. kube' \in [Names -> Namespace]
    <3> DEFINE r == [kube[p.Name] EXCEPT !.quota = p.Limits]
    <3>0. kube[p.Name] \in Namespace
      BY <1>0, <2>1
    <3>1. r \in Namespace
      BY <2>1, <3>0 DEF Namespace
    <3>2. kube' = kube \/ kube' = [kube EXCEPT ![p.Name] = r]
      BY <1>4 DEF CreateResourceQuota
    <3> QED
      BY <1>0, <2>1, <3>1, <3>2, SetNamespace
  <2>3. FrameOK([frame[h] EXCEPT !.pc = "cpLimits"])
    BY <1>0, <2>1 DEF Frame, FrameOK, Resting, DeploymentPcs, CreatePcs, ElasticPcs, ProxyPcs
  <2>4. frame' \in [Handlers -> Frame] /\ FramesOK'
    BY <1>4, <2>3, GotoType DEF CreateResourceQuota, Pcs, ProjectPcs
  <2> QED
    BY <1>4, <2>2, <2>4 DEF CreateResourceQuota, TypeInv, TypeOK
<1>5. CASE CreateLimitRange(h)
  <2>1. p \in Project /\ p.Name \in Names /\ p.Limits \in LimitValues
    BY <1>0, <1>5 DEF CreateLimitRange, At, FrameOK, Resting, Project
  <2>2. kube' \in [Names -> Namespace]
    <3> DEFINE r == [kube[p.Name] EXCEPT !.limitRange = p.Limits]
    <3>0. kube[p.Name] \in Namespace
      BY <1>0, <2>1
    <3>1. r \in Namespace
      BY <2>1, <3>0 DEF Namespace
    <3>2. kube' = kube \/ kube' = [kube EXCEPT ![p.Name] = r]
      BY <1>5 DEF CreateLimitRange
    <3> QED
      BY <1>0, <2>1, <3>1, <3>2, SetNamespace
  <2>3. FrameOK([frame[h] EXCEPT !.pc = "cpLookup"])
    BY <1>0, <2>1 DEF Frame, FrameOK, Resting, DeploymentPcs, CreatePcs, ElasticPcs, ProxyPcs
  <2>4. frame' \in [Handlers -> Frame] /\ FramesOK'
    <3>1. CASE Goto(h, "cpLookup")
      BY <3>1, <2>3, GotoType DEF Pcs, ProjectPcs
    <3>2. CASE Reply(h, "bad")
      BY <3>2, ReplyType DEF Resting
    <3> QED
      BY <1>5, <3>1, <3>2 DEF CreateLimitRange
  <2> QED
    BY <1>5, <2>2, <2>4 DEF CreateLimitRange, TypeInv, TypeOK
<1>6. CASE LookupProject(h)
  <2>1. p \in Project
    BY <1>0, <1>6 DEF LookupProject, At, FrameOK, Resting
  <2>2. frame' \in [Handlers -> Frame] /\ FramesOK'
    <3>1. CASE Goto(h, "cpSave")
      <4>1. FrameOK([frame[h] EXCEPT !.pc = "cpSave"])
        BY <1>0, <2>1 DEF Frame, FrameOK, Resting, DeploymentPcs, CreatePcs, ElasticPcs, ProxyPcs
      <4> QED
        BY <3>1, <4>1, GotoType DEF Pcs, ProjectPcs
    <3>2. CASE Reply(h, "panicked")
      BY <3>2, ReplyType DEF Resting
    <3>3. CASE /\ Found(db, frame[h].id)
               /\ frame' = [frame EXCEPT ![h] =
                     [frame[h] EXCEPT !.pc = "cpUpdate",
                        !.proj = UpdateWithProject(db[frame[h].id], frame[h].proj)]]
      <4> DEFINE q == UpdateWithProject(db[frame[h].id], p)
                 f == [frame[h] EXCEPT !.pc = "cpUpdate", !.proj = q]
      <4>1. frame[h].id \in Ids /\ q \in Project
        BY <3>3, <2>1, FoundType, UpdateWithProjectType
      <4> HIDE DEF q
      <4>2. f \in Frame /\ FrameOK(f)
        BY <1>0, <4>1 DEF Frame, FrameOK, Pcs, Resting, ProjectPcs, DeploymentPcs,
                          CreatePcs, ElasticPcs, ProxyPcs
      <4>4. frame' = [frame EXCEPT ![h] = f]
        BY <3>3 DEF q
      <4> QED
        BY <4>2, <4>4, SetFrame
    <3> QED
      BY <1>6, <3>1, <3>2, <3>3 DEF LookupProject
  <2> QED
    BY <1>6, <2>2 DEF LookupProject, TypeInv, TypeOK
<1>7. CASE SaveProject(h)
  <2>1. p \in Project
    BY <1>0, <1>7 DEF SaveProject, At, FrameOK, Resting
  <2>2. PICK i \in (IF frame[h].id = Nil THEN Ids \ issued ELSE {frame[h].id}) :
          \/ db' = Save(db, i, p) /\ issued' = issued \cup {i} /\ Reply(h, "ok")
          \/ Reply(h, "bad") /\ UNCHANGED <<db, issued>>
    BY <1>7 DEF SaveProject
  <2>3. i \in Ids
    BY <1>0, <2>2 DEF Frame
  <2>4. db' \in [Ids -> Project \cup {Nil}] /\ issued' \subseteq Ids
    BY <1>0, <2>1, <2>2, <2>3 DEF Save, TypeInv, TypeOK
  <2>5. frame' \in [Handlers -> Frame] /\ FramesOK'
    BY <2>2, ReplyType DEF Resting
  <2> QED
    BY <1>7, <2>4, <2>5 DEF SaveProject, TypeInv, TypeOK
<1>8. CASE UpdateProject(h)
  <2>1. p \in Project
    BY <1>0, <1>8 DEF UpdateProject, At, FrameOK, Resting
  <2> QED
    BY <1>8, <2>1, UpdateRecordType DEF UpdateProject, TypeInv, TypeOK
<1> QED
  BY <1>1, <1>2, <1>3, <1>4, <1>5, <1>6, <1>7, <1>8 DEF CreateProjects

LEMMA AddRoleToProjectType ==
  ASSUME TypeInv, NEW h \in Handlers, AddRoleToProject(h) PROVE TypeInv'
<1>1. CASE ReadForRole(h)
  <2>1. PICK i \in issued, u \in Users, r \in RoleRequests :
          GetProject(h, i, [AtRest("arSave") EXCEPT !.id = i,
                                                    !.proj = AddRole(db[i], u, r)])
    BY <1>1 DEF ReadForRole
  <2> DEFINE q == AddRole(db[i], u, r)
             f == [AtRest("arSave") EXCEPT !.id = i, !.proj = q]
  <2>2. ASSUME Found(db, i) PROVE i \in Ids /\ q \in Project
    BY <2>2, FoundType, AddRoleType, ServerAssumption
  <2> HIDE DEF q
  <2>3. Found(db, i) => f \in Frame /\ FrameOK(f)
    BY <2>2 DEF AtRest, Frame, FrameOK, Pcs, Resting, ProjectPcs, DeploymentPcs,
                CreatePcs, ElasticPcs, ProxyPcs
  <2>4. GetProject(h, i, f)
    BY <2>1 DEF q
  <2>5. frame' \in [Handlers -> Frame] /\ FramesOK'
    BY <2>3, <2>4, GetProjectType
  <2> QED
    BY <1>1, <2>5 DEF ReadForRole, TypeInv, TypeOK
<1>2. CASE SaveRole(h)
  <2>1. frame[h].proj \in Project /\ frame[h].id \in Ids
    BY <1>2 DEF SaveRole, At, TypeInv, FramesOK, FrameOK, Resting
  <2>2. frame' \in [Handlers -> Frame] /\ FramesOK'
    BY <1>2, ReplyType DEF SaveRole, Resting
  <2>3. db' \in [Ids -> Project \cup {Nil}]
    BY <1>2, <2>1 DEF SaveRole, Save, TypeInv, TypeOK
  <2> QED
    BY <1>2, <2>2, <2>3 DEF SaveRole, TypeInv, TypeOK
<1> QED
  BY <1>1, <1>2 DEF AddRoleToProject

LEMMA DeleteProjectType ==
  ASSUME TypeInv, NEW h \in Handlers, DeleteProject(h) PROVE TypeInv'
<1> DEFINE p == frame[h].proj
<1>1. CASE ReadForDelete(h)
  <2>1. PICK i \in issued :
          GetProject(h, i, [AtRest("dpNamespace") EXCEPT !.id = i, !.proj = db[i]])
    BY <1>1 DEF ReadForDelete
  <2> DEFINE f == [AtRest("dpNamespace") EXCEPT !.id = i, !.proj = db[i]]
  <2>2. Found(db, i) => i \in Ids /\ db[i] \in Project
    BY FoundType
  <2>3. Found(db, i) => f \in Frame /\ FrameOK(f)
    BY <2>2 DEF AtRest, Frame, FrameOK, Pcs, Resting, ProjectPcs, DeploymentPcs,
                CreatePcs, ElasticPcs, ProxyPcs
  <2>4. frame' \in [Handlers -> Frame] /\ FramesOK'
    BY <2>1, <2>3, GetProjectType
  <2> QED
    BY <1>1, <2>4 DEF ReadForDelete, TypeInv, TypeOK
<1>2. CASE DeleteNamespace(h)
  <2>1. p \in Project /\ p.Name \in Names
    BY <1>2 DEF DeleteNamespace, At, TypeInv, FramesOK, FrameOK, Resting, Project
  <2>2. kube' \in [Names -> Namespace]
    <3> DEFINE r == [kube[p.Name] EXCEPT !.status = "terminating"]
    <3>1. kube[p.Name] \in Namespace
      BY <2>1 DEF TypeInv, TypeOK
    <3>2. r \in Namespace
      BY <3>1 DEF Namespace
    <3>3. kube' = kube \/ kube' = [kube EXCEPT ![p.Name] = r]
      BY <1>2 DEF DeleteNamespace
    <3> QED
      BY <2>1, <3>2, <3>3, SetNamespace DEF TypeInv, TypeOK
  <2>3. frame[h] \in Frame /\ frame[h].id \in Ids
    BY <1>2 DEF DeleteNamespace, At, TypeInv, TypeOK, FramesOK, FrameOK
  <2>4. FrameOK([frame[h] EXCEPT !.pc = "dpDelete"])
    BY <2>1, <2>3 DEF Frame, FrameOK, Resting, DeploymentPcs, CreatePcs, ElasticPcs, ProxyPcs
  <2>5. frame' \in [Handlers -> Frame] /\ FramesOK'
    BY <1>2, <2>4, GotoType DEF DeleteNamespace, Pcs, ProjectPcs
  <2> QED
    BY <1>2, <2>2, <2>5 DEF DeleteNamespace, TypeInv, TypeOK
<1>3. CASE DeleteRecord(h)
  <2>1. db' \in [Ids -> Project \cup {Nil}]
    BY <1>3 DEF DeleteRecord, Delete, TypeInv, TypeOK
  <2>2. frame' \in [Handlers -> Frame] /\ FramesOK'
    BY <1>3, ReplyType DEF DeleteRecord, Resting
  <2> QED
    BY <1>3, <2>1, <2>2 DEF DeleteRecord, TypeInv, TypeOK
<1> QED
  BY <1>1, <1>2, <1>3 DEF DeleteProject

\* What the steps of createDeployment can rely on.
LEMMA DeployFrame ==
  ASSUME TypeInv, NEW h \in Handlers, frame[h].pc \in CreatePcs
  PROVE  /\ frame[h] \in Frame /\ FrameOK(frame[h])
         /\ frame[h].proj \in Project /\ Ns(h) \in Names
         /\ frame[h].id \in Ids /\ Dep(h) \in Deps /\ Req(h) \in DepRequest
         /\ kube[Ns(h)] \in Namespace
         /\ frame[h].pc \in ElasticPcs => Req(h).es \in ElasticseachConfig
         /\ frame[h].pc = "cdKibana" => Req(h).kb \in KibanaConfig
<1>1. frame[h] \in Frame /\ FrameOK(frame[h])
  BY DEF TypeInv, TypeOK, FramesOK
<1>2. /\ frame[h].proj \in Project /\ frame[h].id \in Ids
      /\ Dep(h) \in Deps /\ Req(h) \in DepRequest
  BY <1>1 DEF FrameOK, CreatePcs, DeploymentPcs, Resting, Dep, Req
<1>3. Ns(h) \in Names
  BY <1>2 DEF Ns, Project
<1>4. kube[Ns(h)] \in Namespace
  BY <1>3 DEF TypeInv, TypeOK
<1>5. /\ frame[h].pc \in ElasticPcs => Req(h).es \in ElasticseachConfig
      /\ frame[h].pc = "cdKibana" => Req(h).kb \in KibanaConfig
  BY <1>1, <1>2 DEF FrameOK, Req, DepRequest
<1> QED
  BY <1>1, <1>2, <1>3, <1>4, <1>5

\* Going on to a later step of createDeployment, when that step can rely on it.
LEMMA DeployGoto ==
  ASSUME TypeInv, NEW h \in Handlers, frame[h].pc \in CreatePcs,
         NEW pc \in CreatePcs, Goto(h, pc),
         pc \in ElasticPcs => frame[h].pc \in ElasticPcs,
         pc = "cdKibana" => Req(h).kb # Nil,
         pc \in ProxyPcs => frame[h].pc \in ProxyPcs
  PROVE  frame' \in [Handlers -> Frame] /\ FramesOK'
<1>1. FrameOK([frame[h] EXCEPT !.pc = pc])
  BY DeployFrame DEF Frame, FrameOK, Resting, CreatePcs, DeploymentPcs, ElasticPcs,
                     ProxyPcs, Req
<1>2. pc \in Pcs
  BY DEF CreatePcs, Pcs, DeploymentPcs
<1> QED
  BY <1>1, <1>2, GotoType

LEMMA SecretType ==
  ASSUME TypeInv, NEW h \in Handlers,
         CreateSecret(h) \/ DeleteSecret(h) \/ RecreateSecret(h)
  PROVE  TypeInv'
<1>1. frame[h].pc \in {"cdSecret", "cdSecretDelete", "cdSecretCreate"}
  BY DEF CreateSecret, DeleteSecret, RecreateSecret, At
<1>2. frame[h].pc \in ElasticPcs /\ frame[h].pc \in CreatePcs
  BY <1>1 DEF CreatePcs, ElasticPcs
<1>3. PICK s \in SUBSET Deps :
        kube' = kube \/ kube' = [kube EXCEPT ![Ns(h)] = [kube[Ns(h)] EXCEPT !.secrets = s]]
  <2>1. kube[Ns(h)].secrets \subseteq Deps /\ Dep(h) \in Deps
    BY <1>2, DeployFrame DEF Namespace
  <2>2. \/ kube' = kube
        \/ kube' = [kube EXCEPT ![Ns(h)].secrets = kube[Ns(h)].secrets \cup {Dep(h)}]
        \/ kube' = [kube EXCEPT ![Ns(h)].secrets = kube[Ns(h)].secrets \ {Dep(h)}]
    BY DEF CreateSecret, DeleteSecret, RecreateSecret
  <2>3. /\ kube[Ns(h)].secrets \cup {Dep(h)} \in SUBSET Deps
        /\ kube[Ns(h)].secrets \ {Dep(h)} \in SUBSET Deps
    BY <2>1
  <2> QED
    BY <2>2, <2>3
<1>4. [kube[Ns(h)] EXCEPT !.secrets = s] \in Namespace
  BY <1>2, DeployFrame DEF Namespace
<1>5. kube' \in [Names -> Namespace]
  BY <1>2, <1>3, <1>4, DeployFrame, SetNamespace DEF TypeInv, TypeOK
<1>6. PICK pc \in {"cdElastic", "cdSecretDelete", "cdSecretCreate"} : Goto(h, pc)
  BY DEF CreateSecret, DeleteSecret, RecreateSecret
<1>7. pc \in CreatePcs /\ pc # "cdKibana" /\ pc \notin ProxyPcs
  BY DEF CreatePcs, ProxyPcs
<1>8. frame' \in [Handlers -> Frame] /\ FramesOK'
  BY <1>2, <1>6, <1>7, DeployGoto
<1> QED
  BY <1>5, <1>8 DEF CreateSecret, DeleteSecret, RecreateSecret, TypeInv, TypeOK

\* What DeployElastic does to the frame of h: on success the cluster has an id.
LEMMA DeployElasticFrame ==
  ASSUME TypeInv, NEW h \in Handlers, DeployElastic(h)
  PROVE  \/ Goto(h, AfterElastic(Req(h))) /\ UNCHANGED kube
         \/ \E req \in DepRequest :
              /\ req.kb = Req(h).kb /\ req.es \in ElasticseachConfig /\ req.es.Id \in Xids
              /\ req.es.Version = Req(h).es.Version
              /\ frame' = [frame EXCEPT ![h] =
                             [frame[h] EXCEPT !.req = req, !.pc = AfterElastic(Req(h))]]
<1>1. /\ frame[h].pc \in CreatePcs /\ frame[h].pc \in ElasticPcs
      /\ frame[h] \in Frame /\ frame \in [Handlers -> Frame]
  BY DEF DeployElastic, At, CreatePcs, ElasticPcs, TypeInv, TypeOK
<1>2. CASE Goto(h, AfterElastic(Req(h))) /\ UNCHANGED kube
  BY <1>2
<1>3. CASE \E x \in Xids :
             frame' = [frame EXCEPT ![h].req.es.Id = GetID(@, x),
                                    ![h].pc = AfterElastic(Req(h))]
  <2>1. PICK x \in Xids :
          frame' = [frame EXCEPT ![h].req.es.Id = GetID(@, x),
                                 ![h].pc = AfterElastic(Req(h))]
    BY <1>3
  <2> DEFINE id  == GetID(Req(h).es.Id, x)
             es  == [Req(h).es EXCEPT !.Id = id]
             req == [Req(h) EXCEPT !.es = es]
  <2>2. Req(h) \in DepRequest /\ Req(h).es \in ElasticseachConfig
    BY <1>1, DeployFrame
  <2>3. id \in Xids
    BY <2>2 DEF GetID, ElasticseachConfig
  <2>4. frame' = [frame EXCEPT ![h] =
                   [frame[h] EXCEPT !.req = req, !.pc = AfterElastic(Req(h))]]
    BY <1>1, <2>1, <2>2 DEF Frame, Req, DepRequest, ElasticseachConfig
  <2> HIDE DEF id
  <2>5. /\ es \in ElasticseachConfig /\ es.Id \in Xids
        /\ es.Version = Req(h).es.Version
    BY <2>2, <2>3 DEF ElasticseachConfig
  <2> HIDE DEF es
  <2>6. req \in DepRequest /\ req.kb = Req(h).kb /\ req.es = es
    BY <2>2, <2>5 DEF DepRequest
  <2> QED
    BY <2>4, <2>5, <2>6
<1> QED
  BY <1>2, <1>3 DEF DeployElastic

LEMMA DeployElasticType ==
  ASSUME TypeInv, NEW h \in Handlers, DeployElastic(h) PROVE TypeInv'
<1> DEFINE next == AfterElastic(Req(h))
           v    == Req(h).es.Version
<1>1. frame[h].pc = "cdElastic" /\ frame[h].pc \in CreatePcs /\ frame[h].pc \in ElasticPcs
  BY DEF DeployElastic, At, CreatePcs, ElasticPcs
<1>2. /\ next \in {"cdKibana", "cdUpdate"}
      /\ next = "cdKibana" => Req(h).kb # Nil
  BY DEF AfterElastic
<1>3. kube' \in [Names -> Namespace]
  <2> DEFINE es == [kube[Ns(h)].es EXCEPT ![Dep(h)] = v]
             r  == [kube[Ns(h)] EXCEPT !.es = es]
  <2>1. v \in Versions
    BY <1>1, DeployFrame DEF ElasticseachConfig
  <2>2. kube[Ns(h)].es \in [Deps -> Versions \cup {Nil}]
    BY <1>1, DeployFrame DEF Namespace
  <2>3. es \in [Deps -> Versions \cup {Nil}]
    BY <2>1, <2>2
  <2>4. r \in Namespace
    BY <1>1, <2>3, DeployFrame DEF Namespace
  <2>5. kube' = kube \/ kube' = [kube EXCEPT ![Ns(h)] = r]
    BY DEF DeployElastic
  <2> QED
    BY <1>1, <2>4, <2>5, DeployFrame, SetNamespace DEF TypeInv, TypeOK
<1>4. frame' \in [Handlers -> Frame] /\ FramesOK'
  <2>1. CASE \E req \in DepRequest :
              /\ req.kb = Req(h).kb /\ req.es \in ElasticseachConfig
              /\ frame' = [frame EXCEPT ![h] =
                             [frame[h] EXCEPT !.req = req, !.pc = next]]
    <3>1. PICK req \in DepRequest :
              /\ req.kb = Req(h).kb /\ req.es \in ElasticseachConfig
              /\ frame' = [frame EXCEPT ![h] =
                             [frame[h] EXCEPT !.req = req, !.pc = next]]
      BY <2>1
    <3> DEFINE f == [frame[h] EXCEPT !.req = req, !.pc = next]
    <3>4. f \in Frame
      BY <1>1, <1>2, DeployFrame DEF Frame, Pcs, DeploymentPcs
    <3>5. FrameOK(f)
      BY <1>1, <1>2, <3>1, DeployFrame DEF Frame, FrameOK, Resting, CreatePcs,
                                           DeploymentPcs, ElasticPcs, ProxyPcs
    <3> QED
      BY <3>1, <3>4, <3>5, SetFrame
  <2>2. CASE Goto(h, next)
    <3>1. next \in CreatePcs /\ next \notin ElasticPcs /\ next \notin ProxyPcs
      BY <1>2 DEF CreatePcs, ElasticPcs, ProxyPcs
    <3> QED
      BY <1>1, <1>2, <2>2, <3>1, DeployGoto
  <2> QED
    BY <2>1, <2>2, DeployElasticFrame
<1> QED
  BY <1>3, <1>4 DEF DeployElastic, TypeInv, TypeOK

\* The frame DeployKibana leaves when it succeeds: req has the id that was made.
KibanaFrame(h, req) ==
  [frame[h] EXCEPT !.req = req,
     !.proj = IF req.es # Nil THEN UpdateDeployment(frame[h].proj, Dep(h), req)
                              ELSE frame[h].proj,
     !.pc = IF req.es # Nil THEN "cdProxy" ELSE "cdUpdate"]

LEMMA DeployKibanaFrame ==
  ASSUME TypeInv, NEW h \in Handlers, DeployKibana(h)
  PROVE  \/ Reply(h, "bad") /\ UNCHANGED kube
         \/ \E req \in DepRequest :
              /\ req.es = Req(h).es /\ req.kb \in KibanaConfig /\ req.kb.Id \in Xids
              /\ req.kb.Version = Req(h).kb.Version
              /\ frame' = [frame EXCEPT ![h] = KibanaFrame(h, req)]
<1> DEFINE Result(req) ==
      [frame EXCEPT ![h].req = req,
        ![h].proj = IF Req(h).es # Nil THEN UpdateDeployment(@, Dep(h), req) ELSE @,
        ![h].pc = IF Req(h).es # Nil THEN "cdProxy" ELSE "cdUpdate"]
<1>1. /\ frame[h].pc \in CreatePcs /\ frame[h].pc = "cdKibana"
      /\ frame[h] \in Frame /\ frame \in [Handlers -> Frame]
  BY DEF DeployKibana, At, CreatePcs, TypeInv, TypeOK
<1>2. Req(h) \in DepRequest /\ Req(h).kb \in KibanaConfig
  BY <1>1, DeployFrame
<1>3. CASE Reply(h, "bad") /\ UNCHANGED kube
  BY <1>3
<1>4. CASE \E x \in Xids :
             LET req == [Req(h) EXCEPT !.kb.Id = GetID(@, x)] IN frame' = Result(req)
  <2>1. PICK x \in Xids : frame' = Result([Req(h) EXCEPT !.kb.Id = GetID(@, x)])
    BY <1>4
  <2> DEFINE id  == GetID(Req(h).kb.Id, x)
             kb  == [Req(h).kb EXCEPT !.Id = id]
             req == [Req(h) EXCEPT !.kb = kb]
  <2>2. id \in Xids
    BY <1>2 DEF GetID, KibanaConfig
  <2>3. frame' = Result(req)
    BY <2>1
  <2> HIDE DEF id, Result
  <2>4. kb \in KibanaConfig /\ kb.Id \in Xids /\ kb.Version = Req(h).kb.Version
    BY <1>2, <2>2 DEF KibanaConfig
  <2> HIDE DEF kb
  <2>5. req \in DepRequest /\ req.es = Req(h).es /\ req.kb = kb
    BY <1>2, <2>4 DEF DepRequest
  <2> HIDE DEF req
  <2>6. frame' = [frame EXCEPT ![h] = KibanaFrame(h, req)]
    BY <1>1, <2>3, <2>5 DEF Result, KibanaFrame, Frame
  <2> QED
    BY <2>4, <2>5, <2>6
<1> QED
  BY <1>3, <1>4 DEF DeployKibana

LEMMA DeployKibanaType ==
  ASSUME TypeInv, NEW h \in Handlers, DeployKibana(h) PROVE TypeInv'
<1> DEFINE old == kube[Ns(h)].kb[Dep(h)]
           obj == KibanaObject(old, Req(h).kb)
<1>1. frame[h].pc = "cdKibana" /\ frame[h].pc \in CreatePcs
  BY DEF DeployKibana, At, CreatePcs
<1>2. Req(h).kb \in KibanaConfig
  BY <1>1, DeployFrame
<1>5. kube' \in [Names -> Namespace]
  <2> DEFINE kbs == [kube[Ns(h)].kb EXCEPT ![Dep(h)] = obj]
             r   == [kube[Ns(h)] EXCEPT !.kb = kbs]
             Obj == [Version : Versions, Size : Sizes]
  <2>1. kube[Ns(h)].kb \in [Deps -> Obj \cup {Nil}]
    BY <1>1, DeployFrame DEF Namespace
  <2>2. old \in Obj \cup {Nil}
    BY <1>1, <2>1, DeployFrame
  <2>3. obj \in Obj
    BY <1>2, <2>2 DEF KibanaObject, KibanaConfig
  <2>4. kbs \in [Deps -> Obj \cup {Nil}]
    BY <2>1, <2>3
  <2>5. r \in Namespace
    BY <1>1, <2>4, DeployFrame DEF Namespace
  <2>6. kube' = kube \/ kube' = [kube EXCEPT ![Ns(h)] = r]
    BY DEF DeployKibana
  <2> QED
    BY <1>1, <2>5, <2>6, DeployFrame, SetNamespace DEF TypeInv, TypeOK
<1>6. frame' \in [Handlers -> Frame] /\ FramesOK'
  <2>1. CASE Reply(h, "bad")
    BY <2>1, ReplyType DEF Resting
  <2>2. CASE \E req \in DepRequest :
               /\ req.es = Req(h).es /\ req.kb \in KibanaConfig
               /\ frame' = [frame EXCEPT ![h] = KibanaFrame(h, req)]
    <3>0. PICK req \in DepRequest :
               /\ req.es = Req(h).es /\ req.kb \in KibanaConfig
               /\ frame' = [frame EXCEPT ![h] = KibanaFrame(h, req)]
      BY <2>2
    <3> DEFINE q == IF req.es # Nil THEN UpdateDeployment(frame[h].proj, Dep(h), req)
                                    ELSE frame[h].proj
               pc == IF req.es # Nil THEN "cdProxy" ELSE "cdUpdate"
               f == [frame[h] EXCEPT !.req = req, !.proj = q, !.pc = pc]
    <3>1. req.es # Nil => req \in Deployment
      BY <3>0 DEF DepRequest, Deployment
    <3>2. /\ q \in Project
          /\ pc = "cdProxy" => /\ q.Deployment \in DeploymentList
                               /\ q.Deployment[Dep(h)] \in Deployment
      BY <1>1, <3>1, DeployFrame, UpdateDeploymentType
    <3>3. frame' = [frame EXCEPT ![h] = f]
      BY <3>0 DEF KibanaFrame
    <3> HIDE DEF q
    <3>4. f \in Frame
      BY <1>1, <3>2, DeployFrame DEF Frame, Pcs, DeploymentPcs
    <3>5. FrameOK(f)
      BY <1>1, <3>2, DeployFrame DEF Frame, FrameOK, Resting, CreatePcs,
                                     DeploymentPcs, ElasticPcs, ProxyPcs, Dep
    <3> QED
      BY <3>3, <3>4, <3>5, SetFrame
  <2> QED
    BY <2>1, <2>2, DeployKibanaFrame
<1> QED
  BY <1>5, <1>6 DEF DeployKibana, TypeInv, TypeOK

LEMMA IngressType ==
  ASSUME TypeInv, NEW h \in Handlers,
         CreateIngress(h) \/ DeleteIngress(h) \/ RecreateIngress(h)
  PROVE  TypeInv'
<1> DEFINE g == IngressName[Dep(h)]
<1>1. frame[h].pc \in ProxyPcs /\ frame[h].pc \in CreatePcs
  BY DEF CreateIngress, DeleteIngress, RecreateIngress, At, CreatePcs, ProxyPcs
<1>2. ProxyHosts(h) \in Hosts
  <2>1. frame[h].proj.Deployment[Dep(h)] \in Deployment
    BY <1>1, DeployFrame DEF FrameOK, Dep
  <2> QED
    BY <2>1 DEF ProxyHosts, Hosts, Deployment, ElasticseachConfig, KibanaConfig
<1>3. kube' \in [Names -> Namespace]
  <2>1. PICK x \in Hosts \cup {Nil} :
          kube' = kube \/ kube' = [kube EXCEPT ![Ns(h)].ingress[g] = x]
    BY <1>2 DEF CreateIngress, DeleteIngress, RecreateIngress
  <2> DEFINE gs == [kube[Ns(h)].ingress EXCEPT ![g] = x]
             r  == [kube[Ns(h)] EXCEPT !.ingress = gs]
  <2>2. kube[Ns(h)].ingress \in [Ingresses -> Hosts \cup {Nil}]
    BY <1>1, DeployFrame DEF Namespace
  <2>3. gs \in [Ingresses -> Hosts \cup {Nil}]
    BY <2>2
  <2>4. r \in Namespace
    BY <1>1, <2>3, DeployFrame DEF Namespace
  <2>5. kube' = kube \/ kube' = [kube EXCEPT ![Ns(h)] = r]
    BY <2>1
  <2> QED
    BY <1>1, <2>4, <2>5, DeployFrame, SetNamespace DEF TypeInv, TypeOK
<1>4. PICK pc \in {"cdUpdate", "cdProxyDelete", "cdProxyCreate"} : Goto(h, pc)
  BY DEF CreateIngress, DeleteIngress, RecreateIngress
<1>5. pc \in CreatePcs /\ pc # "cdKibana" /\ pc \notin ElasticPcs
  BY DEF CreatePcs, ElasticPcs
<1>6. frame' \in [Handlers -> Frame] /\ FramesOK'
  BY <1>1, <1>4, <1>5, DeployGoto
<1> QED
  BY <1>3, <1>6 DEF CreateIngress, DeleteIngress, RecreateIngress, TypeInv, TypeOK

LEMMA CreateDeploymentType ==
  ASSUME TypeInv, NEW h \in Handlers, CreateDeployment(h) PROVE TypeInv'
<1>1. CASE ReadForDeploy(h)
  <2>1. PICK i \in issued, d \in Deps, req \in DepRequests :
          GetProject(h, i, [pc |-> IF req.es # Nil THEN "cdSecret" ELSE AfterElastic(req),
                            id |-> i, proj |-> db[i], dep |-> d, req |-> req])
    BY <1>1 DEF ReadForDeploy
  <2> DEFINE pc == IF req.es # Nil THEN "cdSecret" ELSE AfterElastic(req)
             f  == [pc |-> pc, id |-> i, proj |-> db[i], dep |-> d, req |-> req]
  <2>2. Found(db, i) => i \in Ids /\ db[i] \in Project
    BY FoundType
  <2>3. req \in DepRequest
    BY ServerAssumption
  <2>4. \/ pc = "cdSecret" /\ req.es # Nil
        \/ pc = "cdKibana" /\ req.kb # Nil
        \/ pc = "cdUpdate"
    BY DEF AfterElastic
  <2> HIDE DEF pc
  <2>5. Found(db, i) => f \in Frame /\ FrameOK(f)
    BY <2>2, <2>3, <2>4 DEF Frame, FrameOK, Pcs, Resting, ProjectPcs, DeploymentPcs,
                            CreatePcs, ElasticPcs, ProxyPcs
  <2>6. GetProject(h, i, f)
    BY <2>1 DEF pc
  <2>7. frame' \in [Handlers -> Frame] /\ FramesOK'
    BY <2>5, <2>6, GetProjectType
  <2> QED
    BY <1>1, <2>7 DEF ReadForDeploy, TypeInv, TypeOK
<1>2. CASE CreateSecret(h) \/ DeleteSecret(h) \/ RecreateSecret(h)
  BY <1>2, SecretType
<1>3. CASE DeployElastic(h)
  BY <1>3, DeployElasticType
<1>4. CASE DeployKibana(h)
  BY <1>4, DeployKibanaType
<1>5. CASE CreateIngress(h) \/ DeleteIngress(h) \/ RecreateIngress(h)
  BY <1>5, IngressType
<1>6. CASE RecordDeployment(h)
  <2>1. frame[h].proj \in Project
    BY <1>6, DeployFrame DEF RecordDeployment, At, CreatePcs
  <2> QED
    BY <1>6, <2>1, UpdateRecordType DEF RecordDeployment, TypeInv, TypeOK
<1> QED
  BY <1>1, <1>2, <1>3, <1>4, <1>5, <1>6 DEF CreateDeployment

LEMMA DeleteDeploymentType ==
  ASSUME TypeInv, NEW h \in Handlers, DeleteDeployment(h) PROVE TypeInv'
<1>1. CASE ReadForUndeploy(h)
  <2>1. PICK i \in issued, d \in Deps :
          GetProject(h, i, IF FindDeployment(db[i], d)
                        THEN [AtRest("ddProxy") EXCEPT !.id = i, !.proj = db[i],
                                                       !.dep = d]
                        ELSE AtRest("bad"))
    BY <1>1 DEF ReadForUndeploy
  <2> DEFINE f == [AtRest("ddProxy") EXCEPT !.id = i, !.proj = db[i], !.dep = d]
             e == IF FindDeployment(db[i], d) THEN f ELSE AtRest("bad")
  <2>2. Found(db, i) => i \in Ids /\ db[i] \in Project
    BY FoundType
  <2>3. Found(db, i) => f \in Frame /\ FrameOK(f)
    BY <2>2 DEF AtRest, Frame, FrameOK, Pcs, Resting, ProjectPcs, DeploymentPcs,
                CreatePcs, ElasticPcs, ProxyPcs
  <2>4. Found(db, i) => e \in Frame /\ FrameOK(e)
    BY <2>3, AtRestOK DEF Resting
  <2>5. frame' \in [Handlers -> Frame] /\ FramesOK'
    BY <2>1, <2>4, GetProjectType
  <2> QED
    BY <1>1, <2>5 DEF ReadForUndeploy, TypeInv, TypeOK
<1>2. ASSUME frame[h].pc \in {"ddProxy", "ddElastic", "ddKibana", "ddSave"}
      PROVE  /\ frame[h] \in Frame /\ frame[h].proj \in Project /\ Ns(h) \in Names
             /\ frame[h].id \in Ids /\ Dep(h) \in Deps /\ kube[Ns(h)] \in Namespace
  <2>1. /\ frame[h] \in Frame /\ frame[h].proj \in Project
        /\ frame[h].id \in Ids /\ Dep(h) \in Deps
    BY <1>2 DEF TypeInv, TypeOK, FramesOK, FrameOK, Resting, DeploymentPcs, Dep
  <2>2. Ns(h) \in Names
    BY <2>1 DEF Ns, Project
  <2> QED
    BY <2>1, <2>2 DEF TypeInv, TypeOK
<1>3. ASSUME frame[h].pc \in {"ddProxy", "ddElastic", "ddKibana"},
             NEW pc \in {"ddElastic", "ddKibana", "ddSave"}, Goto(h, pc)
      PROVE  frame' \in [Handlers -> Frame] /\ FramesOK'
  <2>1. FrameOK([frame[h] EXCEPT !.pc = pc])
    BY <1>2, <1>3 DEF Frame, FrameOK, Resting, DeploymentPcs, CreatePcs, ElasticPcs,
                      ProxyPcs, Dep
  <2> QED
    BY <1>3, <2>1, GotoType DEF Pcs, DeploymentPcs
<1>4. CASE ProxyDelete(h)
  <2>1. frame[h].pc = "ddProxy" /\ Goto(h, "ddElastic")
    BY <1>4 DEF ProxyDelete, At
  <2> DEFINE gs == [kube[Ns(h)].ingress EXCEPT ![Dep(h)] = Nil]
             r  == [kube[Ns(h)] EXCEPT !.ingress = gs]
  <2>2. kube[Ns(h)].ingress \in [Ingresses -> Hosts \cup {Nil}]
    BY <1>2, <2>1 DEF Namespace
  <2>3. gs \in [Ingresses -> Hosts \cup {Nil}]
    BY <2>2
  <2>4. r \in Namespace
    BY <1>2, <2>1, <2>3 DEF Namespace
  <2>5. kube' = kube \/ kube' = [kube EXCEPT ![Ns(h)] = r]
    BY <1>4 DEF ProxyDelete
  <2>6. kube' \in [Names -> Namespace]
    BY <1>2, <2>1, <2>4, <2>5, SetNamespace DEF TypeInv, TypeOK
  <2>7. frame' \in [Handlers -> Frame] /\ FramesOK'
    BY <1>3, <2>1
  <2> QED
    BY <1>4, <2>6, <2>7 DEF ProxyDelete, TypeInv, TypeOK
<1>5. CASE DeleteElastic(h)
  <2>1. frame[h].pc = "ddElastic" /\ Goto(h, "ddKibana")
    BY <1>5 DEF DeleteElastic, At
  <2> DEFINE es == [kube[Ns(h)].es EXCEPT ![Dep(h)] = Nil]
             r  == [kube[Ns(h)] EXCEPT !.es = es]
  <2>2. kube[Ns(h)].es \in [Deps -> Versions \cup {Nil}]
    BY <1>2, <2>1 DEF Namespace
  <2>3. es \in [Deps -> Versions \cup {Nil}]
    BY <2>2
  <2>4. r \in Namespace
    BY <1>2, <2>1, <2>3 DEF Namespace
  <2>5. kube' = kube \/ kube' = [kube EXCEPT ![Ns(h)] = r]
    BY <1>5 DEF DeleteElastic
  <2>6. kube' \in [Names -> Namespace]
    BY <1>2, <2>1, <2>4, <2>5, SetNamespace DEF TypeInv, TypeOK
  <2>7. frame' \in [Handlers -> Frame] /\ FramesOK'
    BY <1>3, <2>1
  <2> QED
    BY <1>5, <2>6, <2>7 DEF DeleteElastic, TypeInv, TypeOK
<1>6. CASE DeleteKibana(h)
  <2>1. frame[h].pc = "ddKibana" /\ Goto(h, "ddSave")
    BY <1>6 DEF DeleteKibana, At
  <2> DEFINE kb == [kube[Ns(h)].kb EXCEPT ![Dep(h)] = Nil]
             r  == [kube[Ns(h)] EXCEPT !.kb = kb]
  <2>2. kube[Ns(h)].kb \in [Deps -> [Version : Versions, Size : Sizes] \cup {Nil}]
    BY <1>2, <2>1 DEF Namespace
  <2>3. kb \in [Deps -> [Version : Versions, Size : Sizes] \cup {Nil}]
    BY <2>2
  <2>4. r \in Namespace
    BY <1>2, <2>1, <2>3 DEF Namespace
  <2>5. kube' = kube \/ kube' = [kube EXCEPT ![Ns(h)] = r]
    BY <1>6 DEF DeleteKibana
  <2>6. kube' \in [Names -> Namespace]
    BY <1>2, <2>1, <2>4, <2>5, SetNamespace DEF TypeInv, TypeOK
  <2>7. frame' \in [Handlers -> Frame] /\ FramesOK'
    BY <1>3, <2>1
  <2> QED
    BY <1>6, <2>6, <2>7 DEF DeleteKibana, TypeInv, TypeOK
<1>7. CASE ForgetDeployment(h)
  <2>1. frame[h].pc = "ddSave" /\ Reply(h, "ok")
    BY <1>7 DEF ForgetDeployment, At
  <2>2. DeletDeployment(frame[h].proj, Dep(h)) \in Project /\ frame[h].id \in Ids
    BY <1>2, <2>1, DeletDeploymentType
  <2>3. db' \in [Ids -> Project \cup {Nil}]
    BY <1>7, <2>2 DEF ForgetDeployment, Save, TypeInv, TypeOK
  <2>4. frame' \in [Handlers -> Frame] /\ FramesOK'
    BY <2>1, ReplyType DEF Resting
  <2> QED
    BY <1>7, <2>3, <2>4 DEF ForgetDeployment, TypeInv, TypeOK
<1> QED
  BY <1>1, <1>4, <1>5, <1>6, <1>7 DEF DeleteDeployment

\* The steps of the environment, and a step that changes nothing.
LEMMA EnvironmentType ==
  ASSUME TypeInv,
         \/ \E n \in Names : FinalizeNamespace(n)
         \/ Crash \/ Restart \/ UNCHANGED vars
  PROVE  TypeInv'
<1>1. CASE \E n \in Names : FinalizeNamespace(n)
  <2>1. NoNamespace \in Namespace
    BY DEF NoNamespace, Namespace
  <2>2. kube' \in [Names -> Namespace]
    BY <1>1, <2>1, SetNamespace DEF FinalizeNamespace
  <2> QED
    BY <1>1, <2>2 DEF FinalizeNamespace, TypeInv, TypeOK, FramesOK
<1>2. CASE Crash
  <2>1. AtRest("idle") \in Frame /\ FrameOK(AtRest("idle"))
    BY AtRestOK DEF Resting
  <2> QED
    BY <1>2, <2>1 DEF Crash, TypeInv, TypeOK, FramesOK
<1>3. CASE Restart
  <2>1. \A i \in Stored(db) : db[i].Name \in Names
    BY FoundType DEF Found, Project
  <2> QED
    BY <1>3, <2>1 DEF Restart, TypeInv, TypeOK, FramesOK
<1>4. CASE UNCHANGED vars
  BY <1>4 DEF vars, TypeInv, TypeOK, FramesOK
<1> QED
  BY <1>1, <1>2, <1>3, <1>4

LEMMA NextTypeInv == TypeInv /\ [Next]_vars => TypeInv'
<1> SUFFICES ASSUME TypeInv, [Next]_vars PROVE TypeInv'
  OBVIOUS
<1> QED
  BY CreateProjectsType, AddRoleToProjectType, DeleteProjectType, CreateDeploymentType,
     DeleteDeploymentType, EnvironmentType DEF Next

\* Whatever the requests, refusals, interleavings and crashes, every record,
\* object and local variable is one the program can hold, and each handler has
\* at each step what that step needs.
THEOREM TypeCorrect == Spec => [](TypeOK /\ FramesOK)
<1>1. TypeInv => TypeOK /\ FramesOK
  BY DEF TypeInv
<1> QED
  BY <1>1, InitTypeInv, NextTypeInv, PTL DEF Spec

------------------------------------------------------------------------------
(***************************************************************************)
(* Where records and copies come from.  A handler's copy of a project has  *)
(* the name and roles of the form that was submitted, of a stored record,  *)
(* or of the copy it had; and what is written to the database has those of *)
(* the copy.  Monitored and Governed both follow from this.                *)
(***************************************************************************)

SameProject(p, q) == p.Name = q.Name /\ p.RoleMappings = q.RoleMappings

\* The copy in h's next frame.
CopyFrom(h) ==
  \/ frame'[h].pc \in Resting
  \/ frame'[h].pc = "cpNamespace" /\ frame'[h].proj.RoleMappings # {}
  \/ /\ frame[h].pc \notin Resting
     /\ SameProject(frame'[h].proj, frame[h].proj)
     /\ frame[h].pc = "cpNamespace" => frame[h].proj.Name \in windows'
  \/ \E i \in Stored(db) : /\ frame'[h].proj.Name = db[i].Name
                           /\ db[i].RoleMappings \subseteq frame'[h].proj.RoleMappings

\* The records of the next database.
RecordFrom(h) ==
  \A i \in Ids : \/ db'[i] \in {db[i], Nil}
                 \/ /\ frame[h].pc \notin Resting \cup {"cpNamespace"}
                    /\ SameProject(db'[i], frame[h].proj)

StepOf(h) ==
  /\ up /\ up'
  /\ windows \subseteq windows'
  /\ \A g \in Handlers \ {h} : frame'[g] = frame[g]
  /\ CopyFrom(h)
  /\ RecordFrom(h)

\* The three ways a frame changes.
LEMMA ReplyStep ==
  ASSUME TypeInv, NEW h \in Handlers, NEW r \in Resting, Reply(h, r)
  PROVE  CopyFrom(h) /\ \A g \in Handlers \ {h} : frame'[g] = frame[g]
BY DEF Reply, AtRest, CopyFrom, TypeInv, TypeOK

LEMMA GotoStep ==
  ASSUME TypeInv, NEW h \in Handlers, NEW pc, Goto(h, pc), frame[h].pc \notin Resting,
         frame[h].pc = "cpNamespace" => frame[h].proj.Name \in windows'
  PROVE  CopyFrom(h) /\ \A g \in Handlers \ {h} : frame'[g] = frame[g]
<1>1. frame[h] \in Frame
  BY DEF TypeInv, TypeOK
<1>2. frame'[h] = [frame[h] EXCEPT !.pc = pc]
  BY DEF Goto, TypeInv, TypeOK
<1>3. frame'[h].proj = frame[h].proj
  BY <1>1, <1>2 DEF Frame
<1> QED
  BY <1>3 DEF Goto, CopyFrom, SameProject, TypeInv, TypeOK

LEMMA GetProjectStep ==
  ASSUME TypeInv, NEW h \in Handlers, NEW i, NEW f, GetProject(h, i, f),
         Found(db, i) => \/ f.pc \in Resting
                         \/ /\ f.proj.Name = db[i].Name
                            /\ db[i].RoleMappings \subseteq f.proj.RoleMappings
  PROVE  CopyFrom(h) /\ \A g \in Handlers \ {h} : frame'[g] = frame[g]
<1>1. CASE Reply(h, "bad") \/ Reply(h, "panicked")
  BY <1>1, ReplyStep DEF Resting
<1>2. CASE Found(db, i) /\ frame' = [frame EXCEPT ![h] = f]
  BY <1>2 DEF Found, CopyFrom, TypeInv, TypeOK
<1> QED
  BY <1>1, <1>2 DEF GetProject

\* A database that is not written, and one in which the copy is saved.
LEMMA SaveStep ==
  ASSUME TypeInv, NEW h \in Handlers, NEW j, NEW p,
         frame[h].pc \notin Resting \cup {"cpNamespace"},
         SameProject(p, frame[h].proj), db' = Save(db, j, p)
  PROVE  RecordFrom(h)
BY DEF Save, RecordFrom, TypeInv, TypeOK

LEMMA UpdateRecordStep ==
  ASSUME TypeInv, NEW h \in Handlers, frame[h].proj \in Project, UpdateRecord(h),
         frame[h].pc \notin Resting \cup {"cpNamespace"}
  PROVE  /\ RecordFrom(h) /\ CopyFrom(h)
         /\ \A g \in Handlers \ {h} : frame'[g] = frame[g]
<1> DEFINE i == frame[h].id
           q == NonZeroFields(db[i], frame[h].proj)
<1>1. CopyFrom(h) /\ \A g \in Handlers \ {h} : frame'[g] = frame[g]
  BY ReplyStep DEF UpdateRecord, Resting
<1>2. CASE UpdateOk(db, i, frame[h].proj) /\ db' = Save(db, i, q)
  <2>1. SameProject(q, frame[h].proj)
    BY <1>2, FoundType, NonZeroFieldsType DEF UpdateOk, SameProject
  <2> QED
    BY <1>1, <1>2, <2>1, SaveStep
<1>3. CASE UNCHANGED db
  BY <1>1, <1>3 DEF RecordFrom
<1> QED
  BY <1>2, <1>3 DEF UpdateRecord

LEMMA CreateProjectsStep ==
  ASSUME TypeInv, NEW h \in Handlers, CreateProjects(h) PROVE StepOf(h)
<1> DEFINE p == frame[h].proj
<1>0. ASSUME frame[h].pc \notin Resting PROVE p \in Project
  BY <1>0 DEF TypeInv, FramesOK, FrameOK
<1>1. ASSUME NEW id, NEW q \in Project, q.RoleMappings # {}, Submit(h, id, q)
      PROVE  StepOf(h)
  <2> DEFINE f == [AtRest("cpNamespace") EXCEPT !.id = id, !.proj = q]
  <2>1. f.pc = "cpNamespace" /\ f.proj = q
    BY DEF AtRest
  <2>2. frame' = [frame EXCEPT ![h] = f]
    BY <1>1 DEF Submit
  <2> QED
    BY <1>1, <2>1, <2>2 DEF Submit, Ready, StepOf, CopyFrom, RecordFrom, TypeInv, TypeOK
<1>2. CASE SubmitNew(h) \/ SubmitEdit(h)
  BY <1>2, <1>1, RequestedProjectType DEF SubmitNew, SubmitEdit
<1>3. CASE CreateNamespace(h)
  <2>1. frame[h].pc = "cpNamespace" /\ p.Name \in windows'
    BY <1>3 DEF CreateNamespace, At
  <2> QED
    BY <1>3, <2>1, GotoStep DEF CreateNamespace, At, StepOf, RecordFrom, Resting
<1>4. CASE CreateResourceQuota(h)
  BY <1>4, GotoStep DEF CreateResourceQuota, At, StepOf, RecordFrom, Resting
<1>5. CASE CreateLimitRange(h)
  BY <1>5, GotoStep, ReplyStep DEF CreateLimitRange, At, StepOf, RecordFrom, Resting
<1>6. CASE LookupProject(h)
  <2>1. frame[h].pc = "cpLookup" /\ p \in Project
    BY <1>6, <1>0 DEF LookupProject, At, Resting
  <2>2. CASE Goto(h, "cpSave") \/ Reply(h, "panicked")
    BY <1>6, <2>1, <2>2, GotoStep, ReplyStep
       DEF LookupProject, At, StepOf, RecordFrom, Resting
  <2>3. CASE /\ Found(db, frame[h].id)
             /\ frame' = [frame EXCEPT ![h] =
                   [frame[h] EXCEPT !.pc = "cpUpdate",
                      !.proj = UpdateWithProject(db[frame[h].id], frame[h].proj)]]
    <3> DEFINE q == UpdateWithProject(db[frame[h].id], p)
    <3>1. SameProject(q, p)
      BY <2>1, <2>3, FoundType, UpdateWithProjectType DEF SameProject
    <3>2. frame[h] \in Frame
      BY DEF TypeInv, TypeOK
    <3> HIDE DEF q
    <3>3. frame'[h] = [frame[h] EXCEPT !.pc = "cpUpdate", !.proj = q]
      BY <2>3 DEF q, TypeInv, TypeOK
    <3>4. frame'[h].proj = q
      BY <3>2, <3>3 DEF Frame
    <3>5. CopyFrom(h)
      BY <2>1, <3>1, <3>4 DEF CopyFrom, Resting
    <3>6. \A g \in Handlers \ {h} : frame'[g] = frame[g]
      BY <2>3 DEF TypeInv, TypeOK
    <3> QED
      BY <1>6, <3>5, <3>6 DEF LookupProject, At, StepOf, RecordFrom
  <2> QED
    BY <1>6, <2>2, <2>3 DEF LookupProject
<1>7. CASE SaveProject(h)
  <2>1. frame[h].pc \notin Resting \cup {"cpNamespace"}
    BY <1>7 DEF SaveProject, At, Resting
  <2>2. RecordFrom(h)
    <3>1. PICK i : db' = Save(db, i, p) \/ db' = db
      BY <1>7 DEF SaveProject
    <3> QED
      BY <2>1, <3>1, SaveStep DEF RecordFrom, SameProject
  <2> QED
    BY <1>7, <2>2, ReplyStep DEF SaveProject, At, StepOf, Resting
<1>8. CASE UpdateProject(h)
  <2>1. frame[h].pc = "cpUpdate" /\ p \in Project
    BY <1>8, <1>0 DEF UpdateProject, At, Resting
  <2> QED
    BY <1>8, <2>1, UpdateRecordStep DEF UpdateProject, At, StepOf, Resting
<1> QED
  BY <1>2, <1>3, <1>4, <1>5, <1>6, <1>7, <1>8 DEF CreateProjects

LEMMA AddRoleToProjectStep ==
  ASSUME TypeInv, NEW h \in Handlers, AddRoleToProject(h) PROVE StepOf(h)
<1>1. CASE ReadForRole(h)
  <2>1. PICK i \in issued, u \in Users, r \in RoleRequests :
          GetProject(h, i, [AtRest("arSave") EXCEPT !.id = i,
                                                    !.proj = AddRole(db[i], u, r)])
    BY <1>1 DEF ReadForRole
  <2> DEFINE q == AddRole(db[i], u, r)
             f == [AtRest("arSave") EXCEPT !.id = i, !.proj = q]
  <2>2. ASSUME Found(db, i)
        PROVE  q.Name = db[i].Name /\ db[i].RoleMappings \subseteq q.RoleMappings
    BY <2>2, FoundType DEF AddRole, Project
  <2>3. f.proj = q
    BY DEF AtRest
  <2>4. CopyFrom(h) /\ \A g \in Handlers \ {h} : frame'[g] = frame[g]
    BY <2>1, <2>2, <2>3, GetProjectStep
  <2> QED
    BY <1>1, <2>4 DEF ReadForRole, Ready, StepOf, RecordFrom
<1>2. CASE SaveRole(h)
  <2>1. frame[h].pc \notin Resting \cup {"cpNamespace"}
    BY <1>2 DEF SaveRole, At, Resting
  <2>2. RecordFrom(h)
    BY <1>2, <2>1, SaveStep DEF SaveRole, RecordFrom, SameProject
  <2> QED
    BY <1>2, <2>2, ReplyStep DEF SaveRole, At, StepOf, Resting
<1> QED
  BY <1>1, <1>2 DEF AddRoleToProject

LEMMA DeleteProjectStep ==
  ASSUME TypeInv, NEW h \in Handlers, DeleteProject(h) PROVE StepOf(h)
<1>1. CASE ReadForDelete(h)
  <2>1. PICK i \in issued :
          GetProject(h, i, [AtRest("dpNamespace") EXCEPT !.id = i, !.proj = db[i]])
    BY <1>1 DEF ReadForDelete
  <2> DEFINE f == [AtRest("dpNamespace") EXCEPT !.id = i, !.proj = db[i]]
  <2>2. f.proj = db[i]
    BY DEF AtRest
  <2>3. CopyFrom(h) /\ \A g \in Handlers \ {h} : frame'[g] = frame[g]
    BY <2>1, <2>2, GetProjectStep
  <2> QED
    BY <1>1, <2>3 DEF ReadForDelete, Ready, StepOf, RecordFrom
<1>2. CASE DeleteNamespace(h)
  BY <1>2, GotoStep DEF DeleteNamespace, At, StepOf, RecordFrom, Resting
<1>3. CASE DeleteRecord(h)
  <2>1. RecordFrom(h)
    BY <1>3 DEF DeleteRecord, Delete, RecordFrom, TypeInv, TypeOK
  <2> QED
    BY <1>3, <2>1, ReplyStep DEF DeleteRecord, At, StepOf, Resting
<1> QED
  BY <1>1, <1>2, <1>3 DEF DeleteProject

LEMMA DeleteDeploymentStep ==
  ASSUME TypeInv, NEW h \in Handlers, DeleteDeployment(h) PROVE StepOf(h)
<1>1. CASE ReadForUndeploy(h)
  <2>1. PICK i \in issued, d \in Deps :
          GetProject(h, i, IF FindDeployment(db[i], d)
                           THEN [AtRest("ddProxy") EXCEPT !.id = i, !.proj = db[i],
                                                          !.dep = d]
                           ELSE AtRest("bad"))
    BY <1>1 DEF ReadForUndeploy
  <2> DEFINE f == [AtRest("ddProxy") EXCEPT !.id = i, !.proj = db[i], !.dep = d]
             e == IF FindDeployment(db[i], d) THEN f ELSE AtRest("bad")
  <2>2. e.pc \in Resting \/ e.proj = db[i]
    BY DEF AtRest, Resting
  <2>3. CopyFrom(h) /\ \A g \in Handlers \ {h} : frame'[g] = frame[g]
    BY <2>1, <2>2, GetProjectStep
  <2> QED
    BY <1>1, <2>3 DEF ReadForUndeploy, Ready, StepOf, RecordFrom
<1>2. CASE ProxyDelete(h)
  BY <1>2, GotoStep DEF ProxyDelete, At, StepOf, RecordFrom, Resting
<1>3. CASE DeleteElastic(h)
  BY <1>3, GotoStep DEF DeleteElastic, At, StepOf, RecordFrom, Resting
<1>4. CASE DeleteKibana(h)
  BY <1>4, GotoStep DEF DeleteKibana, At, StepOf, RecordFrom, Resting
<1>5. CASE ForgetDeployment(h)
  <2> DEFINE p == DeletDeployment(frame[h].proj, Dep(h))
  <2>1. frame[h].pc = "ddSave"
    BY <1>5 DEF ForgetDeployment, At
  <2>2. frame[h].proj \in Project /\ Dep(h) \in Deps
    BY <2>1 DEF TypeInv, FramesOK, FrameOK, Resting, DeploymentPcs, Dep
  <2>3. SameProject(p, frame[h].proj)
    BY <2>2, DeletDeploymentType DEF SameProject
  <2>4. db' = Save(db, frame[h].id, p) \/ db' = db
    BY <1>5 DEF ForgetDeployment
  <2>5. RecordFrom(h)
    BY <2>1, <2>3, <2>4, SaveStep DEF RecordFrom, Resting
  <2> QED
    BY <1>5, <2>5, ReplyStep DEF ForgetDeployment, At, StepOf, Resting
<1> QED
  BY <1>1, <1>2, <1>3, <1>4, <1>5 DEF DeleteDeployment

LEMMA CreateDeploymentStep ==
  ASSUME TypeInv, NEW h \in Handlers, CreateDeployment(h) PROVE StepOf(h)
<1>0. frame[h] \in Frame
  BY DEF TypeInv, TypeOK
<1>1. CASE ReadForDeploy(h)
  <2>1. PICK i \in issued, d \in Deps, req \in DepRequests :
          GetProject(h, i, [pc |-> IF req.es # Nil THEN "cdSecret" ELSE AfterElastic(req),
                            id |-> i, proj |-> db[i], dep |-> d, req |-> req])
    BY <1>1 DEF ReadForDeploy
  <2>2. CopyFrom(h) /\ \A g \in Handlers \ {h} : frame'[g] = frame[g]
    BY <2>1, GetProjectStep
  <2> QED
    BY <1>1, <2>2 DEF ReadForDeploy, Ready, StepOf, RecordFrom
<1>2. CASE CreateSecret(h) \/ DeleteSecret(h) \/ RecreateSecret(h)
  <2>1. /\ up /\ UNCHANGED <<db, windows, up>>
        /\ frame[h].pc \in {"cdSecret", "cdSecretDelete", "cdSecretCreate"}
        /\ \E pc \in CreatePcs : Goto(h, pc)
    BY <1>2 DEF CreateSecret, DeleteSecret, RecreateSecret, At, CreatePcs
  <2> QED
    BY <2>1, GotoStep DEF StepOf, RecordFrom, Resting
<1>3. CASE DeployElastic(h)
  <2>1. CASE Goto(h, AfterElastic(Req(h)))
    BY <1>3, <2>1, GotoStep DEF DeployElastic, At, StepOf, RecordFrom, Resting
  <2>2. CASE \E req \in DepRequest :
               frame' = [frame EXCEPT ![h] =
                          [frame[h] EXCEPT !.req = req, !.pc = AfterElastic(Req(h))]]
    <3> DEFINE pc  == AfterElastic(Req(h))
    <3>1. PICK req \in DepRequest :
            frame' = [frame EXCEPT ![h] = [frame[h] EXCEPT !.req = req, !.pc = pc]]
      BY <2>2
    <3> HIDE DEF pc
    <3>2. frame'[h].proj = frame[h].proj
      BY <1>0, <3>1 DEF Frame, TypeInv, TypeOK
    <3>3. CopyFrom(h) /\ \A g \in Handlers \ {h} : frame'[g] = frame[g]
      BY <1>3, <3>1, <3>2
         DEF DeployElastic, At, CopyFrom, SameProject, Resting, TypeInv, TypeOK
    <3> QED
      BY <1>3, <3>3 DEF DeployElastic, At, StepOf, RecordFrom
  <2> QED
    BY <1>3, <2>1, <2>2, DeployElasticFrame
<1>4. CASE DeployKibana(h)
  <2>1. frame[h].pc = "cdKibana"
    BY <1>4 DEF DeployKibana, At
  <2>2. CASE Reply(h, "bad")
    BY <1>4, <2>2, ReplyStep DEF DeployKibana, At, StepOf, RecordFrom, Resting
  <2>3. CASE \E req \in DepRequest : frame' = [frame EXCEPT ![h] = KibanaFrame(h, req)]
    <3>0. PICK req \in DepRequest : frame' = [frame EXCEPT ![h] = KibanaFrame(h, req)]
      BY <2>3
    <3> DEFINE pc  == IF req.es # Nil THEN "cdProxy" ELSE "cdUpdate"
               q   == IF req.es # Nil THEN UpdateDeployment(frame[h].proj, Dep(h), req)
                                      ELSE frame[h].proj
    <3>1. frame[h].proj \in Project
      BY <2>1 DEF TypeInv, FramesOK, FrameOK, Resting
    <3>2. SameProject(q, frame[h].proj)
      BY <3>1 DEF SameProject, UpdateDeployment, Project
    <3>3. frame' = [frame EXCEPT ![h] =
                      [frame[h] EXCEPT !.req = req, !.proj = q, !.pc = pc]]
      BY <3>0 DEF KibanaFrame
    <3> HIDE DEF pc, q
    <3>4. frame'[h].proj = q
      BY <1>0, <3>3 DEF Frame, TypeInv, TypeOK
    <3>5. CopyFrom(h) /\ \A g \in Handlers \ {h} : frame'[g] = frame[g]
      BY <2>1, <3>2, <3>3, <3>4 DEF CopyFrom, Resting, TypeInv, TypeOK
    <3> QED
      BY <1>4, <3>5 DEF DeployKibana, At, StepOf, RecordFrom
  <2> QED
    BY <1>4, <2>2, <2>3, DeployKibanaFrame
<1>5. CASE CreateIngress(h) \/ DeleteIngress(h) \/ RecreateIngress(h)
  <2>1. /\ up /\ UNCHANGED <<db, windows, up>>
        /\ frame[h].pc \in ProxyPcs
        /\ \E pc \in CreatePcs : Goto(h, pc)
    BY <1>5 DEF CreateIngress, DeleteIngress, RecreateIngress, At, ProxyPcs, CreatePcs
  <2> QED
    BY <2>1, GotoStep DEF StepOf, RecordFrom, Resting, ProxyPcs
<1>6. CASE RecordDeployment(h)
  <2>1. frame[h].pc = "cdUpdate" /\ frame[h].proj \in Project
    BY <1>6 DEF RecordDeployment, At, TypeInv, FramesOK, FrameOK, Resting
  <2> QED
    BY <1>6, <2>1, UpdateRecordStep DEF RecordDeployment, At, StepOf, Resting
<1> QED
  BY <1>1, <1>2, <1>3, <1>4, <1>5, <1>6 DEF CreateDeployment

\* Every step is a handler's, or the environment's.
LEMMA StepCases ==
  ASSUME TypeInv, [Next]_vars
  PROVE  \/ \E h \in Handlers : StepOf(h)
         \/ \E n \in Names : FinalizeNamespace(n)
         \/ Crash \/ Restart \/ UNCHANGED vars
BY CreateProjectsStep, AddRoleToProjectStep, DeleteProjectStep, CreateDeploymentStep,
   DeleteDeploymentStep DEF Next

------------------------------------------------------------------------------
(***************************************************************************)
(* Monitored.                                                              *)
(***************************************************************************)

\* No request survives a crash.
DownAtRest == ~up => \A h \in Handlers : frame[h].pc \in Resting

MonitoredInv == TypeInv /\ Monitored /\ CopiesMonitored /\ DownAtRest

LEMMA InitMonitoredInv == Init => MonitoredInv
<1> SUFFICES ASSUME Init PROVE MonitoredInv
  OBVIOUS
<1>1. Stored(db) = {} /\ \A h \in Handlers : frame[h].pc \in Resting
  BY DEF Init, Stored, AtRest, Resting
<1> QED
  BY <1>1, InitTypeInv DEF MonitoredInv, Monitored, CopiesMonitored, CopyMonitored, DownAtRest

LEMMA HandlerMonitored ==
  ASSUME MonitoredInv, TypeInv', NEW h \in Handlers, StepOf(h)
  PROVE  Monitored' /\ CopiesMonitored' /\ DownAtRest'
<1>1. up /\ up' /\ windows \subseteq windows' /\ CopyFrom(h) /\ RecordFrom(h)
  BY DEF StepOf
<1>2. \A i \in Stored(db) : db[i].Name \in windows
  BY <1>1 DEF MonitoredInv, Monitored
<1>3. \A g \in Handlers : CopyMonitored(frame[g])
  BY <1>1 DEF MonitoredInv, CopiesMonitored
<1>4. ASSUME NEW i \in Stored(db') PROVE db'[i].Name \in windows'
  <2>1. i \in Ids /\ db'[i] # Nil
    BY <1>4 DEF TypeInv, TypeOK, Stored
  <2>2. CASE db'[i] \in {db[i], Nil}
    BY <1>1, <1>2, <2>1, <2>2 DEF Stored, MonitoredInv, TypeInv, TypeOK
  <2>3. CASE /\ frame[h].pc \notin Resting \cup {"cpNamespace"}
             /\ SameProject(db'[i], frame[h].proj)
    BY <1>1, <1>3, <2>3 DEF CopyMonitored, SameProject
  <2> QED
    BY <1>1, <2>1, <2>2, <2>3 DEF RecordFrom
<1>5. CopyMonitored(frame[h])'
  BY <1>1, <1>2, <1>3 DEF CopyFrom, CopyMonitored, SameProject
<1>6. \A g \in Handlers \ {h} : CopyMonitored(frame[g])'
  BY <1>1, <1>3 DEF StepOf, CopyMonitored
<1> QED
  BY <1>1, <1>4, <1>5, <1>6 DEF Monitored, CopiesMonitored, DownAtRest

LEMMA NextMonitoredInv == MonitoredInv /\ [Next]_vars => MonitoredInv'
<1> SUFFICES ASSUME MonitoredInv, [Next]_vars PROVE MonitoredInv'
  OBVIOUS
<1>1. TypeInv /\ TypeInv'
  BY NextTypeInv DEF MonitoredInv
<1>2. CASE \E h \in Handlers : StepOf(h)
  BY <1>1, <1>2, HandlerMonitored DEF MonitoredInv
<1>3. CASE \E n \in Names : FinalizeNamespace(n)
  BY <1>1, <1>3 DEF FinalizeNamespace, MonitoredInv, Monitored, CopiesMonitored,
                    CopyMonitored, DownAtRest
<1>4. CASE Crash
  <2>1. \A h \in Handlers : frame'[h].pc \in Resting
    BY <1>4 DEF Crash, AtRest, Resting
  <2> QED
    BY <1>1, <1>4, <2>1 DEF Crash, MonitoredInv, Monitored, CopiesMonitored, DownAtRest
<1>5. CASE Restart
  <2>1. Monitored'
    BY <1>5 DEF Restart, Monitored
  <2>2. CopiesMonitored' /\ DownAtRest'
    BY <1>5 DEF Restart, MonitoredInv, CopiesMonitored, CopyMonitored, DownAtRest
  <2> QED
    BY <1>1, <2>1, <2>2 DEF MonitoredInv
<1>6. CASE UNCHANGED vars
  BY <1>1, <1>6 DEF vars, MonitoredInv, Monitored, CopiesMonitored, CopyMonitored, DownAtRest
<1> QED
  BY <1>1, <1>2, <1>3, <1>4, <1>5, <1>6, StepCases

\* processPods never meets a stored project without a window, whichever
\* requests overlap, wherever copies of a project are kept while others edit,
\* rename or delete it, and across restarts.
THEOREM AlwaysMonitored == Spec => []Monitored
<1>1. MonitoredInv => Monitored
  BY DEF MonitoredInv
<1> QED
  BY <1>1, InitMonitoredInv, NextMonitoredInv, PTL DEF Spec

------------------------------------------------------------------------------
(***************************************************************************)
(* Governed.                                                               *)
(***************************************************************************)

GovernedInv == TypeInv /\ Governed /\ CopiesGoverned

LEMMA InitGovernedInv == Init => GovernedInv
<1> SUFFICES ASSUME Init PROVE GovernedInv
  OBVIOUS
<1>1. Stored(db) = {} /\ \A h \in Handlers : frame[h].pc \in Resting
  BY DEF Init, Stored, AtRest, Resting
<1> QED
  BY <1>1, InitTypeInv DEF GovernedInv, Governed, CopiesGoverned

LEMMA HandlerGoverned ==
  ASSUME GovernedInv, TypeInv', NEW h \in Handlers, StepOf(h)
  PROVE  Governed' /\ CopiesGoverned'
<1>1. ASSUME NEW i \in Stored(db') PROVE db'[i].RoleMappings # {}
  <2>1. i \in Ids /\ db'[i] # Nil
    BY <1>1 DEF TypeInv, TypeOK, Stored
  <2>2. CASE db'[i] \in {db[i], Nil}
    BY <2>1, <2>2 DEF Stored, Governed, GovernedInv, TypeInv, TypeOK
  <2>3. CASE frame[h].pc \notin Resting /\ SameProject(db'[i], frame[h].proj)
    BY <2>3 DEF GovernedInv, CopiesGoverned, SameProject
  <2> QED
    BY <2>1, <2>2, <2>3 DEF StepOf, RecordFrom
<1>2. frame'[h].pc \notin Resting => frame'[h].proj.RoleMappings # {}
  BY DEF GovernedInv, Governed, CopiesGoverned, StepOf, CopyFrom, SameProject
<1>3. \A g \in Handlers \ {h} :
        frame'[g].pc \notin Resting => frame'[g].proj.RoleMappings # {}
  BY DEF GovernedInv, CopiesGoverned, StepOf
<1> QED
  BY <1>1, <1>2, <1>3 DEF Governed, CopiesGoverned

LEMMA NextGovernedInv == GovernedInv /\ [Next]_vars => GovernedInv'
<1> SUFFICES ASSUME GovernedInv, [Next]_vars PROVE GovernedInv'
  OBVIOUS
<1>1. TypeInv /\ TypeInv'
  BY NextTypeInv DEF GovernedInv
<1>2. CASE \E h \in Handlers : StepOf(h)
  BY <1>1, <1>2, HandlerGoverned DEF GovernedInv
<1>3. CASE (\E n \in Names : FinalizeNamespace(n)) \/ Restart \/ UNCHANGED vars
  BY <1>1, <1>3 DEF FinalizeNamespace, Restart, vars, GovernedInv, Governed, CopiesGoverned
<1>4. CASE Crash
  <2>1. \A h \in Handlers : frame'[h].pc \in Resting
    BY <1>4 DEF Crash, AtRest, Resting
  <2> QED
    BY <1>1, <1>4, <2>1 DEF Crash, GovernedInv, Governed, CopiesGoverned
<1> QED
  BY <1>1, <1>2, <1>3, <1>4, StepCases

\* No sequence of forms, whatever roles they list, and no stale copy of a
\* project leaves a project that nobody has a role in.
THEOREM AlwaysGoverned == Spec => []Governed
<1>1. GovernedInv => Governed
  BY DEF GovernedInv
<1> QED
  BY <1>1, InitGovernedInv, NextGovernedInv, PTL DEF Spec

------------------------------------------------------------------------------
(***************************************************************************)
(* What the handlers make of the database.                                 *)
(*                                                                         *)
(* LocalStep and the writing actions say what a handler's step does to the *)
(* database and to the frames, without the cluster.  From them follow that *)
(* requests served one at a time implement Registry, that a deployment is  *)
(* only forgotten on request, and that a deleted project stays deleted.    *)
(***************************************************************************)
UndeployPcs == {"ddProxy", "ddElastic", "ddKibana", "ddSave"}
DeletePcs   == {"dpNamespace", "dpDelete"}
FormPcs     == {"cpNamespace", "cpQuota", "cpLimits", "cpLookup"}

Refused     == {"bad", "panicked"}

SetsFrame(h, f) == f \in Frame /\ frame' = [frame EXCEPT ![h] = f]

\* The two forms of a deployment name the same parts.
SameParts(r, s) == (s.es = Nil <=> r.es = Nil) /\ (s.kb = Nil <=> r.kb = Nil)

\* The order of createProjects up to its lookup.
Precedes(pc, next) ==
  \/ pc = "cpNamespace" /\ next = "cpQuota"
  \/ pc = "cpQuota" /\ next = "cpLimits"
  \/ pc = "cpLimits" /\ next = "cpLookup"

\* The order of createDeployment, where the copy stays as it is.
Follows(f, pc) ==
  \/ f.pc \in ElasticPcs /\ pc \in ElasticPcs \cup {AfterElastic(f.req)}
  \/ f.pc = "cdKibana" /\ pc = "cdUpdate" /\ f.req.es = Nil
  \/ f.pc \in ProxyPcs /\ pc \in ProxyPcs \cup {"cdUpdate"}

\* The request goes on with the copy it has.
GoesOn(f, g) ==
  /\ g.id = f.id /\ g.proj = f.proj /\ g.dep = f.dep
  /\ \/ Precedes(f.pc, g.pc)
     \/ \E pcs \in {DeletePcs, UndeployPcs} : f.pc \in pcs /\ g.pc \in pcs
     \/ /\ Follows(f, g.pc) /\ SameParts(f.req, g.req)
        /\ f.pc \in ProxyPcs => g.req = f.req

\* The id a form can have, and the name when it has one.
FormOf(id, name) ==
  \/ id = Nil
  \/ /\ id \in issued /\ "edit" \in Ops
     /\ "rename" \in Ops \/ (Found(db, id) /\ name = db[id].Name)

\* A form is submitted: f has its id, and no deployments.
Submits(f) ==
  /\ f.pc = "cpNamespace"
  /\ f.proj.Deployment = Nil
  /\ FormOf(f.id, f.proj.Name)

\* A record is read: f holds a copy of it.
Reads(f) ==
  /\ Found(db, f.id)
  /\ \/ /\ f.pc = "arSave" /\ "addRole" \in Ops
        /\ \E u \in Users, r \in Roles : f.proj = AddRole(db[f.id], u, r)
     \/ f.pc = "dpNamespace" /\ f.proj = db[f.id] /\ "deleteProject" \in Ops
     \/ f.pc = "ddProxy" /\ f.proj = db[f.id] /\ "undeploy" \in Ops
     \/ /\ f.req \in DepRequests /\ f.proj = db[f.id]
        /\ f.pc = IF f.req.es # Nil THEN "cdSecret" ELSE AfterElastic(f.req)

\* The form is merged into the record it was opened on, or there is none.
Looks(f, g) ==
  /\ f.pc = "cpLookup" /\ g.id = f.id
  /\ \/ g.pc = "cpSave" /\ g.proj = f.proj /\ ~Found(db, f.id)
     \/ g.pc = "cpUpdate" /\ Found(db, f.id) /\ g.proj = UpdateWithProject(db[f.id], f.proj)

\* The deployment enters the copy.
Enters(f, g) ==
  /\ f.pc = "cdKibana" /\ g.pc = "cdProxy"
  /\ g.id = f.id /\ g.dep = f.dep /\ SameParts(f.req, g.req)
  /\ g.req \in Deployment /\ g.proj = UpdateDeployment(f.proj, f.dep, g.req)

\* What the steps of h that leave the database alone do to its frame.
LocalStep(h) ==
  /\ UNCHANGED <<db, issued>>
  /\ \E f \in Frame :
       /\ SetsFrame(h, f)
       /\ \/ f.pc \in Refused
          \/ Submits(f)
          \/ Reads(f)
          \/ GoesOn(frame[h], f)
          \/ Looks(frame[h], f)
          \/ Enters(frame[h], f)

\* The steps of h that may write the database.
WriteStep(h) ==
  \/ SaveProject(h) \/ UpdateProject(h) \/ SaveRole(h) \/ DeleteRecord(h)
  \/ RecordDeployment(h) \/ ForgetDeployment(h)

LEMMA ReplyLocal ==
  ASSUME TypeInv, NEW h \in Handlers, NEW r \in Refused, Reply(h, r), UNCHANGED <<db, issued>>
  PROVE  LocalStep(h)
<1>1. AtRest(r) \in Frame /\ AtRest(r).pc \in Refused
  BY AtRestOK DEF AtRest, Refused, Resting
<1> QED
  BY <1>1 DEF Reply, LocalStep, SetsFrame

LEMMA GotoLocal ==
  ASSUME TypeInv, NEW h \in Handlers, NEW pc \in Pcs, Goto(h, pc), UNCHANGED <<db, issued>>,
         \/ Precedes(frame[h].pc, pc)
         \/ \E pcs \in {DeletePcs, UndeployPcs} : frame[h].pc \in pcs /\ pc \in pcs
         \/ Follows(frame[h], pc)
  PROVE  LocalStep(h)
<1> DEFINE f == [frame[h] EXCEPT !.pc = pc]
<1>1. frame[h] \in Frame
  BY DEF TypeInv, TypeOK
<1>3. f \in Frame
  BY <1>1 DEF Frame
<1>4. /\ f.id = frame[h].id /\ f.proj = frame[h].proj /\ f.dep = frame[h].dep
      /\ f.pc = pc /\ f.req = frame[h].req
  BY <1>1 DEF Frame
<1>5. GoesOn(frame[h], f)
  BY <1>4 DEF GoesOn, SameParts
<1>6. frame' = [frame EXCEPT ![h] = f]
  BY DEF Goto
<1> QED
  BY <1>3, <1>5, <1>6 DEF LocalStep, SetsFrame

LEMMA GetProjectLocal ==
  ASSUME TypeInv, NEW h \in Handlers, NEW id, NEW f,
         Found(db, id) => f \in Frame /\ (Reads(f) \/ f.pc \in Refused),
         GetProject(h, id, f), UNCHANGED <<db, issued>>
  PROVE  LocalStep(h)
<1>1. CASE Reply(h, "bad") \/ Reply(h, "panicked")
  BY <1>1, ReplyLocal DEF Refused
<1>2. CASE Found(db, id) /\ frame' = [frame EXCEPT ![h] = f]
  BY <1>2 DEF LocalStep, SetsFrame
<1> QED
  BY <1>1, <1>2 DEF GetProject

LEMMA SubmitLocal ==
  ASSUME TypeInv, NEW h \in Handlers, NEW id \in Ids \cup {Nil}, NEW p \in Project,
         p.Deployment = Nil, FormOf(id, p.Name), Submit(h, id, p)
  PROVE  LocalStep(h)
<1> DEFINE f == [AtRest("cpNamespace") EXCEPT !.id = id, !.proj = p]
<1>1. f \in Frame
  BY DEF AtRest, Frame, Pcs, ProjectPcs
<1>2. Submits(f)
  BY DEF Submits, AtRest
<1> QED
  BY <1>1, <1>2 DEF Submit, LocalStep, SetsFrame

LEMMA CreateProjectsLocal ==
  ASSUME TypeInv, NEW h \in Handlers, CreateProjects(h)
  PROVE  LocalStep(h) \/ WriteStep(h)
<1>0. frame[h] \in Frame /\ FrameOK(frame[h]) /\ issued \subseteq Ids
  BY DEF TypeInv, TypeOK, FramesOK
<1>1. ASSUME NEW n \in Names, NEW es \in RoleEntries, NEW u \in Users, NEW l \in LimitValues
      PROVE  /\ RequestedProject(n, es, u, l) \in Project
             /\ RequestedProject(n, es, u, l).Deployment = Nil
  BY RequestedProjectType DEF RequestedProject
<1>2. CASE SubmitNew(h)
  BY <1>1, <1>2, SubmitLocal DEF SubmitNew, FormOf
<1>3. CASE SubmitEdit(h)
  <2>1. PICK i \in issued, n \in Names, es \in RoleEntries, u \in Users, l \in LimitValues :
          /\ "edit" \in Ops /\ Submit(h, i, RequestedProject(n, es, u, l))
          /\ "rename" \in Ops \/ (Found(db, i) /\ n = db[i].Name)
    BY <1>3 DEF SubmitEdit
  <2>2. RequestedProject(n, es, u, l).Name = n
    BY DEF RequestedProject
  <2>3. FormOf(i, RequestedProject(n, es, u, l).Name)
    BY <2>1, <2>2 DEF FormOf
  <2> QED
    BY <1>0, <1>1, <2>1, <2>3, SubmitLocal
<1>4. CASE CreateNamespace(h) \/ CreateResourceQuota(h)
  <2>1. PICK pc \in Pcs : Goto(h, pc) /\ Precedes(frame[h].pc, pc)
    BY <1>4 DEF CreateNamespace, CreateResourceQuota, At, Precedes, Pcs, ProjectPcs
  <2>2. UNCHANGED <<db, issued>>
    BY <1>4 DEF CreateNamespace, CreateResourceQuota
  <2> QED
    BY <2>1, <2>2, GotoLocal
<1>5. CASE CreateLimitRange(h)
  <2>1. Precedes(frame[h].pc, "cpLookup") /\ "cpLookup" \in Pcs
    BY <1>5 DEF CreateLimitRange, At, Precedes, Pcs, ProjectPcs
  <2>2. CASE Goto(h, "cpLookup")
    BY <1>5, <2>1, <2>2, GotoLocal DEF CreateLimitRange
  <2>3. CASE Reply(h, "bad")
    BY <1>5, <2>3, ReplyLocal DEF CreateLimitRange, Refused
  <2> QED
    BY <1>5, <2>2, <2>3 DEF CreateLimitRange
<1>6. CASE LookupProject(h)
  <2>0. frame[h].pc = "cpLookup" /\ UNCHANGED <<db, issued>> /\ frame[h].proj \in Project
    BY <1>0, <1>6 DEF LookupProject, At, FrameOK, Resting
  <2>1. CASE ~Found(db, frame[h].id) /\ Goto(h, "cpSave")
    <3> DEFINE f == [frame[h] EXCEPT !.pc = "cpSave"]
    <3>1. f \in Frame
      BY <1>0 DEF Frame, Pcs, ProjectPcs
    <3>2. Looks(frame[h], f)
      BY <1>0, <2>0, <2>1 DEF Looks, Frame
    <3> QED
      BY <2>0, <2>1, <3>1, <3>2 DEF Goto, LocalStep, SetsFrame
  <2>2. CASE Reply(h, "panicked")
    BY <2>0, <2>2, ReplyLocal DEF Refused
  <2>3. CASE /\ Found(db, frame[h].id)
             /\ frame' = [frame EXCEPT ![h] =
                     [frame[h] EXCEPT !.pc = "cpUpdate",
                        !.proj = UpdateWithProject(db[frame[h].id], frame[h].proj)]]
    <3> DEFINE q == UpdateWithProject(db[frame[h].id], frame[h].proj)
               f == [frame[h] EXCEPT !.pc = "cpUpdate", !.proj = q]
    <3>1. q \in Project
      BY <2>0, <2>3, FoundType, UpdateWithProjectType
    <3> HIDE DEF q
    <3>2. f \in Frame /\ f.pc = "cpUpdate" /\ f.id = frame[h].id /\ f.proj = q
      BY <1>0, <3>1 DEF Frame, Pcs, ProjectPcs
    <3> HIDE DEF f
    <3>3. Looks(frame[h], f)
      BY <2>0, <2>3, <3>2 DEF Looks, q
    <3>4. frame' = [frame EXCEPT ![h] = f]
      BY <2>3 DEF f, q
    <3> QED
      BY <2>0, <3>2, <3>3, <3>4 DEF LocalStep, SetsFrame
  <2> QED
    BY <1>6, <2>1, <2>2, <2>3 DEF LookupProject
<1> QED
  BY <1>2, <1>3, <1>4, <1>5, <1>6 DEF CreateProjects, WriteStep

LEMMA ReadsLocal ==
  ASSUME TypeInv, NEW h \in Handlers, ReadForRole(h) \/ ReadForDelete(h) \/ ReadForUndeploy(h)
  PROVE  LocalStep(h)
<1>0. issued \subseteq Ids
  BY DEF TypeInv, TypeOK
<1>1. CASE ReadForRole(h)
  <2>1. PICK i \in issued, u \in Users, r \in RoleRequests :
          GetProject(h, i, [AtRest("arSave") EXCEPT !.id = i,
                                                    !.proj = AddRole(db[i], u, r)])
    BY <1>1 DEF ReadForRole
  <2> DEFINE q == AddRole(db[i], u, r)
             f == [AtRest("arSave") EXCEPT !.id = i, !.proj = q]
  <2>2. Found(db, i) => q \in Project
    BY FoundType, AddRoleType, ServerAssumption
  <2> HIDE DEF q
  <2>3. Found(db, i) => f \in Frame
    BY <1>0, <2>2 DEF AtRest, Frame, Pcs, ProjectPcs
  <2>4. f.pc = "arSave" /\ f.id = i /\ f.proj = q
    BY DEF AtRest
  <2>5. Found(db, i) => Reads(f)
    <3>1. r \in Roles
      BY ServerAssumption
    <3> QED
      BY <1>1, <2>4, <3>1 DEF Reads, ReadForRole, q
  <2>6. GetProject(h, i, f)
    BY <2>1 DEF q
  <2> QED
    BY <1>1, <2>3, <2>5, <2>6, GetProjectLocal DEF ReadForRole
<1>2. CASE ReadForDelete(h)
  <2>1. PICK i \in issued :
          GetProject(h, i, [AtRest("dpNamespace") EXCEPT !.id = i, !.proj = db[i]])
    BY <1>2 DEF ReadForDelete
  <2> DEFINE f == [AtRest("dpNamespace") EXCEPT !.id = i, !.proj = db[i]]
  <2>2. Found(db, i) => f \in Frame
    BY <1>0, FoundType DEF AtRest, Frame, Pcs, ProjectPcs
  <2>3. Found(db, i) => Reads(f)
    BY <1>2 DEF AtRest, Reads, ReadForDelete
  <2> QED
    BY <1>2, <2>1, <2>2, <2>3, GetProjectLocal DEF ReadForDelete
<1>3. CASE ReadForUndeploy(h)
  <2>1. PICK i \in issued, d \in Deps :
          GetProject(h, i, IF FindDeployment(db[i], d)
                           THEN [AtRest("ddProxy") EXCEPT !.id = i, !.proj = db[i],
                                                          !.dep = d]
                           ELSE AtRest("bad"))
    BY <1>3 DEF ReadForUndeploy
  <2> DEFINE f == [AtRest("ddProxy") EXCEPT !.id = i, !.proj = db[i], !.dep = d]
             e == IF FindDeployment(db[i], d) THEN f ELSE AtRest("bad")
  <2>2. Found(db, i) => f \in Frame
    BY <1>0, FoundType DEF AtRest, Frame, Pcs, DeploymentPcs
  <2>3. Found(db, i) => Reads(f)
    BY <1>3 DEF AtRest, Reads, ReadForUndeploy
  <2>4. AtRest("bad") \in Frame /\ AtRest("bad").pc \in Refused
    BY AtRestOK DEF AtRest, Refused, Resting
  <2>5. Found(db, i) => e \in Frame /\ (Reads(e) \/ e.pc \in Refused)
    BY <2>2, <2>3, <2>4
  <2> QED
    BY <1>3, <2>1, <2>5, GetProjectLocal DEF ReadForUndeploy
<1> QED
  BY <1>1, <1>2, <1>3

LEMMA UndeployLocal ==
  ASSUME TypeInv, NEW h \in Handlers,
         ProxyDelete(h) \/ DeleteElastic(h) \/ DeleteKibana(h) \/ DeleteNamespace(h)
  PROVE  LocalStep(h)
<1>1. PICK pcs \in {DeletePcs, UndeployPcs} :
        frame[h].pc \in pcs /\ \E pc \in pcs : Goto(h, pc) /\ pc \in Pcs
  BY DEF ProxyDelete, DeleteElastic, DeleteKibana, DeleteNamespace, At, DeletePcs, UndeployPcs,
         Pcs, ProjectPcs, DeploymentPcs
<1>2. UNCHANGED <<db, issued>>
  BY DEF ProxyDelete, DeleteElastic, DeleteKibana, DeleteNamespace
<1> QED
  BY <1>1, <1>2, GotoLocal

LEMMA CreateDeploymentLocal ==
  ASSUME TypeInv, NEW h \in Handlers, CreateDeployment(h)
  PROVE  LocalStep(h) \/ WriteStep(h)
<1>0. frame[h] \in Frame /\ issued \subseteq Ids
  BY DEF TypeInv, TypeOK
<1>1. CASE ReadForDeploy(h)
  <2>1. PICK i \in issued, d \in Deps, req \in DepRequests :
          GetProject(h, i, [pc |-> IF req.es # Nil THEN "cdSecret" ELSE AfterElastic(req),
                            id |-> i, proj |-> db[i], dep |-> d, req |-> req])
    BY <1>1 DEF ReadForDeploy
  <2> DEFINE pc == IF req.es # Nil THEN "cdSecret" ELSE AfterElastic(req)
             f  == [pc |-> pc, id |-> i, proj |-> db[i], dep |-> d, req |-> req]
  <2>2. pc \in Pcs
    BY DEF AfterElastic, Pcs, DeploymentPcs
  <2> HIDE DEF pc
  <2>3. Found(db, i) => f \in Frame
    BY <1>0, <2>2, FoundType, ServerAssumption DEF Frame
  <2>4. Found(db, i) => Reads(f)
    BY DEF Reads, pc
  <2>5. GetProject(h, i, f)
    BY <2>1 DEF pc
  <2> QED
    BY <1>1, <2>3, <2>4, <2>5, GetProjectLocal DEF ReadForDeploy
<1>2. CASE CreateSecret(h) \/ DeleteSecret(h) \/ RecreateSecret(h)
  <2>1. PICK pc \in ElasticPcs : Goto(h, pc) /\ pc \in Pcs
    BY <1>2 DEF CreateSecret, DeleteSecret, RecreateSecret, ElasticPcs, Pcs, DeploymentPcs
  <2>2. frame[h].pc \in ElasticPcs /\ UNCHANGED <<db, issued>>
    BY <1>2 DEF CreateSecret, DeleteSecret, RecreateSecret, At, ElasticPcs
  <2> QED
    BY <2>1, <2>2, GotoLocal DEF Follows
<1>6. CASE CreateIngress(h) \/ DeleteIngress(h) \/ RecreateIngress(h)
  <2>1. PICK pc \in ProxyPcs \cup {"cdUpdate"} : Goto(h, pc) /\ pc \in Pcs
    BY <1>6 DEF CreateIngress, DeleteIngress, RecreateIngress, ProxyPcs, Pcs, DeploymentPcs
  <2>2. frame[h].pc \in ProxyPcs /\ UNCHANGED <<db, issued>>
    BY <1>6 DEF CreateIngress, DeleteIngress, RecreateIngress, At, ProxyPcs
  <2> QED
    BY <2>1, <2>2, GotoLocal DEF Follows
<1>3. CASE DeployElastic(h)
  <2>0. /\ frame[h].pc \in ElasticPcs /\ frame[h].pc \in CreatePcs /\ UNCHANGED <<db, issued>>
        /\ AfterElastic(Req(h)) \in Pcs /\ Follows(frame[h], AfterElastic(Req(h)))
        /\ frame[h].pc \notin ProxyPcs /\ Req(h).es # Nil
    BY <1>3, DeployFrame, NilAssumption
       DEF DeployElastic, At, AfterElastic, ElasticPcs, CreatePcs, Pcs, DeploymentPcs,
           ProxyPcs, Follows, Req
  <2>1. CASE Goto(h, AfterElastic(Req(h)))
    BY <2>0, <2>1, GotoLocal
  <2>2. CASE \E req \in DepRequest :
               /\ req.kb = Req(h).kb /\ req.es \in ElasticseachConfig
               /\ frame' = [frame EXCEPT ![h] =
                              [frame[h] EXCEPT !.req = req, !.pc = AfterElastic(Req(h))]]
    <3> DEFINE pc == AfterElastic(Req(h))
    <3>1. PICK req \in DepRequest :
               /\ req.kb = Req(h).kb /\ req.es \in ElasticseachConfig
               /\ frame' = [frame EXCEPT ![h] =
                              [frame[h] EXCEPT !.req = req, !.pc = pc]]
      BY <2>2
    <3> DEFINE f == [frame[h] EXCEPT !.req = req, !.pc = pc]
    <3>2. SameParts(frame[h].req, req)
      BY <2>0, <3>1, NilAssumption DEF Req, SameParts
    <3> HIDE DEF pc
    <3>3. /\ f \in Frame /\ f.id = frame[h].id /\ f.proj = frame[h].proj
          /\ f.dep = frame[h].dep /\ f.pc = pc /\ f.req = req
      BY <1>0, <2>0 DEF Frame, pc
    <3> HIDE DEF f
    <3>4. GoesOn(frame[h], f)
      BY <2>0, <3>2, <3>3 DEF GoesOn, pc
    <3> QED
      BY <2>0, <3>1, <3>3, <3>4 DEF LocalStep, SetsFrame, f
  <2> QED
    BY <1>3, <2>1, <2>2, DeployElasticFrame
<1>4. CASE DeployKibana(h)
  <2>0. frame[h].pc = "cdKibana" /\ frame[h].pc \in CreatePcs /\ UNCHANGED <<db, issued>>
    BY <1>4 DEF DeployKibana, At, CreatePcs
  <2>1. /\ frame[h].proj \in Project /\ Dep(h) \in Deps /\ Dep(h) = frame[h].dep
        /\ Req(h) = frame[h].req /\ Req(h).kb \in KibanaConfig
    BY <2>0, DeployFrame DEF Dep, Req
  <2>2. CASE Reply(h, "bad")
    BY <2>0, <2>2, ReplyLocal DEF Refused
  <2>3. CASE \E req \in DepRequest :
               /\ req.es = Req(h).es /\ req.kb \in KibanaConfig
               /\ frame' = [frame EXCEPT ![h] = KibanaFrame(h, req)]
    <3>0. PICK req \in DepRequest :
               /\ req.es = Req(h).es /\ req.kb \in KibanaConfig
               /\ frame' = [frame EXCEPT ![h] = KibanaFrame(h, req)]
      BY <2>3
    <3> DEFINE f == KibanaFrame(h, req)
    <3>1. SameParts(frame[h].req, req) /\ (req.es # Nil => req \in Deployment)
      BY <2>1, <3>0, NilAssumption DEF DepRequest, Deployment, SameParts
    <3>2. CASE req.es # Nil
      <4> DEFINE q == UpdateDeployment(frame[h].proj, Dep(h), req)
      <4>1. q \in Project
        BY <2>1, <3>1, <3>2, UpdateDeploymentType
      <4>2. f = [frame[h] EXCEPT !.req = req, !.proj = q, !.pc = "cdProxy"]
        BY <3>2 DEF KibanaFrame
      <4> HIDE DEF q, f
      <4>3. /\ f \in Frame /\ f.id = frame[h].id /\ f.proj = q
            /\ f.dep = frame[h].dep /\ f.pc = "cdProxy" /\ f.req = req
        BY <1>0, <4>1, <4>2 DEF Frame, Pcs, DeploymentPcs
      <4>4. Enters(frame[h], f)
        BY <2>0, <2>1, <3>1, <3>2, <4>3 DEF Enters, q
      <4> QED
        BY <2>0, <3>0, <4>3, <4>4 DEF LocalStep, SetsFrame, f
    <3>3. CASE req.es = Nil
      <4>2. f = [frame[h] EXCEPT !.req = req, !.pc = "cdUpdate"]
        BY <1>0, <3>3 DEF KibanaFrame, Frame
      <4> HIDE DEF f
      <4>3. /\ f \in Frame /\ f.id = frame[h].id /\ f.proj = frame[h].proj
            /\ f.dep = frame[h].dep /\ f.pc = "cdUpdate" /\ f.req = req
        BY <1>0, <4>2 DEF Frame, Pcs, DeploymentPcs
      <4>4. GoesOn(frame[h], f)
        BY <2>0, <2>1, <3>0, <3>1, <3>3, <4>3 DEF GoesOn, Follows, ProxyPcs
      <4> QED
        BY <2>0, <3>0, <4>3, <4>4 DEF LocalStep, SetsFrame, f
    <3> QED
      BY <3>2, <3>3
  <2> QED
    BY <1>4, <2>2, <2>3, DeployKibanaFrame
<1>5. CASE RecordDeployment(h)
  BY <1>5 DEF WriteStep
<1> QED
  BY <1>1, <1>2, <1>3, <1>4, <1>5, <1>6 DEF CreateDeployment

\* Every step is one of these, or the environment's.
LEMMA HandlerSteps ==
  ASSUME TypeInv, [Next]_vars
  PROVE  \/ \E h \in Handlers : LocalStep(h) \/ WriteStep(h)
         \/ UNCHANGED <<db, issued, frame>>
         \/ Crash
<1>1. CASE \E h \in Handlers : CreateProjects(h) \/ CreateDeployment(h)
  BY <1>1, CreateProjectsLocal, CreateDeploymentLocal
<1>2. CASE \E h \in Handlers : AddRoleToProject(h) \/ DeleteProject(h)
  BY <1>2, ReadsLocal, UndeployLocal DEF AddRoleToProject, DeleteProject, WriteStep
<1>3. CASE \E h \in Handlers : DeleteDeployment(h)
  BY <1>3, ReadsLocal, UndeployLocal DEF DeleteDeployment, WriteStep
<1>4. CASE (\E n \in Names : FinalizeNamespace(n)) \/ Restart \/ UNCHANGED vars
  BY <1>4 DEF FinalizeNamespace, Restart, vars
<1> QED
  BY <1>1, <1>2, <1>3, <1>4 DEF Next

------------------------------------------------------------------------------
(***************************************************************************)
(* Requests served one at a time: the copy a handler holds is still that   *)
(* of the record it was read from, but for what the request changes.       *)
(***************************************************************************)

OneAtATime == \A g, h \in Handlers : g = h

\* q is p but for deployment d, and has d if p has it.
DiffersAt(p, q, d) ==
  /\ q = [p EXCEPT !.Deployment = q.Deployment]
  /\ \A e \in Deps \ {d} : DeploymentsOf(q)[e] = DeploymentsOf(p)[e]
  /\ DeploymentsOf(p)[d] # Nil => DeploymentsOf(q)[d] # Nil

FrameSerial(f) ==
  /\ f.pc \in FormPcs \cup {"cpSave"} => f.proj.Deployment = Nil
  /\ f.pc = "cpSave"   => ~Found(db, f.id)
  /\ f.pc = "cpUpdate" => /\ Found(db, f.id)
                          /\ f.proj.Deployment = db[f.id].Deployment
  /\ f.pc = "arSave"   => /\ Found(db, f.id)
                          /\ \E u \in Users, r \in Roles : f.proj = AddRole(db[f.id], u, r)
  /\ f.pc \in UndeployPcs => Found(db, f.id) /\ f.proj = db[f.id]
  /\ f.pc \in CreatePcs   => Found(db, f.id) /\ DiffersAt(db[f.id], f.proj, f.dep)

StoredIssued == \A i \in Ids : Found(db, i) => i \in issued

SerialInv == TypeInv /\ StoredIssued /\ \A h \in Handlers : FrameSerial(frame[h])

LEMMA DiffersAtSelf ==
  ASSUME NEW p \in Project, NEW d PROVE DiffersAt(p, p, d)
BY DEF DiffersAt, Project

LEMMA UpdateDeploymentDiffers ==
  ASSUME NEW o \in Project, NEW p \in Project, NEW d \in Deps, NEW c \in Deployment,
         DiffersAt(o, p, d)
  PROVE  DiffersAt(o, UpdateDeployment(p, d, c), d)
<1> DEFINE old  == DeploymentsOf(p)
           part == IF old[d] = Nil THEN c ELSE UpdateDeploymentParts(old[d], c)
           list == [old EXCEPT ![d] = part]
           q    == UpdateDeployment(p, d, c)
<1>1. old \in DeploymentList
  BY DeploymentsOfType
<1>2. part \in Deployment
  BY <1>1 DEF UpdateDeploymentParts, Deployment, DeploymentList
<1>3. list \in DeploymentList /\ list[d] # Nil /\ \A e \in Deps \ {d} : list[e] = old[e]
  BY <1>1, <1>2, NilAssumption DEF DeploymentList
<1>4. q = [p EXCEPT !.Deployment = list]
  BY DEF UpdateDeployment
<1> HIDE DEF list, q
<1>5. q.Deployment = list /\ DeploymentsOf(q) = list
  BY <1>3, <1>4, NilAssumption DEF Project, DeploymentsOf
<1>6. q = [o EXCEPT !.Deployment = q.Deployment]
  BY <1>4, <1>5 DEF DiffersAt, Project
<1>7. \A e \in Deps \ {d} : DeploymentsOf(q)[e] = DeploymentsOf(o)[e]
  BY <1>3, <1>5 DEF DiffersAt
<1>8. DeploymentsOf(q)[d] # Nil
  BY <1>3, <1>5
<1> QED
  BY <1>6, <1>7, <1>8 DEF DiffersAt, q

LEMMA DeletDeploymentDiffers ==
  ASSUME NEW p \in Project, NEW d \in Deps
  PROVE  /\ DeletDeployment(p, d) = [p EXCEPT !.Deployment = DeletDeployment(p, d).Deployment]
         /\ \A e \in Deps \ {d} :
              DeploymentsOf(DeletDeployment(p, d))[e] = DeploymentsOf(p)[e]
<1> DEFINE list == [DeploymentsOf(p) EXCEPT ![d] = Nil]
           q    == DeletDeployment(p, d)
<1>1. list \in DeploymentList /\ \A e \in Deps \ {d} : list[e] = DeploymentsOf(p)[e]
  BY DeploymentsOfType DEF DeploymentList
<1>2. q = [p EXCEPT !.Deployment = list]
  BY DEF DeletDeployment
<1> HIDE DEF list, q
<1>3. q.Deployment = list /\ DeploymentsOf(q) = list
  BY <1>1, <1>2, NilAssumption DEF Project, DeploymentsOf
<1>4. q = [p EXCEPT !.Deployment = q.Deployment]
  BY <1>2, <1>3
<1>5. \A e \in Deps \ {d} : DeploymentsOf(q)[e] = DeploymentsOf(p)[e]
  BY <1>1, <1>3
<1> QED
  BY <1>4, <1>5 DEF q

\* An update leaves the deployments alone when the copy has those of the record.
LEMMA NonZeroFieldsDiffers ==
  ASSUME NEW o \in Project, NEW p \in Project
  PROVE  /\ p.Deployment = o.Deployment => NonZeroFields(o, p).Deployment = o.Deployment
         /\ \A d : DiffersAt(o, p, d) => DiffersAt(o, NonZeroFields(o, p), d)
<1> DEFINE list == IF p.Deployment = Nil THEN o.Deployment ELSE p.Deployment
           q    == NonZeroFields(o, p)
<1>1. q = [p EXCEPT !.Deployment = list]
  BY DEF NonZeroFields
<1> HIDE DEF q
<1>2. q.Deployment = list
  BY <1>1 DEF Project
<1>3. ASSUME NEW d, DiffersAt(o, p, d) PROVE DiffersAt(o, q, d)
  <2>1. q = [o EXCEPT !.Deployment = q.Deployment]
    BY <1>1, <1>2, <1>3 DEF DiffersAt, Project
  <2>2. CASE p.Deployment = Nil
    <3>1. q = o
      BY <1>2, <2>1, <2>2 DEF Project
    <3> QED
      BY <3>1, DiffersAtSelf
  <2>3. CASE p.Deployment # Nil
    <3>1. DeploymentsOf(q) = DeploymentsOf(p)
      BY <1>2, <2>3 DEF DeploymentsOf
    <3> QED
      BY <1>3, <2>1, <3>1 DEF DiffersAt
  <2> QED
    BY <2>2, <2>3
<1> QED
  BY <1>2, <1>3 DEF q

LEMMA MergedDeployment ==
  ASSUME NEW old \in Project, NEW new \in Project
  PROVE  UpdateWithProject(old, new).Deployment = old.Deployment
BY DEF UpdateWithProject, Project

------------------------------------------------------------------------------

LEMMA InitSerialInv == Init => SerialInv
<1> SUFFICES ASSUME Init PROVE SerialInv
  OBVIOUS
<1>1. StoredIssued
  BY DEF Init, StoredIssued, Found, Stored
<1>2. \A h \in Handlers : frame[h].pc = "idle"
  BY DEF Init, AtRest
<1>3. \A h \in Handlers : FrameSerial(frame[h])
  BY <1>2 DEF FrameSerial, FormPcs, UndeployPcs, CreatePcs
<1> QED
  BY <1>1, <1>3, InitTypeInv DEF SerialInv

\* A request at rest asks nothing of the database.
LEMMA RestSerial ==
  ASSUME NEW f, f.pc \in Resting PROVE FrameSerial(f) /\ FrameSerial(f)'
BY DEF Resting, FrameSerial, FormPcs, UndeployPcs, CreatePcs

LEMMA LocalSerial ==
  ASSUME OneAtATime, SerialInv, NEW h \in Handlers, LocalStep(h)
  PROVE  StoredIssued' /\ \A g \in Handlers : FrameSerial(frame[g])'
<1>0. /\ TypeInv /\ StoredIssued /\ FrameSerial(frame[h])
      /\ frame[h] \in Frame /\ FrameOK(frame[h]) /\ UNCHANGED <<db, issued>>
  BY DEF SerialInv, TypeInv, TypeOK, FramesOK, LocalStep
<1>1. PICK f \in Frame :
        /\ frame' = [frame EXCEPT ![h] = f]
        /\ \/ f.pc \in Refused \/ Submits(f) \/ Reads(f)
           \/ GoesOn(frame[h], f) \/ Looks(frame[h], f) \/ Enters(frame[h], f)
  BY DEF LocalStep, SetsFrame
<1>2. FrameSerial(f)
  <2>1. CASE f.pc \in Refused
    BY <2>1, RestSerial DEF Refused, Resting
  <2>2. CASE Submits(f)
    BY <2>2 DEF Submits, FrameSerial, FormPcs, UndeployPcs, CreatePcs
  <2>3. CASE Reads(f)
    <3>1. DiffersAt(db[f.id], db[f.id], f.dep)
      BY <1>0, <2>3, FoundType, DiffersAtSelf DEF Reads
    <3> QED
      BY <2>3, <3>1 DEF Reads, AfterElastic, FrameSerial, FormPcs, UndeployPcs, CreatePcs
  <2>4. CASE GoesOn(frame[h], f)
    BY <1>0, <2>4 DEF GoesOn, Precedes, Follows, AfterElastic, FrameSerial, FormPcs, DeletePcs,
                      UndeployPcs, CreatePcs, ElasticPcs, ProxyPcs
  <2>5. CASE Looks(frame[h], f)
    <3>1. frame[h].proj \in Project /\ frame[h].proj.Deployment = Nil
      BY <1>0, <2>5 DEF Looks, FrameOK, FrameSerial, Resting, FormPcs
    <3>2. Found(db, f.id) => UpdateWithProject(db[f.id], frame[h].proj).Deployment
                              = db[f.id].Deployment
      BY <1>0, <3>1, FoundType, MergedDeployment
    <3> QED
      BY <2>5, <3>1, <3>2 DEF Looks, FrameSerial, FormPcs, UndeployPcs, CreatePcs
  <2>6. CASE Enters(frame[h], f)
    <3>1. /\ frame[h].proj \in Project /\ frame[h].dep \in Deps
          /\ Found(db, f.id) /\ DiffersAt(db[f.id], frame[h].proj, f.dep)
      BY <1>0, <2>6, DeployFrame DEF Enters, FrameSerial, CreatePcs, Dep
    <3>2. DiffersAt(db[f.id], f.proj, f.dep)
      BY <1>0, <2>6, <3>1, FoundType, UpdateDeploymentDiffers DEF Enters
    <3> QED
      BY <2>6, <3>1, <3>2 DEF Enters, FrameSerial, FormPcs, UndeployPcs, CreatePcs
  <2> QED
    BY <1>1, <2>1, <2>2, <2>3, <2>4, <2>5, <2>6
<1>3. \A g \in Handlers : frame'[g] = f
  BY <1>1 DEF OneAtATime, SerialInv, TypeInv, TypeOK
<1>4. \A g \in Handlers : FrameSerial(frame[g])'
  BY <1>0, <1>2, <1>3 DEF FrameSerial
<1> QED
  BY <1>0, <1>4 DEF StoredIssued

\* What each of the writes does, and that it ends the request.
LEMMA WriteEnds ==
  ASSUME TypeInv, NEW h \in Handlers, WriteStep(h)
  PROVE  /\ \E r \in Resting : Reply(h, r)
         /\ frame'[h].pc \in Resting
<1>1. \E r \in Resting : Reply(h, r)
  BY DEF WriteStep, SaveProject, UpdateProject, SaveRole, DeleteRecord, RecordDeployment,
         ForgetDeployment, UpdateRecord, Resting
<1>2. PICK r \in Resting : frame' = [frame EXCEPT ![h] = AtRest(r)]
  BY <1>1 DEF Reply
<1>3. AtRest(r).pc \in Resting
  BY DEF AtRest
<1>4. frame'[h] = AtRest(r)
  BY <1>2 DEF TypeInv, TypeOK
<1> QED
  BY <1>1, <1>3, <1>4

\* The writes, by the record they leave under one id.
LEMMA WriteCases ==
  ASSUME SerialInv, NEW h \in Handlers, WriteStep(h)
  PROVE  \/ UNCHANGED <<db, issued>>
         \/ \E i \in Ids :
              /\ ~Found(db, i) /\ issued' = issued \cup {i}
              /\ frame[h].proj \in Project /\ frame[h].proj.Deployment = Nil
              /\ SaveOk(db, i, frame[h].proj) /\ db' = Save(db, i, frame[h].proj)
         \/ \E i \in Ids, q \in Project :
              /\ i = frame[h].id /\ Found(db, i) /\ issued' = issued
              /\ SaveOk(db, i, q) /\ db' = Save(db, i, q)
              /\ \/ frame[h].pc = "cpUpdate" /\ q.Deployment = db[i].Deployment
                 \/ /\ frame[h].pc = "arSave"
                    /\ \E u \in Users, r \in Roles : q = AddRole(db[i], u, r)
                 \/ /\ frame[h].pc = "cdUpdate" /\ frame[h].dep \in Deps
                    /\ DiffersAt(db[i], q, frame[h].dep)
                 \/ /\ frame[h].pc = "ddSave" /\ frame[h].dep \in Deps
                    /\ q = DeletDeployment(db[i], frame[h].dep)
         \/ \E i \in Ids :
              /\ i = frame[h].id /\ frame[h].pc = "dpDelete"
              /\ Found(db, i) /\ issued' = issued /\ db' = Delete(db, i)
<1> DEFINE i == frame[h].id
           p == frame[h].proj
<1>0. /\ TypeInv /\ StoredIssued /\ FrameSerial(frame[h])
      /\ frame[h] \in Frame /\ FrameOK(frame[h])
  BY DEF SerialInv, TypeInv, TypeOK, FramesOK
<1>1. CASE SaveProject(h)
  <2>1. frame[h].pc = "cpSave" /\ p \in Project
    BY <1>0, <1>1 DEF SaveProject, At, FrameOK, Resting
  <2>2. p.Deployment = Nil /\ ~Found(db, i)
    BY <1>0, <2>1 DEF FrameSerial
  <2>3. PICK j \in (IF i = Nil THEN Ids \ issued ELSE {i}) :
          \/ SaveOk(db, j, p) /\ db' = Save(db, j, p) /\ issued' = issued \cup {j}
          \/ UNCHANGED <<db, issued>>
    BY <1>1 DEF SaveProject
  <2>4. j \in Ids /\ ~Found(db, j)
    BY <1>0, <2>2, <2>3 DEF Frame, StoredIssued
  <2> QED
    BY <2>1, <2>2, <2>3, <2>4
<1>2. CASE UpdateProject(h) \/ RecordDeployment(h)
  <2> DEFINE q == NonZeroFields(db[i], p)
  <2>1. /\ frame[h].pc \in {"cpUpdate", "cdUpdate"} /\ p \in Project /\ issued' = issued
        /\ UpdateRecord(h)
    BY <1>0, <1>2 DEF UpdateProject, RecordDeployment, At, FrameOK, Resting
  <2>2. Found(db, i) /\ i \in Ids /\ db[i] \in Project
    BY <1>0, <2>1, FoundType DEF FrameSerial, CreatePcs
  <2>3. q \in Project /\ q.Name = p.Name
    BY <2>1, <2>2, NonZeroFieldsType
  <2>4. \/ UNCHANGED <<db, issued>>
        \/ SaveOk(db, i, q) /\ db' = Save(db, i, q)
    BY <2>1, <2>3 DEF UpdateRecord, UpdateOk, SaveOk
  <2>5. CASE frame[h].pc = "cpUpdate"
    <3>1. q.Deployment = db[i].Deployment
      BY <1>0, <2>1, <2>2, <2>5, NonZeroFieldsDiffers DEF FrameSerial
    <3> HIDE DEF q
    <3> QED
      BY <2>1, <2>2, <2>3, <2>4, <2>5, <3>1
  <2>6. CASE frame[h].pc = "cdUpdate"
    <3>1. DiffersAt(db[i], q, frame[h].dep) /\ frame[h].dep \in Deps
      BY <1>0, <2>1, <2>2, <2>6, NonZeroFieldsDiffers
         DEF FrameSerial, CreatePcs, FrameOK, DeploymentPcs
    <3> HIDE DEF q
    <3> QED
      BY <2>1, <2>2, <2>3, <2>4, <2>6, <3>1
  <2> QED
    BY <2>1, <2>5, <2>6
<1>3. CASE SaveRole(h)
  <2>1. /\ frame[h].pc = "arSave" /\ p \in Project /\ issued' = issued
        /\ (SaveOk(db, i, p) /\ db' = Save(db, i, p)) \/ UNCHANGED db
    BY <1>0, <1>3 DEF SaveRole, At, FrameOK, Resting
  <2>2. /\ Found(db, i) /\ i \in Ids
        /\ \E u \in Users, r \in Roles : p = AddRole(db[i], u, r)
    BY <1>0, <2>1, FoundType DEF FrameSerial
  <2> QED
    BY <2>1, <2>2
<1>4. CASE DeleteRecord(h)
  <2>1. /\ frame[h].pc = "dpDelete" /\ issued' = issued
        /\ (Found(db, i) /\ db' = Delete(db, i)) \/ UNCHANGED db
    BY <1>4 DEF DeleteRecord, At, DeleteOk
  <2> QED
    BY <1>0, <2>1, FoundType
<1>5. CASE ForgetDeployment(h)
  <2> DEFINE q == DeletDeployment(p, frame[h].dep)
  <2>1. /\ frame[h].pc = "ddSave" /\ p \in Project /\ issued' = issued
        /\ frame[h].dep \in Deps
        /\ (SaveOk(db, i, q) /\ db' = Save(db, i, q)) \/ UNCHANGED db
    BY <1>0, <1>5 DEF ForgetDeployment, At, FrameOK, Resting, DeploymentPcs, Dep
  <2>2. Found(db, i) /\ i \in Ids /\ p = db[i]
    BY <1>0, <2>1, FoundType DEF FrameSerial, UndeployPcs
  <2>3. q \in Project
    BY <2>1, DeletDeploymentType
  <2> HIDE DEF q
  <2>4. q = DeletDeployment(db[i], frame[h].dep)
    BY <2>2 DEF q
  <2> QED
    BY <2>1, <2>2, <2>3, <2>4
<1> QED
  BY <1>1, <1>2, <1>3, <1>4, <1>5 DEF WriteStep

LEMMA NextSerialInv == ASSUME OneAtATime PROVE SerialInv /\ [Next]_vars => SerialInv'
<1> SUFFICES ASSUME SerialInv, [Next]_vars PROVE SerialInv'
  OBVIOUS
<1>0. TypeInv /\ TypeInv' /\ db \in [Ids -> Project \cup {Nil}]
  BY NextTypeInv DEF SerialInv, TypeInv, TypeOK
<1>1. CASE \E h \in Handlers : LocalStep(h)
  BY <1>0, <1>1, LocalSerial DEF SerialInv
<1>2. ASSUME NEW h \in Handlers, WriteStep(h) PROVE SerialInv'
  <2>1. \A g \in Handlers : frame'[g].pc \in Resting
    BY <1>0, <1>2, WriteEnds DEF OneAtATime
  <2>2. \A g \in Handlers : FrameSerial(frame[g])'
    BY <2>1, RestSerial
  <2>3. StoredIssued'
    BY <1>0, <1>2, WriteCases DEF SerialInv, StoredIssued, Save, Delete, Found, Stored
  <2> QED
    BY <1>0, <2>2, <2>3 DEF SerialInv
<1>3. CASE UNCHANGED <<db, issued, frame>>
  BY <1>0, <1>3 DEF SerialInv, StoredIssued, FrameSerial
<1>4. CASE Crash
  <2>1. \A g \in Handlers : frame'[g].pc \in Resting
    BY <1>4 DEF Crash, AtRest, Resting
  <2>2. \A g \in Handlers : FrameSerial(frame[g])'
    BY <2>1, RestSerial
  <2> QED
    BY <1>0, <1>4, <2>2 DEF Crash, SerialInv, StoredIssued
<1> QED
  BY <1>0, <1>1, <1>2, <1>3, <1>4, HandlerSteps

------------------------------------------------------------------------------
(***************************************************************************)
(* The handlers implement Registry.                                        *)
(***************************************************************************)

\* Registry, instantiated here, and the server read the table in the same way.
LEMMA RegDefs ==
  ASSUME NEW t, NEW i, NEW p, NEW n, NEW u, NEW r
  PROVE  /\ Reg!Found(t, i) <=> Found(t, i)
         /\ Reg!NameFree(t, i, n) <=> NameFree(t, i, n)
         /\ Reg!DeploymentsOf(p) = DeploymentsOf(p)
         /\ Reg!Recorded(p) = Recorded(p)
         /\ Reg!AddRole(p, u, r) = AddRole(p, u, r)
         /\ Reg!Roles = Roles
BY DEF Reg!Found, Reg!Stored, Found, Stored, Reg!NameFree, NameFree, Reg!DeploymentsOf,
       DeploymentsOf, Reg!NoDeployments, NoDeployments, Reg!Recorded, Recorded,
       Reg!AddRole, AddRole, Reg!Roles, Roles

LEMMA RegInit == Init => Reg!Init
BY DEF Init, Reg!Init

LEMMA WriteOfRow ==
  ASSUME TypeInv, NEW i \in Ids, NEW q \in Project, SaveOk(db, i, q), db' = Save(db, i, q)
  PROVE  Reg!Write(i) /\ db'[i] = q
<1>1. db'[i] = q /\ q # Nil
  BY NilAssumption DEF Save, TypeInv, TypeOK
<1>2. NameFree(db, i, db'[i].Name)
  BY <1>1 DEF SaveOk
<1>3. db' = [db EXCEPT ![i] = db'[i]]
  BY <1>1 DEF Save
<1> QED
  BY <1>1, <1>2, <1>3, RegDefs DEF Reg!Write

LEMMA WriteImplements ==
  ASSUME SerialInv, NEW h \in Handlers, WriteStep(h) PROVE [Reg!Next]_db
<1>0. TypeInv
  BY DEF SerialInv
<1>1. CASE UNCHANGED <<db, issued>>
  BY <1>1
<1>2. ASSUME NEW i \in Ids, ~Found(db, i), NEW p \in Project, p.Deployment = Nil,
             SaveOk(db, i, p), db' = Save(db, i, p)
      PROVE  [Reg!Next]_db
  <2>1. Reg!Write(i) /\ db'[i] = p
    BY <1>0, <1>2, WriteOfRow
  <2>2. Recorded(p) = {}
    BY <1>2 DEF Recorded, DeploymentsOf, NoDeployments
  <2>3. Reg!Create(i)
    BY <1>2, <2>1, <2>2, RegDefs DEF Reg!Create
  <2> QED
    BY <2>3 DEF Reg!Next
<1>3. ASSUME NEW i \in Ids, NEW q \in Project, Found(db, i), SaveOk(db, i, q),
             db' = Save(db, i, q)
      PROVE  /\ q.Deployment = db[i].Deployment => [Reg!Next]_db
             /\ \A u \in Users, r \in Roles : q = AddRole(db[i], u, r) => [Reg!Next]_db
             /\ \A d \in Deps :
                  /\ q = [db[i] EXCEPT !.Deployment = q.Deployment]
                  /\ \A e \in Deps \ {d} : DeploymentsOf(q)[e] = DeploymentsOf(db[i])[e]
                  => [Reg!Next]_db
  <2>1. Reg!Write(i) /\ db'[i] = q /\ Reg!Found(db, i)
    BY <1>0, <1>3, WriteOfRow, RegDefs
  <2>2. q.Deployment = db[i].Deployment => [Reg!Next]_db
    <3>1. q.Deployment = db[i].Deployment => Reg!Edit(i)
      BY <2>1 DEF Reg!Edit
    <3> QED
      BY <3>1 DEF Reg!Next
  <2>3. ASSUME NEW u \in Users, NEW r \in Roles, q = AddRole(db[i], u, r) PROVE [Reg!Next]_db
    <3>1. Reg!GrantRole(i, u, r) /\ r \in Reg!Roles
      BY <2>1, <2>3, RegDefs DEF Reg!GrantRole
    <3> QED
      BY <3>1 DEF Reg!Next
  <2>4. ASSUME NEW d \in Deps, q = [db[i] EXCEPT !.Deployment = q.Deployment],
               \A e \in Deps \ {d} : DeploymentsOf(q)[e] = DeploymentsOf(db[i])[e]
        PROVE  [Reg!Next]_db
    <3>1. Reg!ChangeDeployment(i, d)
      BY <2>1, <2>4, RegDefs DEF Reg!ChangeDeployment
    <3> QED
      BY <3>1 DEF Reg!Next
  <2> QED
    BY <2>2, <2>3, <2>4
<1>4. ASSUME NEW i \in Ids, Found(db, i), db' = Delete(db, i) PROVE [Reg!Next]_db
  <2>1. Reg!Remove(i)
    BY <1>4, RegDefs DEF Reg!Remove, Delete
  <2> QED
    BY <2>1 DEF Reg!Next
<1>5. ASSUME NEW i \in Ids, NEW q \in Project, Found(db, i), SaveOk(db, i, q),
             db' = Save(db, i, q), NEW d \in Deps,
             DiffersAt(db[i], q, d) \/ q = DeletDeployment(db[i], d)
      PROVE  [Reg!Next]_db
  <2>1. /\ q = [db[i] EXCEPT !.Deployment = q.Deployment]
        /\ \A e \in Deps \ {d} : DeploymentsOf(q)[e] = DeploymentsOf(db[i])[e]
    BY <1>0, <1>5, FoundType, DeletDeploymentDiffers DEF DiffersAt
  <2> QED
    BY <1>3, <1>5, <2>1
<1> QED
  BY <1>1, <1>2, <1>3, <1>4, <1>5, WriteCases

\* Whatever the cluster refuses and wherever the process dies, the requests of
\* one client at a time change the projects as Registry does: each one once or
\* not at all, on the record as it is then, and nothing that is not its own.
THEOREM SerialRequestsAreAtomic == ASSUME OneAtATime PROVE Spec => AtomicRequests
<1>1. SerialInv /\ [Next]_vars => [Reg!Next]_db
  <2> SUFFICES ASSUME SerialInv, [Next]_vars PROVE [Reg!Next]_db
    OBVIOUS
  <2>1. \/ \E h \in Handlers : WriteStep(h)
        \/ UNCHANGED db
    BY HandlerSteps DEF SerialInv, LocalStep, Crash
  <2> QED
    BY <2>1, WriteImplements
<1> QED
  BY <1>1, RegInit, InitSerialInv, NextSerialInv, PTL DEF Spec, AtomicRequests, Reg!Spec

------------------------------------------------------------------------------
(***************************************************************************)
(* RecordedUntilDeleted.                                                   *)
(***************************************************************************)

\* A record with the same deployments, or that differs at one it keeps.
LEMMA KeepsRecorded ==
  ASSUME NEW o \in Project, NEW q \in Project, NEW d \in Recorded(o)
  PROVE  /\ q.Deployment = o.Deployment => d \in Recorded(q)
         /\ \A u \in Users, r \in Roles : q = AddRole(o, u, r) => d \in Recorded(q)
         /\ \A e \in Deps : DiffersAt(o, q, e) => d \in Recorded(q)
         /\ \A e \in Deps \ {d} : q = DeletDeployment(o, e) => d \in Recorded(q)
<1>0. d \in Deps /\ DeploymentsOf(o)[d] # Nil
  BY DEF Recorded
<1>1. q.Deployment = o.Deployment => d \in Recorded(q)
  BY <1>0 DEF Recorded, DeploymentsOf
<1>2. \A u \in Users, r \in Roles : q = AddRole(o, u, r) => q.Deployment = o.Deployment
  BY DEF AddRole, Project
<1>3. \A e \in Deps : DiffersAt(o, q, e) => d \in Recorded(q)
  BY <1>0 DEF DiffersAt, Recorded
<1>4. \A e \in Deps \ {d} : q = DeletDeployment(o, e) => d \in Recorded(q)
  BY <1>0, DeletDeploymentDiffers DEF Recorded
<1> QED
  BY <1>1, <1>2, <1>3, <1>4

\* One client at a time loses no deployment that it did not ask to delete,
\* whatever the cluster refuses and wherever the process dies.
THEOREM SerialRecordedUntilDeleted == ASSUME OneAtATime PROVE Spec => RecordedUntilDeleted
<1> DEFINE Lost(i, d) == ~(Found(db', i) /\ d \in Recorded(db'[i]))
           Asked(i, d) == \E h \in Handlers :
                            /\ frame[h].id = i
                            /\ \/ frame[h].pc = "dpDelete"
                               \/ frame[h].pc = "ddSave" /\ frame[h].dep = d
           Step == \A i \in Stored(db) : \A d \in Recorded(db[i]) :
                     Lost(i, d) => Asked(i, d)
<1>1. SerialInv /\ [Next]_vars => Step
  <2> SUFFICES ASSUME SerialInv, [Next]_vars,
                      NEW i \in Stored(db), NEW d \in Recorded(db[i]), Lost(i, d)
               PROVE  Asked(i, d)
    OBVIOUS
  <2>0. TypeInv /\ Found(db, i) /\ i \in Ids /\ db[i] \in Project
    BY FoundType DEF SerialInv, Found
  <2>1. db' # db
    BY <2>0
  <2>2. PICK h \in Handlers : WriteStep(h)
    BY <2>1, HandlerSteps DEF SerialInv, LocalStep, Crash
  <2>3. ASSUME NEW j \in Ids, NEW q \in Project, db' = Save(db, j, q), Found(db, j)
        PROVE  j = i /\ d \notin Recorded(q)
    BY <2>0, <2>3, NilAssumption DEF Save, Found, Stored, TypeInv, TypeOK
  <2>4. ASSUME NEW j \in Ids, NEW q \in Project, db' = Save(db, j, q), ~Found(db, j)
        PROVE  FALSE
    BY <2>0, <2>4 DEF Save, Found, Stored, TypeInv, TypeOK
  <2>5. ASSUME NEW j \in Ids, db' = Delete(db, j) PROVE j = i
    BY <2>0, <2>5 DEF Delete, Found, Stored, TypeInv, TypeOK
  <2> QED
    BY <2>0, <2>1, <2>2, <2>3, <2>4, <2>5, WriteCases, KeepsRecorded
<1> QED
  BY <1>1, InitSerialInv, NextSerialInv, PTL DEF Spec, RecordedUntilDeleted

------------------------------------------------------------------------------
(***************************************************************************)
(* DeletedStaysDeleted.  Three requests Save a copy under the id it was    *)
(* read from: an edit whose project is gone when it looks for it, a role   *)
(* that is added, and a deployment that is deleted.  Where none of them is *)
(* sent, an id that was deleted is never written again.                    *)
(***************************************************************************)

NoneSavesBack == Ops \cap {"edit", "addRole", "undeploy"} = {}

FrameNew(f) ==
  /\ f.pc # "arSave" /\ f.pc \notin UndeployPcs
  /\ f.pc \in FormPcs \cup {"cpSave"} => f.id = Nil

DeletedInv == TypeInv /\ StoredIssued /\ \A h \in Handlers : FrameNew(frame[h])

LEMMA InitDeletedInv == Init => DeletedInv
<1> SUFFICES ASSUME Init PROVE DeletedInv
  OBVIOUS
<1>1. StoredIssued
  BY DEF Init, StoredIssued, Found, Stored
<1>2. \A h \in Handlers : FrameNew(frame[h])
  BY DEF Init, AtRest, FrameNew, FormPcs, UndeployPcs
<1> QED
  BY <1>1, <1>2, InitTypeInv DEF DeletedInv

LEMMA RestNew ==
  ASSUME NEW f, f.pc \in Resting PROVE FrameNew(f)
BY DEF Resting, FrameNew, FormPcs, UndeployPcs

LEMMA LocalNew ==
  ASSUME NoneSavesBack, DeletedInv, NEW h \in Handlers, LocalStep(h)
  PROVE  \A g \in Handlers : FrameNew(frame'[g])
<1>0. TypeInv /\ \A g \in Handlers : FrameNew(frame[g])
  BY DEF DeletedInv
<1>1. PICK f \in Frame :
        /\ frame' = [frame EXCEPT ![h] = f]
        /\ \/ f.pc \in Refused \/ Submits(f) \/ Reads(f)
           \/ GoesOn(frame[h], f) \/ Looks(frame[h], f) \/ Enters(frame[h], f)
  BY DEF LocalStep, SetsFrame
<1>2. FrameNew(f)
  <2>1. CASE f.pc \in Refused
    BY <2>1, RestNew DEF Refused, Resting
  <2>2. CASE Submits(f) \/ Reads(f)
    BY <2>2 DEF Submits, FormOf, Reads, AfterElastic, NoneSavesBack, FrameNew, FormPcs, UndeployPcs
  <2>3. CASE GoesOn(frame[h], f)
    BY <1>0, <2>3 DEF GoesOn, Precedes, Follows, AfterElastic, FrameNew, FormPcs, DeletePcs,
                      UndeployPcs, ElasticPcs, ProxyPcs
  <2>4. CASE Looks(frame[h], f) \/ Enters(frame[h], f)
    BY <1>0, <2>4 DEF Looks, Enters, FrameNew, FormPcs, UndeployPcs
  <2> QED
    BY <1>1, <2>1, <2>2, <2>3, <2>4
<1> QED
  BY <1>0, <1>1, <1>2 DEF TypeInv, TypeOK

\* A write replaces or removes a record that is there, or takes a new id.
LEMMA WriteNew ==
  ASSUME DeletedInv, NEW h \in Handlers, WriteStep(h)
  PROVE  /\ StoredIssued'
         /\ \A i \in issued : ~Found(db, i) => ~Found(db', i)
<1>0. /\ TypeInv /\ StoredIssued /\ FrameNew(frame[h]) /\ FrameOK(frame[h])
      /\ db \in [Ids -> Project \cup {Nil}] /\ issued \subseteq Ids
  BY DEF DeletedInv, TypeInv, TypeOK, FramesOK
<1>1. CASE SaveProject(h)
  <2>1. PICK j \in Ids \ issued : \/ db' = Save(db, j, frame[h].proj) /\ issued' = issued \cup {j}
                                  \/ UNCHANGED <<db, issued>>
    BY <1>0, <1>1 DEF SaveProject, At, FrameNew
  <2> QED
    BY <1>0, <2>1 DEF Save, StoredIssued, Found, Stored
<1>2. CASE UpdateProject(h) \/ RecordDeployment(h)
  <2>1. /\ issued' = issued
        /\ \/ UNCHANGED db
           \/ /\ Found(db, frame[h].id)
              /\ db' = Save(db, frame[h].id, NonZeroFields(db[frame[h].id], frame[h].proj))
    BY <1>2 DEF UpdateProject, RecordDeployment, UpdateRecord, UpdateOk
  <2> QED
    BY <1>0, <2>1 DEF Save, StoredIssued, Found, Stored
<1>3. CASE DeleteRecord(h)
  BY <1>0, <1>3, NilAssumption DEF DeleteRecord, Delete, StoredIssued, Found, Stored
<1>4. ~SaveRole(h) /\ ~ForgetDeployment(h)
  BY <1>0 DEF SaveRole, ForgetDeployment, At, FrameNew, UndeployPcs
<1> QED
  BY <1>1, <1>2, <1>3, <1>4 DEF WriteStep

LEMMA NextDeletedInv == ASSUME NoneSavesBack PROVE DeletedInv /\ [Next]_vars => DeletedInv'
<1> SUFFICES ASSUME DeletedInv, [Next]_vars PROVE DeletedInv'
  OBVIOUS
<1>0. TypeInv /\ TypeInv' /\ frame \in [Handlers -> Frame]
  BY NextTypeInv DEF DeletedInv, TypeInv, TypeOK
<1>1. CASE \E h \in Handlers : LocalStep(h)
  <2>1. StoredIssued'
    BY <1>1 DEF LocalStep, DeletedInv, StoredIssued
  <2> QED
    BY <1>0, <1>1, <2>1, LocalNew DEF DeletedInv, FrameNew
<1>2. ASSUME NEW h \in Handlers, WriteStep(h) PROVE DeletedInv'
  <2>1. PICK r \in Resting : frame' = [frame EXCEPT ![h] = AtRest(r)]
    BY <1>0, <1>2, WriteEnds DEF Reply
  <2>2. FrameNew(AtRest(r))
    BY RestNew DEF AtRest
  <2>3. \A g \in Handlers : FrameNew(frame'[g])
    BY <1>0, <2>1, <2>2 DEF DeletedInv
  <2> QED
    BY <1>0, <1>2, <2>3, WriteNew DEF DeletedInv, FrameNew
<1>3. CASE UNCHANGED <<db, issued, frame>>
  BY <1>0, <1>3 DEF DeletedInv, StoredIssued, FrameNew
<1>4. CASE Crash
  <2>1. \A g \in Handlers : FrameNew(frame'[g])
    BY <1>4, RestNew DEF Crash, AtRest, Resting
  <2> QED
    BY <1>0, <1>4, <2>1 DEF Crash, DeletedInv, StoredIssued, FrameNew
<1> QED
  BY <1>0, <1>1, <1>2, <1>3, <1>4, HandlerSteps

\* Where no request saves back a copy it read, a deleted project stays deleted,
\* whichever requests overlap with the deletion and wherever the process dies:
\* the update that ends a createDeployment does not bring it back.
THEOREM DeletedStays == ASSUME NoneSavesBack PROVE Spec => DeletedStaysDeleted
<1>1. DeletedInv /\ [Next]_vars => \A i \in issued : ~Found(db, i) => ~Found(db', i)
  <2> SUFFICES ASSUME DeletedInv, [Next]_vars
               PROVE  \A i \in issued : ~Found(db, i) => ~Found(db', i)
    OBVIOUS
  <2>1. (\E h \in Handlers : WriteStep(h)) \/ UNCHANGED db
    BY HandlerSteps DEF DeletedInv, LocalStep, Crash
  <2> QED
    BY <2>1, WriteNew
<1> QED
  BY <1>1, InitDeletedInv, NextDeletedInv, PTL DEF Spec, DeletedStaysDeleted

------------------------------------------------------------------------------
(***************************************************************************)
(* CreatedAsAsked.                                                         *)
(***************************************************************************)

\* Both a cluster and a Kibana are named.
NamesBoth(req) == req.es # Nil /\ req.kb # Nil

\* Once the deployment has entered the copy, the copy has what was asked for.
FrameRecorded(f) ==
  f.pc \in ProxyPcs \cup {"cdUpdate"} /\ NamesBoth(f.req) =>
    DeploymentsOf(f.proj)[f.dep] = f.req

RecordedInv == TypeInv /\ \A h \in Handlers : FrameRecorded(frame[h])

LEMMA RestRecorded ==
  ASSUME NEW f, f.pc \in Resting PROVE FrameRecorded(f)
BY DEF Resting, FrameRecorded, ProxyPcs

LEMMA InitRecordedInv == Init => RecordedInv
<1> SUFFICES ASSUME Init PROVE RecordedInv
  OBVIOUS
<1>1. \A h \in Handlers : frame[h].pc \in Resting
  BY DEF Init, AtRest, Resting
<1> QED
  BY <1>1, InitTypeInv, RestRecorded DEF RecordedInv

\* Updating a deployment with both parts records exactly these.
LEMMA UpdateDeploymentRecords ==
  ASSUME NEW p \in Project, NEW d \in Deps, NEW c \in Deployment
  PROVE  DeploymentsOf(UpdateDeployment(p, d, c))[d] = c
<1> DEFINE q   == UpdateDeployment(p, d, c)
           old == DeploymentsOf(p)
           new == [old EXCEPT ![d] = IF @ = Nil THEN c ELSE UpdateDeploymentParts(@, c)]
<1>1. old \in DeploymentList
  BY DEF DeploymentsOf, NoDeployments, DeploymentList, Project
<1>2. UpdateDeploymentParts(old[d], c) = c
  BY NilAssumption DEF UpdateDeploymentParts, Deployment
<1>3. new[d] = c
  BY <1>1, <1>2 DEF DeploymentList
<1>4. q.Deployment = new
  BY DEF UpdateDeployment, Project
<1>5. q.Deployment # Nil
  BY NilAssumption, UpdateDeploymentType
<1> QED
  BY <1>3, <1>4, <1>5 DEF DeploymentsOf

LEMMA LocalRecorded ==
  ASSUME RecordedInv, NEW h \in Handlers, LocalStep(h)
  PROVE  \A g \in Handlers : FrameRecorded(frame'[g])
<1>0. /\ TypeInv /\ FrameOK(frame[h]) /\ \A g \in Handlers : FrameRecorded(frame[g])
  BY DEF RecordedInv, TypeInv, FramesOK
<1>1. PICK f \in Frame :
        /\ frame' = [frame EXCEPT ![h] = f]
        /\ \/ f.pc \in Refused \/ Submits(f) \/ Reads(f)
           \/ GoesOn(frame[h], f) \/ Looks(frame[h], f) \/ Enters(frame[h], f)
  BY DEF LocalStep, SetsFrame
<1>2. FrameRecorded(f)
  <2>1. CASE f.pc \in Refused
    BY <2>1, RestRecorded DEF Refused, Resting
  <2>2. CASE Submits(f) \/ Looks(frame[h], f)
    BY <2>2 DEF Submits, Looks, FrameRecorded, ProxyPcs
  <2>3. CASE Reads(f)
    BY <2>3 DEF Reads, AfterElastic, NamesBoth, FrameRecorded, ProxyPcs
  <2>4. CASE GoesOn(frame[h], f)
    <3>1. CASE /\ Follows(frame[h], f.pc) /\ SameParts(frame[h].req, f.req)
               /\ frame[h].pc \in ProxyPcs => f.req = frame[h].req
      <4> SUFFICES ASSUME f.pc \in ProxyPcs \cup {"cdUpdate"}, NamesBoth(f.req)
                   PROVE  DeploymentsOf(f.proj)[f.dep] = f.req
        BY DEF FrameRecorded
      <4>1. NamesBoth(frame[h].req)
        BY <3>1 DEF SameParts, NamesBoth
      <4>2. frame[h].pc \in ProxyPcs
        BY <3>1, <4>1 DEF Follows, AfterElastic, NamesBoth, ElasticPcs, ProxyPcs
      <4> QED
        BY <1>0, <2>4, <3>1, <4>1, <4>2 DEF GoesOn, FrameRecorded
    <3>2. CASE f.pc \in FormPcs \cup DeletePcs \cup UndeployPcs
      BY <3>2 DEF FrameRecorded, FormPcs, DeletePcs, UndeployPcs, ProxyPcs
    <3> QED
      BY <2>4, <3>1, <3>2 DEF GoesOn, Precedes, FormPcs
  <2>5. CASE Enters(frame[h], f)
    <3>1. frame[h].proj \in Project /\ frame[h].dep \in Deps
      BY <1>0, <2>5, DeployFrame DEF Enters, CreatePcs, Dep
    <3> QED
      BY <2>5, <3>1, UpdateDeploymentRecords DEF Enters, FrameRecorded
  <2> QED
    BY <1>1, <2>1, <2>2, <2>3, <2>4, <2>5
<1> QED
  BY <1>0, <1>1, <1>2 DEF TypeInv, TypeOK

LEMMA NextRecordedInv == RecordedInv /\ [Next]_vars => RecordedInv'
<1> SUFFICES ASSUME RecordedInv, [Next]_vars PROVE RecordedInv'
  OBVIOUS
<1>0. TypeInv /\ TypeInv' /\ frame \in [Handlers -> Frame]
  BY NextTypeInv DEF RecordedInv, TypeInv, TypeOK
<1>1. CASE \E h \in Handlers : LocalStep(h)
  BY <1>0, <1>1, LocalRecorded DEF RecordedInv, FrameRecorded
<1>2. ASSUME NEW h \in Handlers, WriteStep(h) PROVE RecordedInv'
  <2>1. PICK r \in Resting : frame' = [frame EXCEPT ![h] = AtRest(r)]
    BY <1>0, <1>2, WriteEnds DEF Reply
  <2>2. FrameRecorded(AtRest(r))
    BY RestRecorded DEF AtRest
  <2>3. \A g \in Handlers : FrameRecorded(frame'[g])
    BY <1>0, <2>1, <2>2 DEF RecordedInv
  <2> QED
    BY <1>0, <2>3 DEF RecordedInv, FrameRecorded
<1>3. CASE UNCHANGED <<db, issued, frame>>
  BY <1>0, <1>3 DEF RecordedInv, FrameRecorded
<1>4. CASE Crash
  <2>1. \A g \in Handlers : FrameRecorded(frame'[g])
    BY <1>4, RestRecorded DEF Crash, AtRest, Resting
  <2> QED
    BY <1>0, <2>1 DEF RecordedInv, FrameRecorded
<1> QED
  BY <1>0, <1>1, <1>2, <1>3, <1>4, HandlerSteps

\* A request that is answered 200 at the end of createDeployment.
LEMMA AcknowledgedRecords ==
  ASSUME RecordedInv, [Next]_vars, NEW h \in Handlers, Acknowledges(h, "cdUpdate"),
         Req(h).es # Nil, Req(h).kb # Nil
  PROVE  DeploymentsOf(db'[frame[h].id])[Dep(h)] = Req(h)
<1> DEFINE i == frame[h].id
           p == frame[h].proj
           q == NonZeroFields(db[i], p)
<1>0. /\ TypeInv /\ frame[h].pc = "cdUpdate" /\ frame'[h].pc = "ok"
      /\ frame \in [Handlers -> Frame]
  BY DEF RecordedInv, TypeInv, TypeOK, Acknowledges
<1>1. /\ p \in Project /\ i \in Ids /\ Dep(h) \in Deps
      /\ DeploymentsOf(p)[Dep(h)] = Req(h)
  BY <1>0, DeployFrame DEF RecordedInv, FrameRecorded, NamesBoth, CreatePcs, Dep, Req
<1>2. RecordDeployment(h)
  <2>1. PICK g \in Handlers : LocalStep(g) \/ WriteStep(g)
    <3>1. ~Crash
      BY <1>0 DEF Crash, AtRest
    <3>2. frame' # frame
      BY <1>0
    <3> QED
      BY <1>0, <3>1, <3>2, HandlerSteps
  <2>2. g = h
    <3>1. CASE LocalStep(g)
      BY <1>0, <3>1 DEF LocalStep, SetsFrame
    <3>2. CASE WriteStep(g)
      BY <1>0, <3>2, WriteEnds DEF Reply
    <3> QED
      BY <2>1, <3>1, <3>2
  <2>3. ~LocalStep(h)
    <3>1. SUFFICES ASSUME NEW f, frame' = [frame EXCEPT ![h] = f],
                          \/ f.pc \in Refused \/ Submits(f) \/ Reads(f)
                          \/ GoesOn(frame[h], f) \/ Looks(frame[h], f) \/ Enters(frame[h], f)
                   PROVE  FALSE
      BY DEF LocalStep, SetsFrame
    <3>2. f.pc = "ok"
      BY <1>0, <3>1
    <3>3. ~GoesOn(frame[h], f)
      BY <3>2 DEF GoesOn, Precedes, Follows, AfterElastic, DeletePcs, UndeployPcs, ElasticPcs,
                  ProxyPcs
    <3> QED
      BY <3>1, <3>2, <3>3 DEF Refused, Submits, Reads, AfterElastic, Looks, Enters
  <2> QED
    BY <1>0, <2>1, <2>2, <2>3 DEF WriteStep, SaveProject, UpdateProject, SaveRole, DeleteRecord,
                                  ForgetDeployment, At
<1>3. UpdateOk(db, i, p) /\ db' = Save(db, i, q)
  <2>1. ~Reply(h, "bad")
    BY <1>0 DEF Reply, AtRest
  <2> QED
    BY <1>2, <2>1 DEF RecordDeployment, UpdateRecord
<1>4. db'[i] = q
  BY <1>0, <1>1, <1>3 DEF Save, TypeInv, TypeOK
<1>5. p.Deployment # Nil
  <2>1. Req(h) # Nil
    BY <1>0, DeployFrame, NilAssumption DEF CreatePcs, Req, DepRequest, Deployment
  <2> QED
    BY <1>1, <2>1 DEF DeploymentsOf, NoDeployments
<1>6. q = p
  BY <1>1, <1>5 DEF NonZeroFields, Project
<1> QED
  BY <1>1, <1>4, <1>6

\* A createDeployment of a cluster and a Kibana that is answered 200 has the two
\* in the record, as they were sent and with their ids, whichever requests overlap
\* and whatever fails: a cluster that was refused is recorded too, and a project
\* that has vanished is never acknowledged.
THEOREM RecordedAsAsked == Spec => CreatedAsAsked
<1> DEFINE Step == \A h \in Handlers :
                     Acknowledges(h, "cdUpdate") /\ Req(h).es # Nil /\ Req(h).kb # Nil =>
                       DeploymentsOf(db'[frame[h].id])[Dep(h)] = Req(h)
<1>1. RecordedInv /\ [Next]_vars => Step
  BY AcknowledgedRecords
<1> QED
  BY <1>1, InitRecordedInv, NextRecordedInv, PTL DEF Spec, CreatedAsAsked
=============================================================================
