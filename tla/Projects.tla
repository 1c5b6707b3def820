------------------------------ MODULE Projects ------------------------------
(***************************************************************************)
(* The records of package acl and the functions on them that touch neither *)
(* the database nor the cluster: acl/project.go, acl/roles.go and          *)
(* Deployment.Update of acl/deployments.go.                                *)
(*                                                                         *)
(* Data.  Limits stands for Cpu and Memory together; Disk and Description, *)
(* which nothing reads, Enabled (recomputed on every read) and Roles (the  *)
(* image of RoleMappings) are left out.  A version, a size or a generated  *)
(* id is a member of a small set.  The roles of a project are a set: their *)
(* order and repetitions matter to GetActions alone, which no handler here *)
(* calls.  The deployments of a project are a map from their names,        *)
(* because UpdateDeployment and DeletDeployment find them by name; Nil is  *)
(* Go's nil slice, which storm and JSON tell from the empty one, and the   *)
(* empty Id.                                                               *)
(***************************************************************************)
EXTENDS Storm

CONSTANTS Names,        \* names of projects, and of their namespaces
          Users,        \* user names
          LimitValues,  \* resource limits a project can ask for
          Deps,         \* names of deployments
          Versions,     \* Elasticsearch / Kibana versions and node layouts
          Sizes,        \* Kibana cpu and memory
          Xids          \* ids of clusters and Kibanas, as xid.New() makes them

Roles == {"Platform_VIEWER", "Platform_ADMIN", "Editor", "Viewer"}

RoleUserMapping    == [User : Users, Role : Roles]
ElasticseachConfig == [Version : Versions, Id : Xids \cup {Nil}]
KibanaConfig       == [Version : Versions, Size : Sizes, Id : Xids \cup {Nil}]
Deployment         == [es : ElasticseachConfig, kb : KibanaConfig]
DeploymentList     == [Deps -> Deployment \cup {Nil}]

Project == [Name : Names, RoleMappings : SUBSET RoleUserMapping,
            Limits : LimitValues, Deployment : DeploymentList \cup {Nil}]

\* Names are nonempty strings and Nil is no record, list or name.
ASSUME NilAssumption ==
  /\ Nil \notin Names \cup Deps \cup Xids
  /\ Nil \notin Project
  /\ Nil \notin Deployment
  /\ Nil \notin DeploymentList
  /\ Nil \notin ElasticseachConfig
  /\ Nil \notin KibanaConfig

------------------------------------------------------------------------------
\* Roles.

RoleFromString(role) == role \in Roles          \* err = nil

\* Mutant: unknown roles are kept.
KnownRole_Any(entry) == TRUE

\* CovertRolesToMappings drops the entries whose role is unknown.
KnownRole(entry) == RoleFromString(entry.Role)
CovertRolesToMappings(entries) == {e \in entries : KnownRole(e)}

AddRole(p, user, role) ==
  [p EXCEPT !.RoleMappings = @ \cup {[User |-> user, Role |-> role]}]

------------------------------------------------------------------------------
\* Deployments of a project.

\* ElasticseachConfig.GetID and KibanaConfig.GetID: an id that is there is kept.
GetID(id, new) == IF id = Nil THEN new ELSE id

NoDeployments == [d \in Deps |-> Nil]
DeploymentsOf(p) == IF p.Deployment = Nil THEN NoDeployments ELSE p.Deployment
Recorded(p) == {d \in Deps : DeploymentsOf(p)[d] # Nil}

\* The UI asks for a deployment by its name; a match of the ID is left out.
FindDeployment(p, d) == d \in Recorded(p)       \* err = nil

\* Deployment.Update: a part the request does not name is kept.
UpdateDeploymentParts(old, new) ==
  [es |-> IF new.es = Nil THEN old.es ELSE new.es,
   kb |-> IF new.kb = Nil THEN old.kb ELSE new.kb]

\* Mutant: the deployments of the project are replaced by the new one.
UpdateDeployment_Alone(p, d, new) ==
  [p EXCEPT !.Deployment = [NoDeployments EXCEPT ![d] = new]]

UpdateDeployment(p, d, new) ==
  LET old == DeploymentsOf(p) IN
  [p EXCEPT !.Deployment =
     [old EXCEPT ![d] = IF @ = Nil THEN new ELSE UpdateDeploymentParts(@, new)]]

\* Mutant: the filter keeps nothing.
DeletDeployment_All(p, d) == [p EXCEPT !.Deployment = NoDeployments]

\* The result is an empty, non-nil slice when nothing is left.
DeletDeployment(p, d) ==
  LET old == DeploymentsOf(p) IN [p EXCEPT !.Deployment = [old EXCEPT ![d] = Nil]]

------------------------------------------------------------------------------
\* What a write keeps of the record it replaces.

UpdateWithProject(old, new) ==
  [old EXCEPT !.Name = new.Name, !.RoleMappings = new.RoleMappings,
              !.Limits = new.Limits]

\* storm's Update copies the fields that are not Go zero values.  Of the
\* fields kept here only Deployment can be one: createProjects fills the
\* others in, and AddRole only adds.
NonZeroFields(old, new) ==
  [new EXCEPT !.Deployment = IF @ = Nil THEN old.Deployment ELSE @]
=============================================================================
