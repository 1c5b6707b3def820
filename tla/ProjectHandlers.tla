-------------------------- MODULE ProjectHandlers --------------------------
(***************************************************************************)
(* The handlers of api/projects.go that change state: createProjects (which *)
(* also edits), addRoleToProject and deleteProjectMetrics (which deletes   *)
(* the project).                                                           *)
(***************************************************************************)
EXTENDS ServerState, FiniteSets

------------------------------------------------------------------------------
\* createProjects.

\* Mutant: the default is chosen before the unknown roles are dropped.
RequestMappings_DefaultFirst(entries, caller) ==
  IF entries = {} THEN {[User |-> caller, Role |-> "Platform_ADMIN"]}
                  ELSE CovertRolesToMappings(entries)

\* The mappings of the request: the roles that are known, or the caller as
\* administrator when none is left.
RequestMappings(entries, caller) ==
  LET mappings == CovertRolesToMappings(entries) IN
  IF mappings = {} THEN {[User |-> caller, Role |-> "Platform_ADMIN"]}
                   ELSE mappings

RequestedProject(name, entries, caller, limits) ==
  [Name |-> name, RoleMappings |-> RequestMappings(entries, caller),
   Limits |-> limits, Deployment |-> Nil]

\* The form sends no Id for a new project, and for an edit the Id it was
\* opened with, which may since have been deleted.
Submit(h, id, p) ==
  /\ Ready(h)
  /\ frame' = [frame EXCEPT ![h] =
                 [AtRest("cpNamespace") EXCEPT !.id = id, !.proj = p]]
  /\ UNCHANGED <<db, issued, kube, windows, up>>

\* Bound: no more projects are requested than there are ids for.
Creating == {g \in Running : frame[g].id = Nil}
IdsLeft  == Cardinality(issued) + Cardinality(Creating) < Cardinality(Ids)

SubmitNew(h) ==
  /\ "create" \in Ops
  /\ IdsLeft
  /\ \E n \in Names, es \in RoleEntries, u \in Users, l \in LimitValues :
       Submit(h, Nil, RequestedProject(n, es, u, l))

\* Unless "rename" is among the requests, an edit keeps the name and its form
\* was opened on a project that is still there.
SubmitEdit(h) ==
  \E i \in issued, n \in Names, es \in RoleEntries, u \in Users, l \in LimitValues :
    /\ "edit" \in Ops
    /\ "rename" \in Ops \/ (Found(db, i) /\ n = db[i].Name)
    /\ Submit(h, i, RequestedProject(n, es, u, l))

\* Mutant: only new namespaces get a window.
CreateNamespace_WindowForNew(h) ==
  LET n == frame[h].proj.Name IN
  /\ At(h, "cpNamespace")
  /\ \E answered \in Answers("namespaces") :
       kube' = IF answered /\ kube[n].status = "absent"
               THEN [kube EXCEPT ![n].status = "active"] ELSE kube
  /\ windows' = IF kube[n].status = "absent" THEN windows \cup {n} ELSE windows
  /\ Goto(h, "cpQuota")
  /\ UNCHANGED <<db, issued, up>>

\* The error of CreateNamespace is dropped.  AddNamespaceMetrics replaces the
\* window that may be stored under the project's name.
CreateNamespace(h) ==
  LET n == frame[h].proj.Name IN
  /\ At(h, "cpNamespace")
  /\ \E answered \in Answers("namespaces") :
       kube' = IF answered /\ kube[n].status = "absent"
               THEN [kube EXCEPT ![n].status = "active"] ELSE kube
  /\ windows' = windows \cup {n}
  /\ Goto(h, "cpQuota")
  /\ UNCHANGED <<db, issued, up>>

\* Create, and Update when that fails.  The error is overwritten by the next
\* call's.
CreateResourceQuota(h) ==
  LET n == frame[h].proj.Name IN
  /\ At(h, "cpQuota")
  /\ \E answered \in Answers("resourcequotas") :
       kube' = IF answered /\ (Active(n) \/ kube[n].quota # Nil)
               THEN [kube EXCEPT ![n].quota = frame[h].proj.Limits] ELSE kube
  /\ Goto(h, "cpLimits")
  /\ UNCHANGED <<db, issued, windows, up>>

\* Mutant: the error is dropped, like those of the two calls before.
CreateLimitRange_ErrorDropped(h) ==
  LET n == frame[h].proj.Name IN
  /\ At(h, "cpLimits")
  /\ \E answered \in Answers("limitranges") :
       kube' = IF answered /\ (Active(n) \/ kube[n].limitRange # Nil)
               THEN [kube EXCEPT ![n].limitRange = frame[h].proj.Limits] ELSE kube
  /\ Goto(h, "cpLookup")
  /\ UNCHANGED <<db, issued, windows, up>>

\* Mutant: a limit range that exists is taken to be the requested one.
CreateLimitRange_NoUpdate(h) ==
  LET n == frame[h].proj.Name IN
  /\ At(h, "cpLimits")
  /\ \/ /\ Active(n) \/ kube[n].limitRange # Nil
        /\ kube' = IF kube[n].limitRange = Nil
                   THEN [kube EXCEPT ![n].limitRange = frame[h].proj.Limits] ELSE kube
        /\ Goto(h, "cpLookup")
     \/ /\ ~Active(n) /\ kube[n].limitRange = Nil
        /\ Reply(h, "bad")
        /\ UNCHANGED kube
  /\ UNCHANGED <<db, issued, windows, up>>

\* Create, and Update when that fails; this error ends the request.
CreateLimitRange(h) ==
  LET n == frame[h].proj.Name IN
  /\ At(h, "cpLimits")
  /\ \/ /\ Active(n) \/ kube[n].limitRange # Nil
        /\ kube' = [kube EXCEPT ![n].limitRange = frame[h].proj.Limits]
        /\ Goto(h, "cpLookup")
     \/ /\ (~Active(n) /\ kube[n].limitRange = Nil) \/ FALSE \in Answers("limitranges")
        /\ Reply(h, "bad")
        /\ UNCHANGED kube
  /\ UNCHANGED <<db, issued, windows, up>>

\* a.GetProject(project.Id): "not found", also for an empty Id, means create.
LookupProject(h) ==
  LET id == frame[h].id IN
  /\ At(h, "cpLookup")
  /\ \/ /\ ~Found(db, id)
        /\ Goto(h, "cpSave")
     \/ /\ Found(db, id)
        /\ FALSE \in Answers("lists")
        /\ Reply(h, "panicked")
     \/ /\ Found(db, id)
        /\ frame' = [frame EXCEPT ![h] =
             [frame[h] EXCEPT !.pc = "cpUpdate",
                              !.proj = UpdateWithProject(db[id], frame[h].proj)]]
  /\ UNCHANGED <<db, issued, kube, windows, up>>

\* project.Save generates the Id of a new project.
SaveProject(h) ==
  LET p == frame[h].proj IN
  /\ At(h, "cpSave")
  /\ \E i \in (IF frame[h].id = Nil THEN Ids \ issued ELSE {frame[h].id}) :
       \/ /\ SaveOk(db, i, p)
          /\ db' = Save(db, i, p)
          /\ issued' = issued \cup {i}
          /\ Reply(h, "ok")
       \/ /\ ~SaveOk(db, i, p)
          /\ Reply(h, "bad")
          /\ UNCHANGED <<db, issued>>
  /\ UNCHANGED <<kube, windows, up>>

\* Mutant: Save in the place of Update.
UpdateRecord_Save(h) ==
  LET i == frame[h].id
      p == frame[h].proj IN
  \/ SaveOk(db, i, p) /\ db' = Save(db, i, p) /\ Reply(h, "ok")
  \/ ~SaveOk(db, i, p) /\ Reply(h, "bad") /\ UNCHANGED db

\* project.Update, at the end of an edit and of createDeployment.
UpdateRecord(h) ==
  LET i == frame[h].id
      p == frame[h].proj IN
  \/ /\ UpdateOk(db, i, p)
     /\ db' = Save(db, i, NonZeroFields(db[i], p))
     /\ Reply(h, "ok")
  \/ /\ ~UpdateOk(db, i, p)
     /\ Reply(h, "bad")
     /\ UNCHANGED db

UpdateProject(h) ==
  /\ At(h, "cpUpdate")
  /\ UpdateRecord(h)
  /\ UNCHANGED <<issued, kube, windows, up>>

CreateProjects(h) ==
  \/ SubmitNew(h)
  \/ SubmitEdit(h)
  \/ CreateNamespace(h)
  \/ CreateResourceQuota(h)
  \/ CreateLimitRange(h)
  \/ LookupProject(h)
  \/ SaveProject(h)
  \/ UpdateProject(h)

------------------------------------------------------------------------------
\* addRoleToProject: read, add, and Save the whole record.  A request that
\* lacks a user or a role, or names an unknown one, is answered 400.
ReadForRole(h) ==
  /\ Ready(h)
  /\ "addRole" \in Ops
  /\ \E i \in issued, u \in Users, r \in RoleRequests :
       GetProject(h, i, [AtRest("arSave") EXCEPT !.id = i,
                                                 !.proj = AddRole(db[i], u, r)])
  /\ UNCHANGED <<db, issued, kube, windows, up>>

SaveRole(h) ==
  LET i == frame[h].id
      p == frame[h].proj IN
  /\ At(h, "arSave")
  /\ \/ SaveOk(db, i, p) /\ db' = Save(db, i, p) /\ Reply(h, "ok")
     \/ ~SaveOk(db, i, p) /\ Reply(h, "bad") /\ UNCHANGED db
  /\ UNCHANGED <<issued, kube, windows, up>>

AddRoleToProject(h) == ReadForRole(h) \/ SaveRole(h)

------------------------------------------------------------------------------
\* deleteProjectMetrics: both errors are dropped, the window is kept.
ReadForDelete(h) ==
  /\ Ready(h)
  /\ "deleteProject" \in Ops
  /\ \E i \in issued :
       GetProject(h, i, [AtRest("dpNamespace") EXCEPT !.id = i, !.proj = db[i]])
  /\ UNCHANGED <<db, issued, kube, windows, up>>

\* The API server only marks the namespace; its objects go later.
DeleteNamespace(h) ==
  LET n == frame[h].proj.Name IN
  /\ At(h, "dpNamespace")
  /\ \E answered \in Answers("namespaces") :
       kube' = IF answered /\ Active(n)
               THEN [kube EXCEPT ![n].status = "terminating"] ELSE kube
  /\ Goto(h, "dpDelete")
  /\ UNCHANGED <<db, issued, windows, up>>

DeleteRecord(h) ==
  /\ At(h, "dpDelete")
  /\ db' = IF DeleteOk(db, frame[h].id) THEN Delete(db, frame[h].id) ELSE db
  /\ Reply(h, "ok")
  /\ UNCHANGED <<issued, kube, windows, up>>

DeleteProject(h) == ReadForDelete(h) \/ DeleteNamespace(h) \/ DeleteRecord(h)
=============================================================================
