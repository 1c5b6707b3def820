------------------------------- MODULE Pages -------------------------------
(***************************************************************************)
(* The routes under "/projects" and the pages behind them: the lists of    *)
(* projects and of deployments, the view of a deployment, and where the    *)
(* form for deployments leads.  A page loads its data once, when React     *)
(* mounts it; a component whose route matches before and after a change of *)
(* path stays mounted.  "/projects/:id/:depoyment_id" matches the path of  *)
(* the form for a new deployment as well, with "create" for the id, so the *)
(* view is mounted there and renders nothing.                              *)
(*                                                                         *)
(* One project "p", one tab, and a server that only this tab changes.      *)
(***************************************************************************)
EXTENDS Naturals, Sequences, SequencesExt

CONSTANTS Deps,    \* names of deployments
          Parts,   \* what the view loads of a deployment, "secrets" included
          MaxGen,  \* bound: passwords the operator creates
          Nil

Changes == {"delete", "deleteProject", "save", "regen"}

\* What a view has loaded of a deployment, and the view of an id in the path,
\* which "reused" says it was not mounted for.
Loadable == [of : Deps, gen : Nat]
View ==
  [of : Deps \cup {"create", "undefined"}, reused : BOOLEAN,
   shown : [Parts -> Loadable \cup {Nil}]]

ASSUME PagesAssumption ==
  /\ Deps \cap {"create", "edit", "undefined"} = {}
  /\ {"deployment", "secrets"} \subseteq Parts
  /\ Parts \cap (Changes \cup {"projects", "deployments", "events", "timer"}) = {}
  /\ MaxGen \in Nat
  /\ Nil \notin Deps \cup BOOLEAN \cup View

Create == <<"p", "create">>
Lists == {<<>>, <<"p">>}
Segment(pth) == IF Len(pth) = 2 THEN pth[2] ELSE Nil
Forms == {Create} \cup {<<"p", d, "edit">> : d \in Deps \cup {"undefined"}}

VARIABLES
  recorded,  \* server: the deployments of the project
  running,   \* cluster: the deployments that have an Elasticsearch
  project,   \* server: {"p"}, or {} once it is deleted
  secret,    \* cluster: the password of a deployment, 0 if it has no secret
  gen,       \* cluster: passwords created so far
  path,      \* segments of the location after "/projects"
  previous,  \* where the back button goes, Nil when it was just used
  list,      \* the mounted list, or Nil
  view,      \* the mounted view, or Nil
  events,    \* the mounted events of a deployment, or Nil
  requests,  \* requests and timers that are not over
  calm       \* since the last reload the user has waited for every answer,
             \* and no request failed

server == <<recorded, running, project, secret, gen>>
tab == <<path, previous, list, view, events>>
vars == <<recorded, running, project, secret, gen, path, previous, list, view, events,
          requests, calm>>

\* Requests; "got" is what the server answered, Nil before it did.
Ask(op, of) == [op |-> op, of |-> of, got |-> Nil, mounted |-> TRUE]

\* constructor and componentDidMount of the pages.
NewList == [shown |-> {}, loaded |-> FALSE]
NewView(s) == [of |-> s, reused |-> FALSE, shown |-> [q \in Parts |-> Nil]]
LoadsOfList(pth) == {Ask(IF pth = <<>> THEN "projects" ELSE "deployments", Nil)}
LoadsOfView(s) == {Ask(q, s) : q \in Parts}
LoadsOfEvents(s) == {Ask("events", s)}

\* DeploymentView.render: nothing under the reserved ids.
Renders(s) == s \notin {Nil, "create", "edit"}

\* The view shows the name it has loaded; before that there is none.
ShownName ==
  IF view.shown["deployment"] = Nil THEN "undefined" ELSE view.shown["deployment"].of

\* What the pages display: a card for each entry of the list, the parts of the
\* view that are loaded, and the events; the rest is blank.
Cards == IF list # Nil THEN list.shown ELSE {}
Displayed == {q \in Parts : view.shown[q] # Nil}
EventsListed == events # Nil /\ events.loaded

Init ==
  /\ recorded = {}
  /\ running = {}
  /\ project = {"p"}
  /\ secret = [d \in Deps |-> 0]
  /\ gen = 0
  /\ path = <<>>
  /\ previous = Nil
  /\ list = NewList
  /\ view = Nil
  /\ events = Nil
  /\ requests = LoadsOfList(<<>>)
  /\ calm = TRUE

------------------------------------------------------------------------------
(***************************************************************************)
(* The router: which components unmount, stay and mount.  Answers for an   *)
(* unmounted component change nothing, so its loads are dropped; what it    *)
(* asked the server to change is still done, and still pushes.             *)
(***************************************************************************)
Stays(op, pth) ==
  \/ op \in Changes
  \/ op \in {"projects", "deployments"} /\ path = pth
  \/ op \in Parts \cup {"timer"} /\ Segment(pth) # Nil
  \/ op = "events" /\ Renders(Segment(pth))

Kept(rs, pth) ==
  {[r EXCEPT !.mounted = @ /\ (r.op = "regen" => Segment(pth) # Nil)] :
     r \in {x \in rs : Stays(x.op, pth)}}

Move(pth, rs) ==
  LET s == Segment(pth)
      mountsList == pth \in Lists /\ path # pth
      mountsView == s # Nil /\ view = Nil
      mountsEvents == Renders(s) /\ events = Nil IN
  /\ path' = pth
  /\ list' = IF mountsList THEN NewList ELSE IF pth \in Lists THEN list ELSE Nil
  /\ view' = IF mountsView THEN NewView(s)
              ELSE IF s # Nil THEN [view EXCEPT !.reused = @ \/ s # view.of] ELSE Nil
  /\ events' = IF mountsEvents THEN [of |-> s, loaded |-> FALSE]
               ELSE IF Renders(s) THEN events ELSE Nil
  /\ requests' = Kept(rs, pth) \cup
       (IF mountsList THEN LoadsOfList(pth) ELSE {}) \cup
       (IF mountsView THEN LoadsOfView(s) ELSE {}) \cup
       (IF mountsEvents THEN LoadsOfEvents(s) ELSE {})

Push(pth, rs) == Move(pth, rs) /\ previous' = path

\* The user does something, perhaps while answers are out.  Bound: then, and
\* when a request has failed, the next thing to do is to wait and reload.
Acts == calm /\ calm' = (requests = {})

Click(pth) == Push(pth, requests) /\ Acts /\ UNCHANGED server

\* A request the user asks for on the page.  Bound: one change at a time.
Order(op, of) ==
  /\ \A r \in requests : r.op \notin Changes
  /\ requests' = requests \cup {Ask(op, of)}
  /\ Acts
  /\ UNCHANGED <<server, tab>>

------------------------------------------------------------------------------
\* Projects.render: a card of the list.
OpenProject == path = <<>> /\ "p" \in Cards /\ Click(<<"p">>)

\* Deployments.render: a card, and the button for a new deployment.
Open(d) == path = <<"p">> /\ d \in Cards /\ Click(<<"p", d>>)
New == path = <<"p">> /\ Click(Create)

\* Deployments.deleteProject.
DeleteProject == path = <<"p">> /\ Order("deleteProject", Nil)

\* DeploymentView.render: the edit button leads to the name that is shown.
Edit == Renders(Segment(path)) /\ Click(<<"p", ShownName, "edit">>)

\* Mutant: the list is opened without waiting for the answer.
DeleteDeployment_AtOnce ==
  /\ Renders(Segment(path))
  /\ Push(<<"p">>, requests \cup {Ask("delete", Segment(path))})
  /\ Acts
  /\ UNCHANGED server

\* DeploymentView.deleteDeployment, regenSecrets: by the id in the path.
DeleteDeployment == Renders(Segment(path)) /\ Order("delete", Segment(path))
RegenSecrets == Renders(Segment(path)) /\ Order("regen", Segment(path))

\* DeploymentForm.onFormSave: any name may be typed.
Save(d) == path \in Forms /\ Order("save", d)

\* The breadcrumbs of the header, one level up, and the back button.
Up == path # <<>> /\ Click(Front(path))
Back ==
  /\ previous # Nil
  /\ Move(previous, requests)
  /\ previous' = Nil
  /\ Acts
  /\ UNCHANGED server

\* A new document, when every answer has come.
Reload ==
  /\ requests = {}
  /\ calm' = TRUE
  /\ LET s == Segment(path) IN
     /\ list' = IF path \in Lists THEN NewList ELSE Nil
     /\ view' = IF s # Nil THEN NewView(s) ELSE Nil
     /\ events' = IF Renders(s) THEN [of |-> s, loaded |-> FALSE] ELSE Nil
     /\ requests' = (IF path \in Lists THEN LoadsOfList(path) ELSE {}) \cup
                    (IF s # Nil THEN LoadsOfView(s) ELSE {}) \cup
                    (IF Renders(s) THEN LoadsOfEvents(s) ELSE {})
  /\ UNCHANGED <<server, path, previous>>

------------------------------------------------------------------------------
(***************************************************************************)
(* The server answers a request, or refuses it; the tab takes the answer.  *)
(***************************************************************************)
Asked == {r \in requests : r.got = Nil /\ r.op # "timer"}
Answered == {r \in requests : r.got # Nil}

Answer(r, value) == requests' = (requests \ {r}) \cup {[r EXCEPT !.got = value]}

\* What a list, a part of the view or the events get.
ServeLoad(r) ==
  /\ \/ r.op = "projects" /\ Answer(r, project)
     \/ r.op = "deployments" /\ project # {} /\ Answer(r, recorded)
     \/ /\ r.op \in Parts \cup {"events"}
        /\ r.of \in recorded
        /\ Answer(r, [of |-> r.of,
                      gen |-> IF r.op = "secrets" THEN secret[r.of] ELSE 0])
  /\ UNCHANGED server

\* The changes.  Whether the cluster refuses what it is asked to do makes no
\* difference to the answer: the handlers drop the errors of these calls.

\* createDeployment deploys what the form names.  Only a form that names a Kibana
\* too is recorded: one where Kibana is switched off is answered alike.
ServeSave(r) ==
  /\ r.op = "save"
  /\ project # {}
  /\ recorded' \in {recorded, recorded \cup {r.of}}
  /\ running' \in {running, running \cup {r.of}}
  /\ UNCHANGED <<project, secret>>

\* detleteDeploymentHandler.
ServeDelete(r) ==
  /\ r.op = "delete"
  /\ r.of \in recorded
  /\ recorded' = recorded \ {r.of}
  /\ \/ running' = running \ {r.of} /\ secret' = [secret EXCEPT ![r.of] = 0]
     \/ UNCHANGED <<running, secret>>
  /\ UNCHANGED project

\* deleteDeploymentSecrets.
ServeRegen(r) ==
  /\ r.op = "regen"
  /\ r.of \in recorded
  /\ secret' \in {secret, [secret EXCEPT ![r.of] = 0]}
  /\ UNCHANGED <<recorded, running, project>>

\* deleteProjectMetrics: the namespace goes with all that is in it.
ServeDeleteProject(r) ==
  /\ r.op = "deleteProject"
  /\ project # {}
  /\ project' = {}
  /\ recorded' = {}
  /\ \/ running' = {} /\ secret' = [d \in Deps |-> 0]
     \/ UNCHANGED <<running, secret>>

ServeChange(r) ==
  /\ ServeSave(r) \/ ServeDelete(r) \/ ServeRegen(r) \/ ServeDeleteProject(r)
  /\ Answer(r, TRUE)
  /\ UNCHANGED gen

Serve(r) == (ServeLoad(r) \/ ServeChange(r)) /\ UNCHANGED <<tab, calm>>

\* The server does not find the project or the deployment.
NotFound(r) ==
  /\ \/ r.op \in Parts \cup {"events", "delete", "regen"} /\ r.of \notin recorded
     \/ r.op \in {"deployments", "save", "deleteProject"} /\ project = {}
  /\ requests' = requests \ {r}
  /\ UNCHANGED <<server, tab, calm>>

\* The request fails, or its answer is lost when the work is done; the page
\* stays as it is, and nothing is tried again.
Fail(r) ==
  /\ requests' = requests \ {r}
  /\ calm' = FALSE
  /\ UNCHANGED <<server, tab>>

\* The operator creates the secret of an Elasticsearch that has none.
Recreate(d) ==
  /\ d \in running
  /\ secret[d] = 0
  /\ gen < MaxGen
  /\ gen' = gen + 1
  /\ secret' = [secret EXCEPT ![d] = gen + 1]
  /\ UNCHANGED <<recorded, running, project, tab, requests, calm>>

\* The handlers of the loads: setState of the component that asked.
Loaded(r) ==
  /\ requests' = requests \ {r}
  /\ \/ /\ r.op \in {"projects", "deployments"}
        /\ list' = [shown |-> r.got, loaded |-> TRUE]
        /\ UNCHANGED <<view, events>>
     \/ /\ r.op \in Parts
        /\ view' = [view EXCEPT !.shown[r.op] = r.got]
        /\ UNCHANGED <<list, events>>
     \/ /\ r.op = "events"
        /\ events' = [events EXCEPT !.loaded = TRUE]
        /\ UNCHANGED <<list, view>>
  /\ UNCHANGED <<path, previous>>

\* Mutant: the secrets are not fetched again.
Done_NoRefresh(r) ==
  \/ r.op = "delete" /\ Push(<<"p">>, requests \ {r})
  \/ r.op = "deleteProject" /\ Push(<<>>, requests \ {r})
  \/ r.op = "save" /\ Push(<<"p", r.of>>, requests \ {r})
  \/ r.op = "regen" /\ requests' = requests \ {r} /\ UNCHANGED tab

\* The handlers of the changes: push a path, or start the timer of 2 seconds.
Done(r) ==
  \/ r.op = "delete" /\ Push(<<"p">>, requests \ {r})
  \/ r.op = "deleteProject" /\ Push(<<>>, requests \ {r})
  \/ r.op = "save" /\ Push(<<"p", r.of>>, requests \ {r})
  \/ /\ r.op = "regen"
     /\ requests' = (requests \ {r}) \cup (IF r.mounted THEN {Ask("timer", Nil)} ELSE {})
     /\ UNCHANGED tab

Take(r) == (Loaded(r) \/ Done(r)) /\ UNCHANGED <<server, calm>>

\* The timer of regenSecrets asks for the secrets of the id in the path.
TimerFires ==
  /\ Ask("timer", Nil) \in requests
  /\ requests' = (requests \ {Ask("timer", Nil)}) \cup {Ask("secrets", Segment(path))}
  /\ UNCHANGED <<server, tab, calm>>

Next ==
  \/ OpenProject \/ New \/ DeleteProject \/ Edit
  \/ DeleteDeployment \/ RegenSecrets \/ Up \/ Back \/ Reload
  \/ \E d \in Deps : Open(d) \/ Save(d) \/ Recreate(d)
  \/ \E r \in Asked : Serve(r) \/ NotFound(r) \/ Fail(r)
  \/ \E r \in Answered : Take(r) \/ Fail(r)
  \/ TimerFires

Spec == Init /\ [][Next]_vars

------------------------------------------------------------------------------
Quiet == calm /\ requests = {}

\* The view was mounted for the deployment in the path, and not kept from
\* another path.
Opened == Renders(Segment(path)) /\ ~view.reused

\* A list shows what the server has: a user who waits for the answers never
\* sees a deployment or a project that was deleted from the pages, nor misses
\* one that was recorded.
ListIsCurrent ==
  Quiet /\ list # Nil /\ list.loaded =>
    Cards = IF path = <<>> THEN project ELSE recorded

\* What README.md says of the view: once a deployment is created its result can
\* be seen, in every part of the view and in its events.
ResultShown ==
  Quiet /\ Segment(path) \in recorded =>
    /\ \A q \in Parts : q \in Displayed /\ view.shown[q].of = Segment(path)
    /\ EventsListed /\ events.of = Segment(path)

\* A view that was opened for the deployment in the path does not show a
\* password that has been replaced: after the secrets were regenerated it shows
\* the new one, or none if the operator took longer than the timer.
ShowsNoOldSecret ==
  Quiet /\ Opened /\ "secrets" \in Displayed =>
    view.shown["secrets"].gen \in {0, secret[view.of]}
=============================================================================
