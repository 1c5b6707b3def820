# TLA+ models of eckmanager

eckmanager is a Go server with a React UI that manages Elasticsearch and Kibana
deployments in a Kubernetes cluster. A *project* is a record in a bolt database
and a namespace in the cluster; a *deployment* is an entry in the record of its
project and a handful of objects in the namespace: a secret, an `Elasticsearch`,
a `Kibana` and an ingress. Two things are hard about it.

* The *server*: nothing ties database and cluster together but the handlers of
  the HTTP API, which run concurrently, make one call after the other and drop
  many of the errors.
* The *UI*: pages start requests and change before the answers arrive; forms
  share objects with their children and with their module and change them in
  place; a tab keeps a token and loses everything else when it is reloaded.

## 1. Inventory

| component | state | operations | modules |
|---|---|---|---|
| records (`acl/project.go`, `roles.go`, `deployments.go`) | `Project`, `Deployment`, `RoleUserMapping` | `UpdateWithProject`, `UpdateDeployment`, `DeletDeployment`, `AddRole`, conversions of roles | `Projects` |
| project store (`acl/datastore.go`, storm) | the bucket of projects, its unique index on `Name` | `One`, `Save`, `Update`, `DeleteStruct`, each one transaction | `Storm`, `Registry` |
| project handlers (`api/projects.go`) | a copy of a project per request | `createProjects` (create and edit), `addRoleToProject`, `deleteProjectMetrics`, queries | `ServerState`, `ProjectHandlers` |
| deployment handlers (`api/deployment.go`, `acl/*Deployment*.go`) | a copy of a project and a form per request | `createDeployment` (create and edit), `detleteDeploymentHandler`, secrets, queries | `ServerState`, `DeploymentHandlers`; secrets in `Pages` |
| server process (`main.go`) | whether it runs | start, restart, `setupPodMonitoring`, death | `EckServer` |
| cluster (external) | namespaces and their objects | create, update, delete; asynchronous removal of a namespace | `ServerState`, `EckServer` |
| container metrics (`containerMetrics`) | a map of ring buffers, one goroutine each | `AddNamespaceMetrics`, `shifter`, `GetMetrics` | key set in `ServerState` |
| audit trail (`audit`, `main.go`) | a channel of 100 events, processors, writers | `Audit`, `AuditWithRequest`, `AuditProcessor`, `setupAuditEvents` | `Audit` |
| users, login (`api/user.go`, `auth.go`, `acl/user.go`) | the bucket of users | login, create, update, delete, queries | `Accounts` |
| UI: store and session (`store/api.js`, `store/auth.js`, `App.js`, `Login.js`, `header`) | token in `sessionStorage`, `Auth`, name in the header | log in, poll, sign out, reload, private routes | `Session` |
| UI: lists and views (`projects.js`, `deployments.js`, `deploymentView.js`, `App.js`) | what each mounted page loaded | load, open, delete, regenerate secrets, back, reload | `Pages` |
| UI: deployment form (`deploymentForm.js`, `ElasticSearchForm.js`, `KibanaForm.js`) | `initialState` of the module, state of three components | load, type, add and remove nodes, switch, reset, save | `DeploymentForm` |
| UI: project form (`projectForm.js`) | table of roles, popover | load, add, edit and delete a role, reset, save | `ProjectForm` |
| UI: settings, profile, registration (`users.js`, `profile`, `Login.js`) | the list of users and its modals, the profile | list, edit, delete, save, register | `Accounts` |
| permissions (`acl/roles.go`, `actions.go`) | none | `HasPermission`, `GetActions`, `HasAction` | not modelled |
| Elasticsearch settings (`acl/elasticsearchDeployments.go`) | none | `generateConfig`; `createPodTemplate`, `GenerateKVSecret` | `generateConfig` in `DeploymentForm` |
| status, events, pods, quota, license | none | single queries to the cluster | not modelled |
| configuration, logging, toasts | none that matters to others | `LoadConfig`, `ConfigureLogging`, `Notification` | not modelled |

How they interact. `AuthMiddleware` reads user and project and calls the
handler; the handler reads the project again, calls the cluster, writes the
project, sends an audit event and answers. Handlers share the database, the
cluster, the map of windows and the audit channel, and no lock. The window of a
namespace is created by `createProjects` and at startup, and used by the pod
queries under the project's name. In the browser the router mounts pages by
path; a page asks the server once, in `componentDidMount`, and the answer
changes the page if it is still mounted. The store answers who is signed in, and
the header learns it through one callback.

What makes it hard: a project is read at the start of a request and written at
its end, whole, and so is a user; the namespace outlives or predeceases the
record; errors are shadowed (`deployment.go:35`), overwritten (`projects.go:43`)
or dropped; the windows live in memory and the records do not; two goroutines
take events out of one channel; answers arrive for pages, forms and sessions
that are no longer those that asked; React keeps a component whose route
matches before and after. `PROJECT.json` lists these hazards at their lines, with
the properties that would catch each or the reason why none does.

What would make each component correct:

* store: one request has one effect, on the record as it is (`AtomicRequests`);
  what was recorded stays until somebody asks otherwise (`RecordedUntilDeleted`);
  what was deleted stays deleted (`DeletedStaysDeleted`).
* project handlers: a project has a namespace (`NamespaceEach`), the limit range
  and the quota that were acknowledged (`AcknowledgedLimits`), a role (`Governed`)
  and a window (`Monitored`).
* deployment handlers: what is acknowledged is recorded (`CreatedIsRecorded`), as
  it was asked for (`CreatedAsAsked`); what is recorded has its Kibana
  (`KibanaAsRecorded`) and its ingress (`IngressPerDeployment`), under the ids of
  the record (`IngressAsRecorded`).
* audit trail: no event is lost (`NothingDropped`, `EventuallyWritten`), and no
  handler hangs (`EventuallyAnswered`).
* session: storage, store and header speak of one user (`OneIdentity`), who is
  signed out stays so (`SignoutSticks`), a reload ends with a known user if the
  token is still accepted (`Restored`), and the page comes to show that user's name
  and permissions (`Settles`).
* lists and views: a list shows what the server has (`ListIsCurrent`), a view what
  was created (`ResultShown`), and no replaced password (`ShowsNoOldSecret`).
* forms: they ask for what they show (`KibanaOnlyIfOn`, `SwitchedOnIsAsked`,
  `NodesAsShown`, `GrantedAsShown`), for settings as they were typed (`TypedIsAsked`,
  `SettingsRun`), and for nothing of another form (`NothingOfAnotherForm`).
* accounts: the administrator's list is true (`RowsAreCurrent`), a deleted
  account returns only in the two ways the code has for it (`ReturnsByLogin`).

The code does not have all of them: section 3 lists where TLC finds one violated.

## 2. Modules

### The server

`EckServer` EXTENDS `DeploymentHandlers` EXTENDS `ProjectHandlers` EXTENDS
`ServerState` EXTENDS `Projects` EXTENDS `Storm`.

* **Storm** (external): what one call of storm does to a table. `Update` leaves
  the fields that are Go zero values alone; `NonZeroFields` in `Projects` is
  that rule for the fields kept here.
* **Projects**: records and the functions on them.
* **ServerState**: `db`, `kube`, `windows`, `up`, `issued` and a `frame` for each
  handler: its program counter, its copy of the project (`proj`), and its form.
  `Handlers` is the number of requests in progress at once, not of requests.
* **ProjectHandlers**, **DeploymentHandlers**: one action for each call a handler
  makes. A handler is the sequence of its `pc` values:
  `cpNamespace cpQuota cpLimits cpLookup (cpSave | cpUpdate)` for
  `createProjects`, `arSave` for `addRoleToProject`, `dpNamespace dpDelete` for
  `deleteProjectMetrics`, `cdSecret (cdSecretDelete cdSecretCreate) cdElastic
  cdKibana cdProxy (cdProxyDelete cdProxyCreate) cdUpdate` for
  `createDeployment` and `ddProxy ddElastic ddKibana ddSave` for
  `detleteDeploymentHandler`. The first step of each reads the project.
* **EckServer**: the handlers together, the namespace controller, crash and
  restart, and the properties.
* **Registry**: the abstract project table. Six actions, no handlers, no cluster.
* **Audit**: the channel, its blocked senders, the processors.

What the abstraction leaves out, and why it may. Cpu and memory are one
value, as no code treats them apart. Disk, descriptions and the derived fields
(`Enabled`, `Roles`) are recomputed or only shown. The roles of a project are a
set: order and repetition matter to `GetActions` only. The deployments of a
project are a map, because the functions that change them go by name
(`FindDeployment` also takes an ID, which the UI does not send). The ids of
clusters and Kibanas are members of `Xids`: `GetID` keeps one that is there and
otherwise takes any, for each handler separately, and hosts of an ingress are
the two ids they are made of. Names are not empty, and the ids of projects are new.
`AuthMiddleware` changes nothing; its own reading of the project can panic when
lists fail, which the handlers' reading does too. A refused or lost call to the
API server has no effect (`Answers`); a call that took effect and whose answer
is lost is not modelled. `Create` followed by `Update` of one object is one
step, because nothing in between depends on another handler; `Create`, `Delete`,
`Create` of secrets and ingresses are three. The finalization of a namespace is
one step, after which it is absent. Direct changes to the cluster by others are
not modelled.

### The accounts

* **Accounts**: the table of users with the handlers that write it, each in two
  steps because it reads a record and writes all of it back (`Read`, then
  `UpdateUser`, `DeleteUser` or `SaveUser`), composed with the pages that call
  them: the list of the settings with its two modals (`OpenModal`, `SelectRole`,
  `Confirm`, `Done`, `Listed`), the profile page, the log in and the
  registration. The modals change the row of the list in place, as the code does.
  `calm`, `foreign` and `abandoned` are history variables: who may expect
  the list to be true, and of whom. The e-mail is left out, and so is the token
  (see `Session`); a password is a number. The administrator stays in the
  settings (`OpenProfile`, a bound).

### The browser

* **Session**: one tab. `stored` is the token in `sessionStorage`, `user`, `perms`
  and `header` are what the document knows, `requests` the slots for requests on the
  way. `accepted` are the users whose token the server would accept; `Expire` takes
  one out, by the hour of `auth.go:26` or because the user is deleted, and a log in
  puts it back. An answered poll brings a new token (`user.go:147`), which is that
  of the same user. `Leave` is the end of a document after `signout` set
  `window.location`: until then the page goes on running.
* **Pages**: the path, the pages that are mounted for it, and their requests. `Move`
  is React: what matches before and after stays, what does not is unmounted with its
  callbacks. `server` is the record, what runs in the cluster (`running`) and the
  secrets; the operator of Elasticsearch makes a new secret at its own time
  (`Recreate`). `ServeSave`, `ServeDelete`, `ServeRegen` and `ServeDeleteProject`
  are the handlers of the changes: a save without a Kibana is answered and not
  recorded, and the others are answered alike whether the cluster did what they
  asked for, since they drop its errors. `calm` is true of a user who waits for the
  answers before acting.
* **DeploymentForm**: JavaScript objects have names here (`module`, `child`,
  `made`), since what goes wrong in this form is that two components hold one object
  or two. `SetState` is a `setState` of the form, with the
  `componentWillReceiveProps` of both children; `Save` encodes the settings in
  place; `generateConfig` is what the server makes of them. The values in the nodes
  and in Kibana, the base URL and the version are not told apart, and the secrets of
  the keystore are left out.
* **ProjectForm**: the rows of the table are objects, and the popover holds one of
  them. The server keeps role mappings and no table: `Mappings` is what
  `createProjects` makes of the request, with the user who saves as administrator of
  a project without roles, and `LoadedRows` what `GetProject` makes of the mappings.

`Serve` and its siblings in these modules are the server as the page sees it:
one step, or a refusal. Each models one tab; the handlers among themselves are
the matter of `EckServer`. What `EckServer` shows of them is not assumed.

**MC...** are small instances; **EckServerProofs**, **ClusterProofs**,
**AuditProofs**, **AccountsProofs**, **SessionProofs**, **PagesProofs**,
**DeploymentFormProofs** and **ProjectFormProofs** hold the theorems.

## 3. Runs

| run | instance | shows |
|---|---|---|
| `MCSerial` | 1 handler, 1 id, deployments "logs" and "logs-ingress", every operation, crashes, refused limit ranges, Kibanas and lists | `RecordedUntilDeleted`; `AtomicRequests`: the database implements `Registry` |
| `MCOverlap` | 2 handlers, 2 ids that want 1 name, 1 deployment created, edited, deleted, with every refusal on the way to a namespace, refused secrets and Kibanas | `NamespaceEach`, `IngressPerDeployment` |
| `MCDeleted` | 2 handlers, 2 ids, create, deploy and delete, forms with no role, an unknown one, and a known and an unknown one, crashes, refused limit ranges and lists | `TypeOK`, `Governed`, `Monitored`, `DeletedStaysDeleted`, `CreatedAsAsked` |
| `MCCluster` | 1 handler, 2 versions, 2 xids, 2 limits, forms of creations and of edits with any ids, with and without Kibana, every refusal but of ingresses and quotas | `KibanaAsRecorded` (of the version), `IngressAsRecorded`, `AcknowledgedLimits`, `CreatedAsAsked` |
| `MCAuditLog` | 2 handlers of 2 events, channel of 2, 2 processors, 4 writers | `NothingDropped`, `EventuallyWritten`, `EventuallyAnswered` |
| `MCSession` | 2 users, 2 requests at a time, 3 reloads and log ins, tokens that expire | `OneIdentity`, `SignoutSticks`, `Restored`, `Settles` |
| `MCPages` | 2 deployments, the parts "deployment" and "secrets", 2 passwords | `ListIsCurrent`, `ShowsNoOldSecret` |
| `MCDeploymentForm` | 1 text, 1 node, settings encoded up to twice, 1 save at a time, refusals | `KibanaOnlyIfOn`, `TypedIsAsked`, `NothingOfAnotherForm` |
| `MCProjectForm` | 2 users, one of them the creator, tables of 2 rows | `GrantedAsShown` |
| `MCAccounts` | the administrator and one user, 2 roles, 1 new password | `RowsAreCurrent`, `ReturnsByLogin` |

Runs that are expected to fail, each a disagreement of the code with a
sentence of the repository (`findings` in `PROJECT.json` quotes it):

| run | property | what TLC finds |
|---|---|---|
| `MCLostUpdate` | `RecordedUntilDeleted` | of two deployments created at the same time one is not recorded |
| `MCSettingsLost` | `SettingsRun` | settings that the form encoded in a shared object are encoded again by the next form, and the nodes run without them |

The models have more of them. Each of the configurations below checks one
property with the module named before it, takes a few seconds, and ends in a short
counterexample; they are kept for whoever repairs the code, and are not among the runs.

| configuration | property | what TLC finds | against |
|---|---|---|---|
| `MCEckServer`, `MCIngressMixed.cfg` | `IngressAsRecorded` | each `createDeployment` makes ids of its own; of two that create the same deployment one has its hosts in the ingress and the other its ids in the record, of which the UI makes the links (`deploymentView.js:371`) | `README.md:82`, "setup nginx ingress for both elasticsearch and kibana for all your deployments" |
| `MCEckServer`, `MCQuotaRefused.cfg` | `AcknowledgedLimits` | the quota is refused, its error overwritten (`projects.go:43`) and the project acknowledged | `README.md:62`, "you can also set the resource limits" |
| `MCEckServer`, `MCNoKibana.cfg` | `CreatedIsRecorded` | a form with Kibana switched off is acknowledged and not recorded (`deployment.go:46`) | `README.md:76`, "Once the Deployment is created you can see the result" |
| `MCPages`, `MCResultShown.cfg` | `ResultShown` | the view that is shown after a creation was mounted for the path of the form, is kept by the router and stays empty (`deploymentView.js:165`) | the same |
| `MCDeploymentForm`, `MCKibanaUnasked.cfg` | `SwitchedOnIsAsked` | a field of Kibana is the first thing changed in a form; its switch shows on, and the save asks for none (`KibanaForm.js:38`) | `README.md:71`, "configure all the main basic parameters" |
| `MCDeploymentForm`, `MCNodesUnseen.cfg` | `NodesAsShown` | of two nodes one is removed: the first one goes, the cards keep the fields they had, and a node is sent that no card shows (`ElasticSearchForm.js:63`) | the same |

Bounds. `Ids` bounds how many projects are ever created (`IdsLeft` in
`SubmitNew`); one is enough where a property speaks of one project, two where a
deleted project has a successor or two contend for a name. Two handlers show
every pairwise interleaving, and the hazards are pairwise: one request writes
what another has read. Two `Xids` tell the ids of one handler from those of
another; where whose they are does not matter there is one. Requests repeat
without bound. `Ops` and `Faulty` choose the requests and refusals of a run;
each run takes the largest choice for which its properties hold. What makes a
property fail outside its run is in the hazards: undeploy and addRole save what
`DeletedStaysDeleted` forbids, a rename leaves deployments behind, the errors of
a refused ingress and of a refused quota are dropped, two forms for one project
may each be acknowledged while the limits of the second are there, deleting
"logs-ingress" takes the ingress of "logs", and a project that is created again
while its namespace terminates loses it. `MCCluster` has one request at a
time for the sake of `KibanaAsRecorded` and `IngressAsRecorded`, and no refused quota
or ingress for that of `AcknowledgedLimits` and `IngressAsRecorded`; `CreatedAsAsked`
is in it for the values of the forms, and in `MCDeleted` for the overlaps. `MCDeleted`
has no renames, which the theorem on `Monitored` covers.

In `Audit`, `MaxEvents` bounds the events of a
handler; with four events, a channel of two and two processors the channel is
full, empty and in between. That run stops when all events are written, hence
`CHECK_DEADLOCK FALSE`; no other run does. In `Session`, two slots are a log in
or a poll on top of another one; requests that a signed-out document left behind
are among them, and `MaxVisits` (reloads and log ins) is enough for a log in on
top of another and a reload after it. In `Pages`, two deployments are one that
is shown and one that was; `MaxGen` gives a deployment its password and another
one after it was regenerated. In the forms, two rows are enough for "the first
one is found", and `MaxCoded` is one more than the server can decode.
`MCDeploymentForm` has one node: none of its properties tells positions apart,
and `MCNodesUnseen`, whose property does, has two. `Waits`, `Free` and `Acts`
bound how many requests of one kind a user has out at a time, and say so where
they stand.

Fairness. `EckServer`, `Pages`, the forms and `Accounts` state none: their
properties are safety properties, and nothing forces a client to send or
Kubernetes to answer. `Audit` assumes weak fairness of each processor: a goroutine
that can run is run by the Go scheduler, and the writers (a file, the console) do
not block. Handlers are not assumed to be fair; a blocked sender needs nothing of
its own, as the receiver that makes room completes its send. `Session` assumes
that a browser that was sent elsewhere goes there (weak, `Leave`), that the
interval of ten seconds polls again whenever there is room (strong, `Poll`: the
two slots are a bound and not the browser's), that each request ends in an answer
or a refusal (weak), and that a server which is asked again and again with a token
that it accepts does not lose every one of the requests (strong, `UserAnswered`,
`PermsAnswered`; both are enabled only while the token is in `accepted`). A token
that has expired is never answered again and stays where it is, and `Restored` and
`Settles` promise nothing then: no refusal takes it out of the storage
(`api.js:167`). Nobody is assumed to log in, sign out or reload, nor a token to
expire or not to.

Users who wait. `ListIsCurrent`, `ShowsNoOldSecret` and `RowsAreCurrent` speak
of a user who acts when no answer is out (`calm`); the model lets the user act
at any time, and after that promises nothing until a reload. What then goes
wrong is in the hazards (`deploymentView.js:187`, `users.js:103`).

## 4. Proofs

Every invariant and every action property of the passing runs is a theorem, for
any handlers, ids, names, users, texts, and with no bound. Some theorems have
hypotheses, said of the constants: which requests and refusals there are. Each has its
reason below, and the configurations of section 3 that fail show some of them to be
needed.

The assumptions are those of the modules. Besides what the constants are, they say
that `Nil` (`None` in `Audit`) is no user, object or record, so that "absent" can be
told from every value (`NilAssumption`, `ObjectAssumption`, `NilIsNoUser`,
`FormAssumption`, `PagesAssumption`, `AuditAssumption`); JavaScript and Go have `null`
and `nil` for it. `NilIsNoUser` needs a name for the set of records, `User`, and in
`PagesAssumption` the records are `Loadable` and `View`.

`EckServerProofs` is about the database.

* `TypeCorrect`: `Spec => [](TypeOK /\ FramesOK)`. `TypeOK` alone is not inductive,
  since what a step writes depends on the handler's variables: `FramesOK` adds which
  of them are set at which `pc`, for example that at the ingress steps the copy of
  the project has the deployment, without which `ProxyHosts` would index a missing
  entry. One lemma per handler, one step per action.
* `AlwaysMonitored`: `Spec => []Monitored`. A record with a name that has no window
  can only come from a copy with such a name, so the invariant adds that every copy
  in flight is monitored, once its handler has passed `CreateNamespace`
  (`CopiesMonitored`), and that no request survives a crash (`DownAtRest`), because
  a crash empties the windows and would leave the copies unmonitored.
* `AlwaysGoverned`: `Spec => []Governed`, in the same way: every copy in flight has
  a role.
* `SerialRequestsAreAtomic`: with one handler (`OneAtATime`) `Spec` implements
  `Registry`, with the database as the refinement mapping. `SerialInv` says that the
  copy a handler has is the record it was read from, but for what the request
  changes; `WriteImplements` maps each of the writing steps to an action of
  `Registry`, and every other step leaves the database alone (`LocalStep`).
* `SerialRecordedUntilDeleted`: with one handler nothing is lost that was not asked
  for. `MCLostUpdate` is the proof that `OneAtATime` cannot go.
* `DeletedStays`: any handlers, crashes included, but no request that ends in a
  `Save` of the copy it read (`NoneSavesBack`: edit, addRole, undeploy), because
  `Save` inserts what was deleted meanwhile. The invariant (`DeletedInv`): stored
  ids were issued, and a form that will be saved has none yet.
* `RecordedAsAsked`: any handlers and no hypothesis; the property is about forms
  that name a cluster and a Kibana, since without a Kibana the handler answers 200
  and writes the project without it (`MCNoKibana`). The invariant says that from `cdProxy` on the
  copy has the deployment with the parts and ids of the form; the rest is that
  storm's `Update` leaves nothing of it out, and that a project which is gone is not
  acknowledged.

The theorems on monitors and roles rest on one analysis of all steps, `StepCases`:
each is a step of the environment or `StepOf(h)`, which says where the next copy of
`h` and the next records come from; those that follow rest on `HandlerSteps`,
which tells the steps that write from those that do not.

`ClusterProofs` is about what the handlers leave in the cluster. All five theorems
assume that no project is deleted (`NoDeletion`): the namespace goes before the record
does, and a project that is created again while its old namespace terminates is
acknowledged and loses it.

* `NamespaceForEach`: any handlers. The error of `CreateNamespace` is dropped
  (`projects.go:41`), so why is the namespace there? Because the limit range is put
  into it, and whoever gets past that has a namespace. `ActiveInv` carries this to
  every copy in flight.
* `AcknowledgedHaveLimits`: limit range and quota. One handler, since two forms for
  one project may each be acknowledged and the limits of the second be there for
  both; and `QuotasAnswered`, since the error of that call is overwritten
  (`MCQuotaRefused`). The error of the limit range is not, so it may be refused.
* `SerialKibanaAsRecorded`: one handler; `KibanaInv` says that a recorded Kibana is
  there in the recorded version, or that the request between the call and the write
  is about to settle it. Hence no crash (between the call that changes the Kibana
  and the write of its version), no rename (the new namespace is empty), and forms
  that name a cluster (`EveryEs`: a Kibana without one is changed and not recorded).
* `IngressForEach`: any handlers. A `createDeployment` deletes the ingress, which
  another may have made, and creates it, so no invariant can say that the ingress of
  a record is there. `IngressInv` says that it is there or that some handler is
  between the two calls (`Covered`), of the records and of every copy but for the
  deployment a request is bringing, and that the deployments of records and copies
  have an id for both parts, so that whoever creates it creates it with both hosts
  (`Complete`). Whose ids they are it cannot say: overlapping requests have ids of
  their own (`MCIngressMixed`). `Answering` (the error of a refused ingress is
  dropped) and `~Crashes` are what the handler relies on. The forms are any: one
  without a Kibana or without a cluster changes no deployment of the copy and comes
  to no ingress. `ApartNames` says that no deployment is named like the ingress of
  another, because deleting "logs-ingress" takes the ingress of "logs"; under
  `NoRename` the copies go on naming the namespace that the record names.
* `SerialIngressAsRecorded`: one handler; then the hosts of the ingress are the ids
  of the record, whatever ids the forms bring, and whether or not a refused cluster
  got one. `LinkedInv` is `KibanaInv` for ingresses: a recorded deployment has the
  ingress of its ids, or the request between the calls for the ingress and the write
  is about to settle it. `IngressesAnswered` and the other hypotheses are those of
  `IngressForEach`; the cluster may be refused.

`AuditProofs` is about any handlers and capacity.

* `WrittenExactlyOnce`: `Spec => []NothingDropped`. An event that is written is
  taken out of a channel that others fill, so the invariant needs the order: of one
  handler, what a processor has taken precedes what is in the buffer, and that
  precedes what waits in a send (`InOrder`); no event anywhere has a number that its
  handler has not reached (`Counted`), without which the next one would not come
  last. From the order it follows that an event that waits has not been taken;
  `HandsExact` adds that an event in hand has one processor and that the writers
  before the next one, and no others, have it. `Count` is the number of positions,
  so that `CountAppend` follows from the cardinality of finite sets and not from an
  induction over the log. One lemma for each of sending, receiving and writing.

`SessionProofs` proves `SameUser`: `Spec => []OneIdentity`, for any users, slots and
number of visits, from `SessionAssumption`. The invariant adds `TypeOK` (what a
request carries), and the work is in `Load`, which every reload and every sign out
goes through: `LoadType` is its lemma.

`PagesProofs` proves `ListsAreCurrent` and `NoOldSecretShown`, for any
deployments and parts. The two properties speak of a user for whom nothing is on
its way, so neither says what the answers on their way may bring. `PagesInv`
does, for a user who waits (`CalmOK`): a change or a timer is the only request
there is; each request belongs to the page in the path and its answer, if it is
there, is current (`Fits`); the list is current unless a change is done whose
answer is still on its way (`Changed`); the password is current unless it will
be fetched (`Fetches`). `Arrives` is the lemma for every navigation, by the user
or by the answer of a change: the latter always leads to another page, which is
why the list it finds is a new one.

`DeploymentFormProofs` proves `KibanaNeedsTheSwitch`, `AsksWhatWasTyped` and
`NodesOfThisForm`, for any texts, nodes and number of encodings. The components
share objects by name, and `FormInv` says what may differ between them: a Kibana
that is on, the form's or the one its child holds, is shown on (`SwitchedOn`;
the converse is false, `MCKibanaUnasked`); settings that were typed are in the
object of the form, not yet encoded (`TypedWaits`), because the child holds the
object of its parent once the form has data (`Settled`). `OwnNodes` adds the
cards to the nodes of `NothingOfAnotherForm`: a card keeps the node it was made
with, and editing it puts that node back.

`ProjectFormProofs` proves `RolesOfTheTable`: `Spec => []GrantedAsShown`, for
any users, creator and number of rows. The property relates what the server
keeps to what the form shows when the answer arrives, and nothing in between.
`NothingKept` says that neither an open form nor a save on its way carries
mappings, so that the server makes them of the rows, although every load brings
mappings to the page; `ShowsWhatItSent` that a form with a save on its way still
shows what was sent, unless it was loaded since (`LoadedOnce`), and `OneSave`
that there is one such save. `FreeForm` covers the handlers that change the
form.

`AccountsProofs` proves `RowsCurrent` and `ComesBackByLogin`, for any users and
roles. The list is true when nothing is on its way, so `RowsInv` says what holds
until then (`Waiting`): of the requests of the settings there is one at most
while the administrator waits; a list on its way tells the table, except of
users somebody else changed since (`foreign`); and the rows do, except of those
and of the rows that were changed and not saved (`abandoned`).
`ComesBackByLogin` is an action property; its proof goes through the handlers
that write a record.

Only model-checked: `EventuallyWritten` and `EventuallyAnswered` of `Audit` and
`SignoutSticks`, `Restored` and `Settles` of `Session`. They are liveness under
fairness, which is out of the prover's reach, as `ENABLED` is.

## 5. Not modelled, and what could follow

* `SlidingWindow`: the ring buffer of the metrics, its ticker, failing fetches and
  unlocked reads. What a reader sees there is a data race on whole structs; a
  specification would say which samples the last N ticks can leave.
* What a second save after a refusal sends, what a late load takes away from a form,
  and what the popover of the project form leaves in a row that was cancelled: the
  models have them, no property forbids them, and the hazards say so.
* Permissions: `GetActions` and `HasPermission` are pure functions of one record,
  and the UI does not depend on their result (`auth.js:56` tests a function).
* `createPodTemplate`, `GenerateKVSecret`, status, events, quota and license build
  or reshape objects of Kubernetes and keep no state.
* The values of the fields of both forms, versions, the keystore secrets, the badges
  and metrics of the lists, the toasts: data that no property here tells apart.
  `serviceWorker.js`, `store/redux.js` and `KibanaInstnace.js` are not used by the
  program.
* Events of the audit trail that are lost when the process dies.
* Theorems that could follow: the refinement of `Registry` for handlers that work on
  different projects; `KibanaAsRecorded` for overlapping requests on different
  deployments; the steps of `Audit` that `EventuallyWritten` rests on (an event only
  moves forward).
