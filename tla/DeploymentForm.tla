--------------------------- MODULE DeploymentForm ---------------------------
(***************************************************************************)
(* The form of a deployment: DeploymentForm with its children              *)
(* ElasticSearchForm, ElasticInstance (one card per node) and KibanaForm.  *)
(*                                                                         *)
(* JavaScript objects are shared and changed in place, so the model names  *)
(* the objects that "elasticsearch" and "kibana" can be: the one of the    *)
(* module's initialState, which lives as long as the document; the one the *)
(* child was constructed with; and the one that the last load or reset     *)
(* made.  A child works on the object it holds and hands it to the parent  *)
(* at each change; it takes over the object of the parent when the parent  *)
(* renders again (componentWillReceiveProps).                              *)
(*                                                                         *)
(* One deployment and one tab.                                             *)
(***************************************************************************)
EXTENDS Naturals, Sequences, SequencesExt, FiniteSetsExt

CONSTANTS Texts,     \* settings a user may type, beside none
          MaxNodes,  \* bound: nodes of a form
          MaxCoded,  \* bound: how often a form encodes its settings
          MaxSaves,  \* bound: saves that are not over
          Refusals,  \* a save may be refused
          Crashed,   \* the page is gone after an exception in a rendering
          Nil

Objects == {"module", "child", "made"}

ASSUME FormAssumption ==
  /\ Nil \notin Texts \cup Objects
  /\ {MaxNodes, MaxCoded, MaxSaves} \subseteq Nat
  /\ Refusals \in BOOLEAN

NodeIds == 1 .. 4 * MaxNodes
Nth(k, ids) == CHOOSE i \in ids : Cardinality({j \in ids : j < i}) = k - 1

\* Settings: their text, and how often JSON.stringify was applied to them.
Settings == [text : Texts \cup {Nil}, coded : 0 .. MaxCoded]
Blank == [text |-> Nil, coded |-> 0]
NewElastic == [nodes |-> <<>>, config |-> Blank]

\* "Enabled" of a Kibana: "none" if the object has no such field.
EnabledValues == {"true", "false", "none"}

VARIABLES
  elastic,   \* object -> what it has: nodes by identity, and settings
  enabled,   \* object -> Enabled of a Kibana
  hasKibana, \* initialState still has its "kibana"
  form,      \* the mounted form, Nil, or Crashed
  requests,  \* requests that are not over
  stored     \* server: the record of the deployment, or Nil

vars == <<elastic, enabled, hasKibana, form, requests, stored>>
heap == <<elastic, enabled>>

Open == form \notin {Nil, Crashed}

\* DeploymentForm.constructor and those of its children.
Mounted ==
  [named    |-> FALSE,       \* the field for the name is not empty
   whole    |-> TRUE,        \* this.state is initialState itself
   elastic  |-> "module",    \* this.state.elasticsearch
   kibana   |-> IF hasKibana THEN "module" ELSE Nil,
   held     |-> [elastic |-> "child", kibana |-> "child"],  \* of the children
   on       |-> TRUE,        \* the switch of KibanaForm
   cards    |-> <<>>,        \* the node that each card was constructed with
   typed    |-> Nil,         \* settings typed since the last load, reset or save
   own      |-> {},          \* nodes made since the form was mounted
   data     |-> "blank"]     \* "loaded" if the load came before any change,
                             \* "changed" else

Init ==
  /\ elastic = [o \in Objects |-> NewElastic]
  /\ enabled = [module |-> "true", child |-> "none", made |-> "none"]
  /\ hasKibana = TRUE
  /\ form = Nil
  /\ requests = {}
  /\ stored = Nil

------------------------------------------------------------------------------
(***************************************************************************)
(* setState of DeploymentForm, with the rendering it leads to: f is the    *)
(* form with its new fields, es and en the objects as the handler left     *)
(* them.                                                                   *)
(***************************************************************************)

\* The cards have the position as key: a card stays while there is a node at
\* its position, and keeps the node it was constructed with.
Cards(cards, nodes) ==
  [k \in DOMAIN nodes |-> IF k \in DOMAIN cards THEN cards[k] ELSE nodes[k]]

InUse(f, es) == ToSet(es[f.elastic].nodes) \cup ToSet(f.cards)

\* Of the objects, those that initialState and a form with o refer to; the
\* others are gone, and as good as new ones.
Reachable(objects, o, new) ==
  [p \in Objects |-> IF p \in {"module", o} THEN objects[p] ELSE new]

\* KibanaForm.componentWillReceiveProps: another object than the one it holds
\* is switched on.
Received(f, replaced) == replaced \/ f.kibana # f.held.kibana

\* Mutant: the object is switched on, the switch stays as it is.
SetState_SwitchStays(f, es, en, replaced) ==
  /\ elastic' = Reachable(es, f.elastic, NewElastic)
  /\ IF f.kibana = Nil
       THEN form' = Crashed /\ enabled' = Reachable(en, "module", "none")
       ELSE /\ enabled' = LET now == IF Received(f, replaced)
                                       THEN [en EXCEPT ![f.kibana] = "true"] ELSE en
                          IN Reachable(now, f.kibana, "none")
            /\ form' = [f EXCEPT !.whole = FALSE,
                                 !.held = [elastic |-> f.elastic, kibana |-> f.kibana],
                                 !.cards = Cards(f.cards, es[f.elastic].nodes),
                                 !.own = @ \cap InUse(f, es)]

\* Without a "kibana" the child reads a field of undefined, and React takes the
\* whole page away.
SetState(f, es, en, replaced) ==
  /\ elastic' = Reachable(es, f.elastic, NewElastic)
  /\ IF f.kibana = Nil
       THEN form' = Crashed /\ enabled' = Reachable(en, "module", "none")
       ELSE /\ enabled' = LET now == IF Received(f, replaced)
                                       THEN [en EXCEPT ![f.kibana] = "true"] ELSE en
                          IN Reachable(now, f.kibana, "none")
            /\ form' = [f EXCEPT !.whole = FALSE,
                                 !.held = [elastic |-> f.elastic, kibana |-> f.kibana],
                                 !.on = @ \/ Received(f, replaced),
                                 !.cards = Cards(f.cards, es[f.elastic].nodes),
                                 !.own = @ \cap InUse(f, es)]

Changed(data) == IF data = "blank" THEN "changed" ELSE data
Loaded(data) == IF data = "blank" THEN "loaded" ELSE data

\* A handler of the form while it is open.
Input(f, es, en) ==
  /\ SetState([f EXCEPT !.data = Changed(@)], es, en, FALSE)
  /\ UNCHANGED <<hasKibana, requests, stored>>

\* Nodes that nothing refers to.
Free ==
  NodeIds \ (UNION {ToSet(elastic[o].nodes) : o \in Objects} \cup ToSet(form.cards))

\* The first n free nodes, as new objects.
NewNodes(n) == [k \in 1 .. n |-> Nth(k, Free)]

------------------------------------------------------------------------------
\* onTextChange (the name; the base URL is nothing but a field), and
\* onVersionChange, which reaches into "kibana".
TypeName == Open /\ Input([form EXCEPT !.named = TRUE], elastic, enabled)
SelectVersion == Open /\ form.kibana # Nil /\ Input(form, elastic, enabled)

\* ElasticSearchForm: what it changes is the object it holds.
Elastic(e, f) ==
  Input([f EXCEPT !.elastic = f.held.elastic],
        [elastic EXCEPT ![f.held.elastic] = e], enabled)
HeldElastic == elastic[form.held.elastic]

AddNode ==
  /\ Open
  /\ Len(HeldElastic.nodes) < MaxNodes
  /\ Elastic([HeldElastic EXCEPT !.nodes = @ \o NewNodes(1)],
             [form EXCEPT !.own = @ \cup ToSet(NewNodes(1))])

\* removeNode looks for the "id" of the card's node; no node has one, and the
\* first of them matches.
RemoveNode ==
  /\ Open
  /\ HeldElastic.nodes # <<>>
  /\ Elastic([HeldElastic EXCEPT !.nodes = Tail(@)], form)

\* ElasticInstance.onChange and onTextChange change the card's own node, and
\* onNodeConfigChange puts it where the first node is.
EditNode(k) ==
  /\ Open
  /\ k \in DOMAIN form.cards
  /\ Elastic([HeldElastic EXCEPT !.nodes[1] = form.cards[k]], form)

\* Mutant: the parent is not told.
TypeSettings_NotHanded(text) ==
  /\ Open
  /\ elastic' = [elastic EXCEPT ![form.held.elastic].config =
                                  [text |-> text, coded |-> 0]]
  /\ form' = [form EXCEPT !.typed = text, !.data = Changed(@)]
  /\ UNCHANGED <<enabled, hasKibana, requests, stored>>

\* onCodeChange.  A text that is no YAML changes nothing.
TypeSettings(text) ==
  /\ Open
  /\ Elastic([HeldElastic EXCEPT !.config = [text |-> text, coded |-> 0]],
             [form EXCEPT !.typed = text])

\* KibanaForm.onChange, and its other fields (onTextChange, onCodeChange).
Switch(b) ==
  /\ Open
  /\ Input([form EXCEPT !.on = b, !.kibana = form.held.kibana], elastic,
           [enabled EXCEPT ![form.held.kibana] = IF b THEN "true" ELSE "false"])
TypeKibana ==
  Open /\ Input([form EXCEPT !.kibana = form.held.kibana], elastic, enabled)

\* clearForm.
Reset ==
  /\ Open
  /\ SetState([form EXCEPT !.named = FALSE, !.elastic = "made", !.kibana = "made",
                           !.typed = Nil, !.data = "changed"],
              [elastic EXCEPT !["made"] = NewElastic],
              [enabled EXCEPT !["made"] = "none"], TRUE)
  /\ UNCHANGED <<hasKibana, requests, stored>>

------------------------------------------------------------------------------
\* The router mounts and unmounts the form; a new document has a new
\* initialState.
OpenForm(edit) ==
  /\ form = Nil
  /\ edit => stored # Nil
  /\ form' = Mounted
  /\ elastic' = Reachable(elastic, "module", NewElastic)
  /\ enabled' = [enabled EXCEPT !["child"] = "none", !["made"] = "none"]
  /\ requests' = requests \cup (IF edit THEN {[op |-> "load"]} ELSE {})
  /\ UNCHANGED <<hasKibana, stored>>

Unmounted == {r \in requests : r.op # "load"}

Leave ==
  /\ Open
  /\ form' = Nil
  /\ elastic' = Reachable(elastic, "module", NewElastic)
  /\ requests' = Unmounted
  /\ UNCHANGED <<enabled, hasKibana, stored>>

Reload ==
  /\ requests = {}
  /\ form' = Nil
  /\ elastic' = [o \in Objects |-> NewElastic]
  /\ enabled' = [module |-> "true", child |-> "none", made |-> "none"]
  /\ hasKibana' = TRUE
  /\ UNCHANGED <<requests, stored>>

\* onFormSave: the settings are encoded in place (an empty object is empty in
\* any encoding), and a "kibana" that is not
\* enabled is deleted from this.state, which may be initialState itself.
Coded(config) == IF config.text = Nil THEN config ELSE [config EXCEPT !.coded = @ + 1]

Save ==
  /\ Open
  /\ elastic[form.elastic].config.coded < MaxCoded
  /\ Cardinality({r \in requests : r.op # "load"}) < MaxSaves
  /\ elastic' = [elastic EXCEPT ![form.elastic].config = Coded(@)]
  /\ IF form.kibana = Nil
       THEN UNCHANGED <<form, hasKibana, requests>>  \* a TypeError, nothing is sent
       ELSE LET kept == enabled[form.kibana] = "true" IN
            /\ requests' = requests \cup
                 {[op     |-> "save",
                   named  |-> form.named,
                   nodes  |-> Len(elastic[form.elastic].nodes),
                   config |-> Coded(elastic[form.elastic].config),
                   kibana |-> kept,
                   typed  |-> form.typed]}
            /\ form' = [form EXCEPT !.kibana = IF kept THEN @ ELSE Nil, !.typed = Nil]
            /\ hasKibana' = (hasKibana /\ (kept \/ ~form.whole))
  /\ UNCHANGED <<enabled, stored>>

------------------------------------------------------------------------------
\* What the nodes are told of their settings: those that are not an object
\* encoded once are ignored.
generateConfig(config) == IF config.coded = 1 THEN config.text ELSE Nil

\* createDeployment on the server: a deployment is recorded if it has both
\* parts, which a form without a name has not.
ServeSave(r) ==
  /\ r.op = "save"
  /\ requests' = (requests \ {r}) \cup {[op |-> "saved"]}
  /\ stored' = IF r.named /\ r.kibana
                 THEN [nodes |-> r.nodes, config |-> r.config] ELSE stored
  /\ UNCHANGED <<heap, hasKibana, form>>

\* The request is refused or lost: the form stays as Save left it.
RefuseSave(r) ==
  /\ Refusals
  /\ r.op = "save"
  /\ requests' = requests \ {r}
  /\ UNCHANGED <<heap, hasKibana, form, stored>>

\* The answer pushes the path of the deployment, whatever is mounted by then.
Saved ==
  /\ [op |-> "saved"] \in requests
  /\ form' = IF Open THEN Nil ELSE form
  /\ requests' = (IF Open THEN Unmounted ELSE requests) \ {[op |-> "saved"]}
  /\ UNCHANGED <<heap, hasKibana, stored>>

\* Mutant: the loaded settings and nodes are added to those that are there.
Load_Added ==
  /\ Open
  /\ [op |-> "load"] \in requests
  /\ LET e == elastic[form.elastic]
         n == Min({stored.nodes, MaxNodes - Len(e.nodes)}) IN
     SetState([form EXCEPT !.named = TRUE, !.elastic = "made", !.kibana = "made",
                           !.typed = Nil, !.data = Loaded(@),
                           !.own = @ \cup ToSet(NewNodes(n))],
              [elastic EXCEPT !["made"] =
                 [nodes |-> e.nodes \o NewNodes(n), config |-> stored.config]],
              [enabled EXCEPT !["made"] = "none"], TRUE)
  /\ requests' = requests \ {[op |-> "load"]}
  /\ UNCHANGED <<hasKibana, stored>>

\* componentDidMount: the record replaces the name, "elasticsearch" and
\* "kibana", whatever was typed before.
Load ==
  /\ Open
  /\ [op |-> "load"] \in requests
  /\ SetState([form EXCEPT !.named = TRUE, !.elastic = "made", !.kibana = "made",
                           !.typed = Nil, !.data = Loaded(@),
                           !.own = @ \cup ToSet(NewNodes(stored.nodes))],
              [elastic EXCEPT !["made"] =
                 [nodes |-> NewNodes(stored.nodes), config |-> stored.config]],
              [enabled EXCEPT !["made"] = "none"], TRUE)
  /\ requests' = requests \ {[op |-> "load"]}
  /\ UNCHANGED <<hasKibana, stored>>

\* The load fails, or finds no form to show it in.
LoadFails ==
  /\ [op |-> "load"] \in requests
  /\ requests' = requests \ {[op |-> "load"]}
  /\ UNCHANGED <<heap, hasKibana, form, stored>>

Next ==
  \/ TypeName \/ SelectVersion \/ AddNode \/ RemoveNode \/ TypeKibana
  \/ \E k \in 1 .. MaxNodes : EditNode(k)
  \/ \E text \in Texts : TypeSettings(text)
  \/ \E b \in BOOLEAN : Switch(b) \/ OpenForm(b)
  \/ Reset \/ Leave \/ Reload \/ Save
  \/ \E r \in requests : ServeSave(r) \/ RefuseSave(r)
  \/ Saved \/ Load \/ LoadFails

Spec == Init /\ [][Next]_vars

------------------------------------------------------------------------------
\* Kibana is not asked for while its switch is off, although the objects it is
\* read from are switched on behind the switch by each load and each reset.
KibanaOnlyIfOn ==
  Open /\ form.named /\ form.kibana # Nil /\ enabled[form.kibana] = "true" => form.on

\* The other way round, "configure all the main basic parameters that is needed
\* to create an elasticsearch cluster and kibana": a form that shows the switch
\* on asks for a Kibana.
SwitchedOnIsAsked ==
  Open /\ form.named /\ form.kibana # Nil /\ form.on => enabled[form.kibana] = "true"

\* And the nodes that a form asks for are those whose fields its cards show.  A
\* card has the name of the node at its position, and the fields of the node it
\* was constructed with.
NodesAsShown == Open /\ form.named => form.cards = elastic[form.elastic].nodes

\* Settings that were typed, and not overwritten by a load or a reset since,
\* are asked for by the first save after that, encoded once.
TypedIsAsked ==
  \A r \in requests :
    r.op = "save" /\ r.typed # Nil => r.config = [text |-> r.typed, coded |-> 1]

\* A form that has loaded its deployment before anything was changed in it has
\* no node of an earlier form, although initialState keeps them.
NothingOfAnotherForm ==
  Open /\ form.data = "loaded" =>
    ToSet(elastic[form.elastic].nodes) \subseteq form.own

\* "This view also supports adding in custom elasticsearch.yml": the nodes of a
\* deployment run with the settings that its record, and so its form, shows.
SettingsRun == stored # Nil => generateConfig(stored.config) = stored.config.text
=============================================================================
