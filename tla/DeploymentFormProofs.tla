------------------------ MODULE DeploymentFormProofs ------------------------
(***************************************************************************)
(* For any settings and any number of nodes, encodings and saves: the      *)
(* switch of Kibana, the settings of the first save, and whose nodes a     *)
(* loaded form has.                                                        *)
(***************************************************************************)
EXTENDS DeploymentForm, TLAPS

\* The identities that a node can get.
Nodes == {Nth(k, ids) : k \in Nat, ids \in SUBSET NodeIds}

ElasticObject == [nodes : Seq(Nodes), config : Settings]
Form ==
  [named : BOOLEAN, whole : BOOLEAN, elastic : Objects, kibana : Objects \cup {Nil},
   held : [elastic : Objects, kibana : Objects], on : BOOLEAN, cards : Seq(Nodes),
   typed : Texts \cup {Nil}, own : SUBSET Nodes, data : {"blank", "loaded", "changed"}]
Record == [nodes : Nat, config : Settings]
SaveRequest ==
  [op : {"save"}, named : BOOLEAN, nodes : Nat, config : Settings, kibana : BOOLEAN,
   typed : Texts \cup {Nil}]
Request == SaveRequest \cup [op : {"load", "saved"}]

Types ==
  /\ elastic \in [Objects -> ElasticObject]
  /\ enabled \in [Objects -> EnabledValues]
  /\ hasKibana \in BOOLEAN
  /\ form \in Form \cup {Nil, Crashed}
  /\ requests \subseteq Request
  /\ stored \in Record \cup {Nil}
  /\ [op |-> "load"] \in requests => stored \in Record

\* The child holds the object of the parent.
Settled(f) == f.held.elastic = f.elastic

\* Of a Kibana that is on, in the form or in its child, the switch is on.
SwitchedOn(f, en) ==
  \A o \in Objects \cap {f.kibana, f.held.kibana} : en[o] = "true" => f.on

\* The settings that were typed wait in the object to be encoded.
TypedWaits(f, es) ==
  f.typed # Nil => es[f.elastic].config = [text |-> f.typed, coded |-> 0]

\* The nodes and the cards of a form that loaded first were made for it.
OwnNodes(f, es) ==
  f.data = "loaded" => ToSet(es[f.elastic].nodes) \cup ToSet(f.cards) \subseteq f.own

FormOK ==
  /\ SwitchedOn(form, enabled)
  /\ TypedWaits(form, elastic)
  /\ OwnNodes(form, elastic)
  /\ form.kibana = Nil => form.typed = Nil
  /\ IF form.data = "blank" THEN ~form.named /\ form.typed = Nil /\ form.cards = <<>>
                            ELSE Settled(form)

FormInv == Types /\ (Open => FormOK) /\ TypedIsAsked

LEMMA NewElasticType == NewElastic \in ElasticObject
BY FormAssumption DEF NewElastic, ElasticObject, Blank, Settings

LEMMA InitForm == Init => FormInv
BY FormAssumption DEF Init, FormInv, Types, ElasticObject, NewElastic, Blank, Settings,
   EnabledValues, Objects, Open, TypedIsAsked

------------------------------------------------------------------------------
(***************************************************************************)
(* Sequences of nodes.                                                     *)
(***************************************************************************)
LEMMA NewNodesType ==
  ASSUME NEW n \in Nat
  PROVE  NewNodes(n) \in Seq(Nodes) /\ Len(NewNodes(n)) = n
<1>1. Free \in SUBSET NodeIds
  BY DEF Free
<1>2. ASSUME NEW k \in 1 .. n, NEW ids \in SUBSET NodeIds PROVE Nth(k, ids) \in Nodes
  BY DEF Nodes
<1> QED
  BY <1>1, <1>2 DEF NewNodes

LEMMA CardsType ==
  ASSUME NEW cards \in Seq(Nodes), NEW nodes \in Seq(Nodes)
  PROVE  /\ Cards(cards, nodes) \in Seq(Nodes)
         /\ Len(Cards(cards, nodes)) = Len(nodes)
         /\ ToSet(Cards(cards, nodes)) \subseteq ToSet(nodes) \cup ToSet(cards)
<1>1. Cards(cards, nodes) =
        [k \in 1 .. Len(nodes) |-> IF k \in 1 .. Len(cards) THEN cards[k] ELSE nodes[k]]
  BY DEF Cards
<1> QED
  BY <1>1 DEF ToSet

LEMMA AppendNodes ==
  ASSUME NEW s \in Seq(Nodes), NEW t \in Seq(Nodes)
  PROVE  s \o t \in Seq(Nodes) /\ ToSet(s \o t) = ToSet(s) \cup ToSet(t)
<1>1. s \o t \in Seq(Nodes) /\ Len(s \o t) = Len(s) + Len(t)
  OBVIOUS
<1>2. ASSUME NEW x \in ToSet(s \o t) PROVE x \in ToSet(s) \cup ToSet(t)
  <2>1. PICK k \in 1 .. Len(s) + Len(t) : x = (s \o t)[k]
    BY <1>1 DEF ToSet
  <2>2. CASE k <= Len(s)
    BY <2>1, <2>2 DEF ToSet
  <2>3. CASE k > Len(s)
    <3>1. x = t[k - Len(s)] /\ k - Len(s) \in 1 .. Len(t)
      BY <2>1, <2>3
    <3> QED
      BY <3>1 DEF ToSet
  <2> QED
    BY <2>2, <2>3
<1>3. ASSUME NEW k \in 1 .. Len(s) PROVE s[k] \in ToSet(s \o t)
  <2>1. s[k] = (s \o t)[k] /\ k \in 1 .. Len(s \o t)
    BY <1>1
  <2> QED
    BY <1>1, <2>1 DEF ToSet
<1>4. ASSUME NEW k \in 1 .. Len(t) PROVE t[k] \in ToSet(s \o t)
  <2>1. t[k] = (s \o t)[k + Len(s)] /\ k + Len(s) \in 1 .. Len(s \o t)
    BY <1>1
  <2> QED
    BY <1>1, <2>1 DEF ToSet
<1>5. DOMAIN s = 1 .. Len(s) /\ DOMAIN t = 1 .. Len(t)
  OBVIOUS
<1>6. ToSet(s) \subseteq ToSet(s \o t)
  <2>1. \A x \in ToSet(s) : \E k \in 1 .. Len(s) : x = s[k]
    BY <1>5 DEF ToSet
  <2> QED
    BY <1>3, <2>1
<1>7. ToSet(t) \subseteq ToSet(s \o t)
  <2>1. \A x \in ToSet(t) : \E k \in 1 .. Len(t) : x = t[k]
    BY <1>5 DEF ToSet
  <2> QED
    BY <1>4, <2>1
<1> QED
  BY <1>1, <1>2, <1>6, <1>7

LEMMA TailNodes ==
  ASSUME NEW s \in Seq(Nodes), s # <<>>
  PROVE  Tail(s) \in Seq(Nodes) /\ ToSet(Tail(s)) \subseteq ToSet(s)
<1>1. /\ Tail(s) \in Seq(Nodes) /\ Len(Tail(s)) = Len(s) - 1
      /\ \A k \in 1 .. Len(s) - 1 : Tail(s)[k] = s[k + 1] /\ k + 1 \in 1 .. Len(s)
  OBVIOUS
<1> QED
  BY <1>1 DEF ToSet

LEMMA FirstReplaced ==
  ASSUME NEW s \in Seq(Nodes), NEW x \in Nodes
  PROVE  /\ [s EXCEPT ![1] = x] \in Seq(Nodes)
         /\ ToSet([s EXCEPT ![1] = x]) \subseteq ToSet(s) \cup {x}
<1> DEFINE t == [s EXCEPT ![1] = x]
<1>1. /\ DOMAIN t = DOMAIN s
      /\ \A k \in DOMAIN s : t[k] = IF k = 1 THEN x ELSE s[k]
  OBVIOUS
<1>2. t = [k \in 1 .. Len(s) |-> IF k = 1 THEN x ELSE s[k]]
  OBVIOUS
<1>3. [k \in 1 .. Len(s) |-> IF k = 1 THEN x ELSE s[k]] \in Seq(Nodes)
  OBVIOUS
<1> HIDE DEF t
<1>4. ToSet(t) \subseteq ToSet(s) \cup {x}
  BY <1>1 DEF ToSet
<1> QED
  BY <1>2, <1>3, <1>4 DEF t

LEMMA NodesOf ==
  ASSUME NEW s \in Seq(Nodes)
  PROVE  ToSet(s) \subseteq Nodes
BY DEF ToSet

------------------------------------------------------------------------------
(***************************************************************************)
(* Every rendering leaves the form settled.                                *)
(***************************************************************************)

\* What a handler leaves before the form is rendered.
Handled(f, es, en, replaced) ==
  /\ f \in Form /\ f.data # "blank"
  /\ es \in [Objects -> ElasticObject]
  /\ en \in [Objects -> EnabledValues]
  /\ ~Received(f, replaced) => SwitchedOn(f, en)
  /\ TypedWaits(f, es)
  /\ OwnNodes(f, es)

LEMMA Rendered ==
  ASSUME NEW f, NEW es, NEW en, NEW replaced \in BOOLEAN,
         Handled(f, es, en, replaced), SetState(f, es, en, replaced)
  PROVE  /\ elastic' \in [Objects -> ElasticObject]
         /\ enabled' \in [Objects -> EnabledValues]
         /\ form' \in Form \cup {Crashed}
         /\ Open' => FormOK'
<1>0. /\ f \in Form /\ f.elastic \in Objects /\ f.data \in {"loaded", "changed"}
      /\ es \in [Objects -> ElasticObject] /\ en \in [Objects -> EnabledValues]
      /\ es[f.elastic].nodes \in Seq(Nodes) /\ f.cards \in Seq(Nodes)
  BY DEF Handled, Form, ElasticObject
<1>1. /\ elastic' \in [Objects -> ElasticObject]
      /\ elastic'[f.elastic] = es[f.elastic]
  BY <1>0, NewElasticType DEF SetState, Reachable
<1>2. CASE f.kibana = Nil
  <2>1. form' = Crashed /\ enabled' = Reachable(en, "module", "none")
    BY <1>2 DEF SetState
  <2>2. enabled' \in [Objects -> EnabledValues]
    BY <1>0, <2>1 DEF Reachable, EnabledValues
  <2> QED
    BY <1>1, <2>1, <2>2 DEF Open
<1>3. CASE f.kibana # Nil
  <2> DEFINE k == f.kibana
             now == IF Received(f, replaced) THEN [en EXCEPT ![k] = "true"] ELSE en
             cards == Cards(f.cards, es[f.elastic].nodes)
             own == f.own \cap InUse(f, es)
             g == [f EXCEPT !.whole = FALSE,
                            !.held = [elastic |-> f.elastic, kibana |-> f.kibana],
                            !.on = @ \/ Received(f, replaced),
                            !.cards = cards, !.own = own]
  <2>1. form' = g /\ enabled' = Reachable(now, k, "none")
    BY <1>3 DEF SetState
  <2>2. /\ k \in Objects
        /\ now \in [Objects -> EnabledValues]
    BY <1>0, <1>3 DEF Form, EnabledValues
  <2>3. enabled' \in [Objects -> EnabledValues] /\ enabled'[k] = now[k]
    BY <2>1, <2>2 DEF Reachable, EnabledValues
  <2>4. /\ cards \in Seq(Nodes) /\ Len(cards) = Len(es[f.elastic].nodes)
        /\ ToSet(cards) \subseteq InUse(f, es)
    BY <1>0, CardsType DEF InUse
  <2>5. Received(f, replaced) \in BOOLEAN
    BY DEF Received
  <2> HIDE DEF cards
  <2>6. /\ g \in Form
        /\ g.named = f.named /\ g.typed = f.typed /\ g.data = f.data
        /\ g.elastic = f.elastic /\ g.kibana = k
        /\ g.held = [elastic |-> f.elastic, kibana |-> k]
        /\ g.on = (f.on \/ Received(f, replaced)) /\ g.cards = cards /\ g.own = own
    BY <1>0, <2>2, <2>4, <2>5 DEF Form
  <2> HIDE DEF g, own
  <2>7. SwitchedOn(g, enabled')
    <3>1. ~Received(f, replaced) => f.held.kibana = k /\ now = en
      BY DEF Received
    <3>2. CASE Received(f, replaced)
      BY <2>6, <3>2 DEF SwitchedOn
    <3>3. CASE ~Received(f, replaced)
      <4>1. SwitchedOn(f, en)
        BY <3>3 DEF Handled
      <4>2. f.on => g.on
        BY <2>6, Zenon
      <4>3. enabled'[k] = en[k] /\ f.kibana = k /\ g.kibana = k /\ g.held.kibana = k
        BY <2>3, <2>6, <3>1, <3>3
      <4>4. f.on \in BOOLEAN /\ k \in Objects
        BY <1>0, <2>2 DEF Form
      <4>5. enabled'[k] = "true" => g.on
        BY <3>1, <3>3, <4>1, <4>3, <4>4, <4>2 DEF SwitchedOn
      <4> QED
        BY <4>3, <4>5 DEF SwitchedOn
    <3> QED
      BY <3>2, <3>3
  <2>8. TypedWaits(g, elastic')
    BY <1>1, <2>6 DEF TypedWaits, Handled
  <2>9. OwnNodes(g, elastic')
    <3>1. ASSUME g.data = "loaded"
          PROVE  ToSet(es[f.elastic].nodes) \cup ToSet(cards) \subseteq own
      <4>1. ToSet(es[f.elastic].nodes) \cup ToSet(f.cards) \subseteq f.own
        BY <2>6, <3>1 DEF Handled, OwnNodes
      <4>2. InUse(f, es) = ToSet(es[f.elastic].nodes) \cup ToSet(f.cards)
        BY DEF InUse
      <4> QED
        BY <2>4, <4>1, <4>2 DEF own
    <3> QED
      BY <1>1, <2>6, <3>1 DEF OwnNodes
  <2>10. Settled(g) /\ g.data # "blank"
    BY <1>0, <1>1, <2>4, <2>6 DEF Settled
  <2>11. FormOK'
    <3>1. SwitchedOn(form, enabled)'
      BY <2>1, <2>7 DEF SwitchedOn
    <3>2. TypedWaits(form, elastic)'
      BY <2>1, <2>8 DEF TypedWaits
    <3>3. OwnNodes(form, elastic)'
      BY <2>1, <2>9 DEF OwnNodes
    <3>4. Settled(form)' /\ form'.data # "blank" /\ form'.kibana # Nil
      BY <1>3, <2>1, <2>6, <2>10 DEF Settled
    <3> QED
      BY <3>1, <3>2, <3>3, <3>4 DEF FormOK
  <2> QED
    BY <1>1, <2>1, <2>3, <2>6, <2>11
<1> QED
  BY <1>2, <1>3

------------------------------------------------------------------------------
\* A handler of the form leaves it in order, if it keeps the switch with the
\* object that is shown, what was typed in the object, and the nodes its own.
LEMMA InputStep ==
  ASSUME FormInv, NEW f \in Form, NEW es \in [Objects -> ElasticObject],
         NEW en \in [Objects -> EnabledValues], Input(f, es, en),
         f.kibana = f.held.kibana => SwitchedOn(f, en),
         TypedWaits(f, es), OwnNodes(f, es)
  PROVE  FormInv'
<1> DEFINE g == [f EXCEPT !.data = Changed(@)]
<1>1. SetState(g, es, en, FALSE) /\ hasKibana' = hasKibana /\ requests' = requests
      /\ stored' = stored
  BY DEF Input
<1>2. /\ g \in Form /\ g.data # "blank" /\ (g.data = "loaded" <=> f.data = "loaded")
      /\ g.kibana = f.kibana /\ g.held = f.held /\ g.typed = f.typed /\ g.on = f.on
      /\ g.elastic = f.elastic /\ g.own = f.own /\ g.cards = f.cards
  BY DEF Form, Changed
<1> HIDE DEF g
<1>3. ~Received(g, FALSE) => SwitchedOn(g, en)
  BY <1>2 DEF Received, SwitchedOn
<1>4. TypedWaits(g, es) /\ OwnNodes(g, es)
  BY <1>2 DEF TypedWaits, OwnNodes
<1>5. Handled(g, es, en, FALSE)
  BY <1>2, <1>3, <1>4 DEF Handled
<1> QED
  BY <1>1, <1>5, Rendered DEF FormInv, Types, TypedIsAsked

\* Nothing but the form and its objects is at stake while it is in order.
LEMMA OpenForms ==
  ASSUME FormInv, Open
  PROVE  /\ form \in Form /\ form.elastic \in Objects /\ form.held.elastic \in Objects
         /\ form.held.kibana \in Objects /\ form.cards \in Seq(Nodes) /\ form.own \subseteq Nodes
         /\ elastic \in [Objects -> ElasticObject] /\ enabled \in [Objects -> EnabledValues]
         /\ HeldElastic \in ElasticObject
         /\ SwitchedOn(form, enabled) /\ TypedWaits(form, elastic) /\ OwnNodes(form, elastic)
         /\ form.typed # Nil \/ form.data = "loaded" => form.held.elastic = form.elastic
<1>1. form \in Form
  BY DEF FormInv, Types, Open
<1> QED
  BY <1>1 DEF FormInv, Types, FormOK, Form, Settled, HeldElastic

\* ElasticSearchForm and its cards: the nodes of the object that is held change.
LEMMA NodesStep ==
  ASSUME FormInv, Open, NEW ns \in Seq(Nodes), NEW own \in SUBSET Nodes,
         NEW f, f = [form EXCEPT !.own = own] ,
         Elastic([HeldElastic EXCEPT !.nodes = ns], f),
         form.own \subseteq own,
         form.data = "loaded" => ToSet(ns) \subseteq own
  PROVE  FormInv'
<1> DEFINE e == [HeldElastic EXCEPT !.nodes = ns]
           h == form.held.elastic
           es == [elastic EXCEPT ![h] = e]
           g == [f EXCEPT !.elastic = h]
<1>1. /\ e \in ElasticObject /\ e.nodes = ns /\ e.config = elastic[h].config
      /\ es \in [Objects -> ElasticObject] /\ es[h] = e
  BY OpenForms DEF ElasticObject, HeldElastic
<1>2. /\ f \in Form /\ f.held = form.held
      /\ g \in Form /\ g.elastic = h /\ g.held = form.held /\ g.kibana = form.kibana
      /\ g.on = form.on /\ g.typed = form.typed /\ g.data = form.data
      /\ g.cards = form.cards /\ g.own = own
  BY OpenForms DEF Form
<1>3. Input(g, es, enabled)
  BY <1>2 DEF Elastic
<1> HIDE DEF e, es, g
<1>4. SwitchedOn(g, enabled)
  BY <1>2, OpenForms DEF SwitchedOn
<1>5. TypedWaits(g, es)
  BY <1>1, <1>2, OpenForms DEF TypedWaits
<1>6. OwnNodes(g, es)
  BY <1>1, <1>2, OpenForms DEF OwnNodes
<1> QED
  BY <1>1, <1>2, <1>3, <1>4, <1>5, <1>6, OpenForms, InputStep

\* The handlers of the fields and of the cards.
LEMMA InputsKept ==
  ASSUME FormInv,
         \/ TypeName \/ SelectVersion \/ AddNode \/ RemoveNode \/ TypeKibana
         \/ \E k \in 1 .. MaxNodes : EditNode(k)
         \/ \E text \in Texts : TypeSettings(text)
         \/ \E b \in BOOLEAN : Switch(b)
  PROVE  FormInv'
<1>0. Open
  BY DEF TypeName, SelectVersion, AddNode, RemoveNode, TypeKibana, EditNode, TypeSettings, Switch
<1>1. CASE TypeName
  <2> DEFINE g == [form EXCEPT !.named = TRUE]
  <2>1. /\ g \in Form /\ g.kibana = form.kibana /\ g.held = form.held /\ g.on = form.on
        /\ g.typed = form.typed /\ g.elastic = form.elastic /\ g.data = form.data
        /\ g.cards = form.cards /\ g.own = form.own
    BY <1>0, OpenForms DEF Form
  <2>2. Input(g, elastic, enabled)
    BY <1>1 DEF TypeName
  <2> HIDE DEF g
  <2>3. SwitchedOn(g, enabled) /\ TypedWaits(g, elastic) /\ OwnNodes(g, elastic)
    BY <1>0, <2>1, OpenForms DEF SwitchedOn, TypedWaits, OwnNodes
  <2> QED
    BY <1>0, <2>1, <2>2, <2>3, OpenForms, InputStep
<1>2. CASE SelectVersion
  BY <1>0, <1>2, OpenForms, InputStep DEF SelectVersion
<1>3. CASE AddNode
  <2> DEFINE new == NewNodes(1)
             ns == HeldElastic.nodes \o new
             f == [form EXCEPT !.own = @ \cup ToSet(new)]
  <2>1. new \in Seq(Nodes) /\ ToSet(new) \subseteq Nodes
    BY NewNodesType, NodesOf
  <2>2. HeldElastic.nodes \in Seq(Nodes)
    BY <1>0, OpenForms DEF ElasticObject
  <2>3. Elastic([HeldElastic EXCEPT !.nodes = ns], f)
    BY <1>3 DEF AddNode
  <2> HIDE DEF new
  <2>4. ns \in Seq(Nodes) /\ ToSet(ns) = ToSet(HeldElastic.nodes) \cup ToSet(new)
    BY <2>1, <2>2, AppendNodes
  <2>5. f = [form EXCEPT !.own = form.own \cup ToSet(new)]
    OBVIOUS
  <2>6. form.data = "loaded" => ToSet(HeldElastic.nodes) \subseteq form.own
    BY <1>0, OpenForms DEF OwnNodes, HeldElastic
  <2> HIDE DEF ns, f
  <2>7. form.own \cup ToSet(new) \in SUBSET Nodes
    BY <1>0, <2>1, OpenForms
  <2> QED
    BY <1>0, <2>3, <2>4, <2>5, <2>6, <2>7, NodesStep
<1>4. ASSUME NEW ns \in Seq(Nodes), Elastic([HeldElastic EXCEPT !.nodes = ns], form),
             ToSet(ns) \subseteq ToSet(HeldElastic.nodes) \cup ToSet(form.cards)
      PROVE  FormInv'
  <2>1. form = [form EXCEPT !.own = form.own]
    BY <1>0, OpenForms DEF Form
  <2>2. form.data = "loaded" => ToSet(ns) \subseteq form.own
    BY <1>0, <1>4, OpenForms DEF OwnNodes, HeldElastic
  <2>3. form.own \in SUBSET Nodes
    BY <1>0, OpenForms
  <2> QED
    BY <1>0, <1>4, <2>1, <2>2, <2>3, NodesStep
<1>5. CASE RemoveNode
  <2>1. HeldElastic.nodes \in Seq(Nodes) /\ HeldElastic.nodes # <<>>
    BY <1>0, <1>5, OpenForms DEF RemoveNode, ElasticObject
  <2>2. Elastic([HeldElastic EXCEPT !.nodes = Tail(HeldElastic.nodes)], form)
    BY <1>5 DEF RemoveNode
  <2> QED
    BY <1>4, <2>1, <2>2, TailNodes
<1>6. ASSUME NEW k \in 1 .. MaxNodes, EditNode(k) PROVE FormInv'
  <2> DEFINE ns == [HeldElastic.nodes EXCEPT ![1] = form.cards[k]]
  <2>1. HeldElastic \in ElasticObject /\ HeldElastic.nodes \in Seq(Nodes)
    BY <1>0, OpenForms DEF ElasticObject
  <2>2. form.cards[k] \in Nodes /\ form.cards[k] \in ToSet(form.cards)
    BY <1>0, <1>6, OpenForms DEF EditNode, ToSet
  <2>3. Elastic([HeldElastic EXCEPT !.nodes = ns], form)
    BY <1>6 DEF EditNode
  <2>4. ns \in Seq(Nodes) /\ ToSet(ns) \subseteq ToSet(HeldElastic.nodes) \cup ToSet(form.cards)
    BY <2>1, <2>2, FirstReplaced
  <2> QED
    BY <1>4, <2>3, <2>4
<1>7. ASSUME NEW text \in Texts, TypeSettings(text) PROVE FormInv'
  <2> DEFINE h == form.held.elastic
             c == [text |-> text, coded |-> 0]
             e == [HeldElastic EXCEPT !.config = c]
             es == [elastic EXCEPT ![h] = e]
             g == [form EXCEPT !.typed = text, !.elastic = h]
  <2>1. c \in Settings
    BY FormAssumption DEF Settings
  <2>2. /\ e \in ElasticObject /\ e.config = c /\ e.nodes = elastic[h].nodes
        /\ es \in [Objects -> ElasticObject] /\ es[h] = e
    BY <1>0, <2>1, OpenForms DEF ElasticObject, HeldElastic
  <2>3. /\ g \in Form /\ g.elastic = h /\ g.typed = text /\ g.held = form.held
        /\ g.kibana = form.kibana /\ g.on = form.on /\ g.data = form.data
        /\ g.cards = form.cards /\ g.own = form.own
    BY <1>0, OpenForms DEF Form
  <2>4. Input(g, es, enabled)
    BY <1>0, <1>7, OpenForms DEF TypeSettings, Elastic, Form
  <2> HIDE DEF c, e, es, g
  <2>5. TypedWaits(g, es)
    BY <2>2, <2>3 DEF TypedWaits, c
  <2>6. SwitchedOn(g, enabled) /\ OwnNodes(g, es)
    BY <1>0, <2>2, <2>3, OpenForms DEF SwitchedOn, OwnNodes
  <2> QED
    BY <1>0, <2>2, <2>3, <2>4, <2>5, <2>6, OpenForms, InputStep
<1>8. ASSUME NEW b \in BOOLEAN, Switch(b) PROVE FormInv'
  <2> DEFINE h == form.held.kibana
             en == [enabled EXCEPT ![h] = IF b THEN "true" ELSE "false"]
             g == [form EXCEPT !.on = b, !.kibana = h]
  <2>1. en \in [Objects -> EnabledValues] /\ (en[h] = "true" => b)
    BY <1>0, OpenForms DEF EnabledValues
  <2>2. /\ g \in Form /\ g.kibana = h /\ g.held = form.held /\ (b => g.on)
        /\ g.elastic = form.elastic /\ g.typed = form.typed /\ g.data = form.data
        /\ g.cards = form.cards /\ g.own = form.own
    BY <1>0, OpenForms DEF Form
  <2>3. Input(g, elastic, en)
    BY <1>8 DEF Switch
  <2> HIDE DEF en, g
  <2>4. SwitchedOn(g, en) /\ TypedWaits(g, elastic) /\ OwnNodes(g, elastic)
    BY <1>0, <2>1, <2>2, OpenForms DEF SwitchedOn, TypedWaits, OwnNodes
  <2> QED
    BY <1>0, <2>1, <2>2, <2>3, <2>4, OpenForms, InputStep
<1>9. CASE TypeKibana
  <2> DEFINE g == [form EXCEPT !.kibana = form.held.kibana]
  <2>1. /\ g \in Form /\ g.kibana = form.held.kibana /\ g.held = form.held /\ g.on = form.on
        /\ g.elastic = form.elastic /\ g.typed = form.typed /\ g.data = form.data
        /\ g.cards = form.cards /\ g.own = form.own
    BY <1>0, OpenForms DEF Form
  <2>2. Input(g, elastic, enabled)
    BY <1>9 DEF TypeKibana
  <2> HIDE DEF g
  <2>3. SwitchedOn(g, enabled) /\ TypedWaits(g, elastic) /\ OwnNodes(g, elastic)
    BY <1>0, <2>1, OpenForms DEF SwitchedOn, TypedWaits, OwnNodes
  <2> QED
    BY <1>0, <2>1, <2>2, <2>3, OpenForms, InputStep
<1> QED
  BY <1>1, <1>2, <1>3, <1>5, <1>6, <1>7, <1>8, <1>9

------------------------------------------------------------------------------
\* clearForm and the load put a new object in the place of both.
LEMMA MadeStep ==
  ASSUME FormInv, Open, NEW named \in BOOLEAN, NEW own \in SUBSET Nodes,
         NEW data \in {"loaded", "changed"}, NEW e \in ElasticObject,
         form.own \subseteq own,
         data = "loaded" => /\ ToSet(e.nodes) \subseteq own
                            /\ form.data \in {"blank", "loaded"},
         SetState([form EXCEPT !.named = named, !.elastic = "made", !.kibana = "made",
                               !.typed = Nil, !.data = data, !.own = own],
                  [elastic EXCEPT !["made"] = e], [enabled EXCEPT !["made"] = "none"], TRUE)
  PROVE  /\ elastic' \in [Objects -> ElasticObject]
         /\ enabled' \in [Objects -> EnabledValues]
         /\ form' \in Form \cup {Crashed}
         /\ Open' => FormOK'
<1> DEFINE g == [form EXCEPT !.named = named, !.elastic = "made", !.kibana = "made",
                             !.typed = Nil, !.data = data, !.own = own]
           es == [elastic EXCEPT !["made"] = e]
           en == [enabled EXCEPT !["made"] = "none"]
<1>1. /\ g \in Form /\ g.typed = Nil /\ g.data = data /\ g.elastic = "made"
      /\ g.own = own /\ g.cards = form.cards
  BY OpenForms DEF Form, Objects
<1>2. /\ es \in [Objects -> ElasticObject] /\ es["made"] = e
      /\ en \in [Objects -> EnabledValues]
  BY OpenForms DEF Objects, EnabledValues
<1> HIDE DEF g, es, en
<1>3. TypedWaits(g, es)
  BY <1>1 DEF TypedWaits
<1>4. OwnNodes(g, es)
  <2>1. form.data = "blank" => ToSet(form.cards) = {}
    BY DEF FormInv, FormOK, ToSet
  <2>2. form.data = "loaded" => ToSet(form.cards) \subseteq form.own
    BY OpenForms DEF OwnNodes
  <2> QED
    BY <1>1, <1>2, <2>1, <2>2 DEF OwnNodes
<1>5. Handled(g, es, en, TRUE)
  BY <1>1, <1>2, <1>3, <1>4 DEF Handled, Received
<1>6. SetState(g, es, en, TRUE)
  BY DEF g, es, en
<1> QED
  BY <1>5, <1>6, Rendered

\* onFormSave: what was typed goes into the request, encoded once.
LEMMA SaveKept == FormInv /\ Save => FormInv'
<1> SUFFICES ASSUME FormInv, Save PROVE FormInv'
  OBVIOUS
<1> DEFINE o == form.elastic
           c == Coded(elastic[o].config)
           kept == enabled[form.kibana] = "true"
           q == [op |-> "save", named |-> form.named, nodes |-> Len(elastic[o].nodes),
                 config |-> c, kibana |-> kept, typed |-> form.typed]
           g == [form EXCEPT !.kibana = IF kept THEN @ ELSE Nil, !.typed = Nil]
<1>0. Open
  BY DEF Save
<1>1. elastic[o] \in ElasticObject /\ elastic[o].config \in Settings /\ o \in Objects
  BY <1>0, OpenForms DEF ElasticObject
<1>2. c \in Settings /\ c.text = elastic[o].config.text
  <2>1. elastic[o].config.coded \in 0 .. MaxCoded /\ elastic[o].config.coded < MaxCoded
    BY <1>1 DEF Save, Settings
  <2>2. elastic[o].config.coded + 1 \in 0 .. MaxCoded
    BY <2>1, FormAssumption
  <2> QED
    BY <1>1, <2>2 DEF Coded, Settings
<1>3. form.typed # Nil => c = [text |-> form.typed, coded |-> 1]
  BY <1>0, OpenForms DEF TypedWaits, Coded
<1>4. elastic' = [elastic EXCEPT ![o].config = c] /\ enabled' = enabled /\ stored' = stored
  BY DEF Save
<1>5. /\ elastic' \in [Objects -> ElasticObject]
      /\ elastic'[o].nodes = elastic[o].nodes
      /\ elastic'[o].config = c
  <2> DEFINE e == [elastic[o] EXCEPT !.config = c]
  <2>1. e \in ElasticObject /\ e.nodes = elastic[o].nodes /\ e.config = c
    BY <1>1, <1>2 DEF ElasticObject
  <2>2. elastic' = [elastic EXCEPT ![o] = e]
    BY <1>4
  <2> HIDE DEF e
  <2> QED
    BY <1>0, <1>1, <2>1, <2>2, OpenForms
<1>6. CASE form.kibana = Nil
  <2>1. form' = form /\ hasKibana' = hasKibana /\ requests' = requests
    BY <1>6 DEF Save
  <2>2. TypedWaits(form, elastic')
    BY <1>0, <1>6 DEF FormInv, FormOK, TypedWaits
  <2>3. OwnNodes(form, elastic')
    BY <1>0, <1>5, OpenForms DEF OwnNodes
  <2>4. form.data # "blank" => Settled(form)
    BY <1>0, <1>5 DEF FormInv, FormOK, Settled
  <2>5. FormOK'
    BY <1>0, <1>4, <2>1, <2>2, <2>3, <2>4
       DEF FormInv, FormOK, SwitchedOn, TypedWaits, OwnNodes, Settled
  <2> QED
    BY <1>4, <1>5, <2>1, <2>5 DEF FormInv, Types, TypedIsAsked
<1>7. CASE form.kibana # Nil
  <2>1. /\ form' = g /\ requests' = requests \cup {q} /\ hasKibana' \in BOOLEAN
    BY <1>7 DEF Save, FormInv, Types
  <2>2. /\ g \in Form /\ g.typed = Nil /\ g.elastic = form.elastic /\ g.held = form.held
        /\ g.on = form.on /\ g.data = form.data /\ g.named = form.named
        /\ g.cards = form.cards /\ g.own = form.own /\ g.kibana \in {form.kibana, Nil}
    BY <1>0, OpenForms DEF Form
  <2>3. q \in SaveRequest
    BY <1>0, <1>1, <1>2, OpenForms DEF SaveRequest, ElasticObject, Form
  <2>4. q.typed = form.typed /\ q.config = c /\ q.op = "save"
    OBVIOUS
  <2> HIDE DEF c, q, g
  <2>5. Types'
    BY <1>4, <1>5, <2>1, <2>2, <2>3, <2>4 DEF FormInv, Types, Request
  <2>6. TypedIsAsked'
    BY <1>3, <2>1, <2>4 DEF FormInv, TypedIsAsked
  <2>7. FormOK'
    <3>1. TypedWaits(g, elastic') /\ OwnNodes(g, elastic')
      BY <1>0, <1>5, <2>2, OpenForms DEF TypedWaits, OwnNodes
    <3>2. SwitchedOn(g, enabled)
      <4>1. Objects \cap {g.kibana, g.held.kibana} \subseteq
              Objects \cap {form.kibana, form.held.kibana}
        BY <2>2, FormAssumption
      <4>2. \A p \in Objects \cap {form.kibana, form.held.kibana} :
              enabled[p] = "true" => form.on
        BY <1>0, OpenForms DEF SwitchedOn
      <4> QED
        BY <2>2, <4>1, <4>2 DEF SwitchedOn
    <3>3. IF g.data = "blank" THEN ~g.named /\ g.typed = Nil /\ g.cards = <<>>
                              ELSE Settled(g)
      BY <1>0, <1>5, <2>2 DEF FormInv, FormOK, Settled
    <3> QED
      BY <1>4, <2>1, <2>2, <3>1, <3>2, <3>3 DEF FormOK, SwitchedOn, TypedWaits, OwnNodes, Settled
  <2> QED
    BY <2>5, <2>6, <2>7 DEF FormInv
<1> QED
  BY <1>6, <1>7

LEMMA ResetKept == FormInv /\ Reset => FormInv'
<1> SUFFICES ASSUME FormInv, Reset PROVE FormInv'
  OBVIOUS
<1>1. Open /\ hasKibana' = hasKibana /\ requests' = requests /\ stored' = stored
  BY DEF Reset
<1>2. NewElastic \in ElasticObject
  BY NewElasticType
<1>3. [form EXCEPT !.named = FALSE, !.elastic = "made", !.kibana = "made",
                   !.typed = Nil, !.data = "changed"]
        = [form EXCEPT !.named = FALSE, !.elastic = "made", !.kibana = "made",
                       !.typed = Nil, !.data = "changed", !.own = form.own]
  BY <1>1, OpenForms DEF Form
<1>4. /\ elastic' \in [Objects -> ElasticObject]
      /\ enabled' \in [Objects -> EnabledValues]
      /\ form' \in Form \cup {Crashed}
      /\ Open' => FormOK'
  BY <1>1, <1>2, <1>3, OpenForms, MadeStep DEF Reset
<1> QED
  BY <1>1, <1>4 DEF FormInv, Types, TypedIsAsked

LEMMA LoadKept == FormInv /\ Load => FormInv'
<1> SUFFICES ASSUME FormInv, Load PROVE FormInv'
  OBVIOUS
<1> DEFINE new == NewNodes(stored.nodes)
           e == [nodes |-> new, config |-> stored.config]
           own == form.own \cup ToSet(new)
           data == IF form.data = "blank" THEN "loaded" ELSE form.data
<1>1. /\ Open /\ stored \in Record
      /\ hasKibana' = hasKibana /\ requests' \subseteq requests /\ stored' = stored
  BY DEF Load, FormInv, Types
<1>2. new \in Seq(Nodes) /\ ToSet(new) \subseteq Nodes
  BY <1>1, NewNodesType, NodesOf DEF Record
<1>3. e \in ElasticObject /\ e.nodes = new
  BY <1>1, <1>2 DEF Record, ElasticObject
<1>4. own \in SUBSET Nodes /\ data \in {"loaded", "changed"}
  BY <1>1, <1>2, OpenForms DEF Form
<1>5. SetState([form EXCEPT !.named = TRUE, !.elastic = "made", !.kibana = "made",
                            !.typed = Nil, !.data = data, !.own = own],
               [elastic EXCEPT !["made"] = e], [enabled EXCEPT !["made"] = "none"], TRUE)
  BY DEF Load, Loaded
<1>6. form.data \in {"blank", "loaded", "changed"}
  BY <1>1, OpenForms DEF Form
<1>7. data = "loaded" => ToSet(e.nodes) \subseteq own /\ form.data \in {"blank", "loaded"}
  BY <1>3, <1>6
<1> HIDE DEF new, e, own, data
<1>8. form.own \subseteq own
  BY DEF own
<1>9. /\ elastic' \in [Objects -> ElasticObject]
      /\ enabled' \in [Objects -> EnabledValues]
      /\ form' \in Form \cup {Crashed}
      /\ Open' => FormOK'
  BY <1>1, <1>3, <1>4, <1>5, <1>7, <1>8, MadeStep
<1> QED
  BY <1>1, <1>9 DEF FormInv, Types, TypedIsAsked

\* A mounted form shows what is initial, and its switch is on.
LEMMA OpenFormKept == ASSUME FormInv, NEW edit \in BOOLEAN, OpenForm(edit) PROVE FormInv'
<1>1. /\ Mounted \in Form
      /\ ~Mounted.named /\ Mounted.typed = Nil /\ Mounted.cards = <<>> /\ Mounted.on
      /\ Mounted.data = "blank"
  BY DEF Mounted, Form, Objects, FormInv, Types
<1>2. /\ elastic' \in [Objects -> ElasticObject] /\ enabled' \in [Objects -> EnabledValues]
  <2>1. elastic' \in [Objects -> ElasticObject]
    BY NewElasticType DEF OpenForm, FormInv, Types, Reachable
  <2>2. enabled' \in [Objects -> EnabledValues]
    BY DEF OpenForm, FormInv, Types, EnabledValues
  <2> QED
    BY <2>1, <2>2
<1>3. form' = Mounted /\ hasKibana' = hasKibana /\ stored' = stored
  BY DEF OpenForm
<1>4. /\ requests' \subseteq requests \cup {[op |-> "load"]}
      /\ [op |-> "load"] \in requests' => stored \in Record
  BY DEF OpenForm, FormInv, Types
<1> HIDE DEF Mounted
<1>5. Types'
  BY <1>1, <1>2, <1>3, <1>4 DEF FormInv, Types, Request
<1>6. TypedIsAsked'
  BY <1>4 DEF FormInv, TypedIsAsked
<1>7. FormOK'
  BY <1>1, <1>3 DEF FormOK, SwitchedOn, TypedWaits, OwnNodes
<1> QED
  BY <1>5, <1>6, <1>7 DEF FormInv

\* No form is left, and no request is new.
LEMMA LeaveKept == FormInv /\ (Leave \/ Reload) => FormInv'
<1> SUFFICES ASSUME FormInv, Leave \/ Reload PROVE FormInv'
  OBVIOUS
<1>1. elastic' \in [Objects -> ElasticObject]
  BY NewElasticType DEF Leave, Reload, Reachable, FormInv, Types
<1>2. enabled' \in [Objects -> EnabledValues]
  <2>1. [module |-> "true", child |-> "none", made |-> "none"] \in [Objects -> EnabledValues]
    BY DEF Objects, EnabledValues
  <2> QED
    BY <2>1 DEF Leave, Reload, FormInv, Types
<1>3. /\ hasKibana' \in BOOLEAN /\ form' = Nil /\ requests' \subseteq requests
      /\ stored' = stored
  BY DEF Leave, Reload, Unmounted, FormInv, Types
<1> QED
  BY <1>1, <1>2, <1>3 DEF FormInv, Types, TypedIsAsked, Open

\* The server and the answers leave the form as it is, or close it.
LEMMA ServedKept ==
  ASSUME FormInv, NEW r \in requests,
         ServeSave(r) \/ RefuseSave(r) \/ Saved \/ LoadFails
  PROVE  FormInv'
<1>1. /\ elastic' = elastic /\ enabled' = enabled /\ hasKibana' = hasKibana
      /\ form' \in {form, Nil}
      /\ requests' \subseteq requests \cup {[op |-> "saved"]}
  BY DEF ServeSave, RefuseSave, Saved, LoadFails, heap, Unmounted
<1>2. stored' = stored \/ stored' \in Record
  BY DEF ServeSave, RefuseSave, Saved, LoadFails, FormInv, Types, Request, SaveRequest, Record
<1>3. Types'
  BY <1>1, <1>2 DEF FormInv, Types, Request
<1>4. TypedIsAsked'
  BY <1>1 DEF FormInv, TypedIsAsked
<1>5. Open' => form' = form
  BY <1>1 DEF Open
<1>6. Open' => FormOK'
  BY <1>1, <1>5 DEF FormInv, Open, FormOK, SwitchedOn, TypedWaits, OwnNodes, Settled
<1> QED
  BY <1>3, <1>4, <1>6 DEF FormInv

LEMMA StepForm == FormInv /\ [Next]_vars => FormInv'
<1> SUFFICES ASSUME FormInv, [Next]_vars PROVE FormInv'
  OBVIOUS
<1>1. CASE UNCHANGED vars
  BY <1>1 DEF vars, FormInv, Types, Open, FormOK, SwitchedOn, TypedWaits, OwnNodes, Settled,
     TypedIsAsked
<1>2. CASE TypeName \/ SelectVersion \/ AddNode \/ RemoveNode \/ TypeKibana
  BY <1>2, InputsKept
<1>3. ASSUME NEW k \in 1 .. MaxNodes, EditNode(k) PROVE FormInv'
  BY <1>3, InputsKept
<1>4. ASSUME NEW text \in Texts, TypeSettings(text) PROVE FormInv'
  BY <1>4, InputsKept
<1>5. ASSUME NEW b \in BOOLEAN, Switch(b) PROVE FormInv'
  BY <1>5, InputsKept
<1>6. ASSUME NEW r \in requests, ServeSave(r) \/ RefuseSave(r) PROVE FormInv'
  BY <1>6, ServedKept
<1>7. CASE Saved \/ LoadFails
  <2>1. \E r : r \in requests
    BY <1>7 DEF Saved, LoadFails
  <2> QED
    BY <1>7, <2>1, ServedKept
<1> QED
  BY <1>1, <1>2, <1>3, <1>4, <1>5, <1>6, <1>7, SaveKept, ResetKept, LoadKept, OpenFormKept,
     LeaveKept DEF Next

\* KibanaOnlyIfOn: whatever object a load, a reset or a change put in the place
\* of another, the switch is on when the object is.
THEOREM KibanaNeedsTheSwitch == Spec => []KibanaOnlyIfOn
<1>1. FormInv => KibanaOnlyIfOn
  <2> SUFFICES ASSUME FormInv, Open, form.kibana # Nil, enabled[form.kibana] = "true"
               PROVE  form.on
    BY DEF KibanaOnlyIfOn
  <2>1. form.kibana \in Objects
    BY OpenForms DEF Form
  <2> QED
    BY <2>1, OpenForms DEF SwitchedOn
<1> QED
  BY <1>1, InitForm, StepForm, PTL DEF Spec

\* TypedIsAsked: settings that were typed, and not overwritten since, are asked
\* for by the first save after that, encoded once.
THEOREM AsksWhatWasTyped == Spec => []TypedIsAsked
<1>1. FormInv => TypedIsAsked
  BY DEF FormInv
<1> QED
  BY <1>1, InitForm, StepForm, PTL DEF Spec

\* A form that loaded its deployment first has no node of an earlier form.
THEOREM NodesOfThisForm == Spec => []NothingOfAnotherForm
<1>1. FormInv => NothingOfAnotherForm
  BY OpenForms DEF OwnNodes, NothingOfAnotherForm
<1> QED
  BY <1>1, InitForm, StepForm, PTL DEF Spec
=============================================================================
