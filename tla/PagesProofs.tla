---------------------------- MODULE PagesProofs -----------------------------
(***************************************************************************)
(* For any deployments and any parts of the view: what the pages show when *)
(* the user has waited for the answers.                                    *)
(***************************************************************************)
EXTENDS Pages, SequenceTheorems, TLAPS

Typed(r) ==
  /\ r = [op |-> r.op, of |-> r.of, got |-> r.got, mounted |-> r.mounted]
  /\ r.op = "save" => r.of \in Deps

Ids == Deps \cup {"create", "undefined"}
Paths == Lists \cup {<<"p", i>> : i \in Ids} \cup {<<"p", i, "edit">> : i \in Ids}

Types ==
  /\ path \in Paths
  /\ previous \in Paths \cup {Nil}
  /\ recorded \subseteq Deps
  /\ secret \in [Deps -> Nat]
  /\ gen \in Nat
  /\ \A r \in requests : Typed(r)

\* A change is done, and the page does not know yet.
Changed == \E r \in requests : r.op \in Changes /\ r.got # Nil

\* The secrets will be fetched.
Fetches ==
  \E r \in requests : r.op = "timer" \/ (r.op = "secrets" /\ r.of \in recorded)

\* A request belongs to the page in the path, and its answer is current.
Fits(r) ==
  /\ r.op = "projects" => path = <<>> /\ r.got \in {Nil, project}
  /\ r.op = "deployments" => path = <<"p">> /\ r.got \in {Nil, recorded}
  /\ r.op \in Parts => /\ r.of = Segment(path) /\ r.of # Nil
                       /\ r.got \in Loadable \cup {Nil}
                       /\ r.got # Nil => r.got.of = r.of
  /\ r.op = "secrets" /\ r.got # Nil => /\ r.of \in Deps
                                        /\ r.got.gen \in {0, secret[r.of]}
  /\ r.op = "events" => Renders(Segment(path))
  /\ r.op \in {"delete", "regen", "timer"} => Renders(Segment(path))
  /\ r.op = "deleteProject" => path = <<"p">>
  /\ r.op = "save" => path \in Forms
  /\ r.op = "regen" => /\ r.mounted /\ r.of = Segment(path)
                       /\ r.got # Nil => r.of \in recorded
  /\ r.op = "timer" => Segment(path) \in recorded

ListOK ==
  list.loaded /\ ~Changed => list.shown = IF path = <<>> THEN project ELSE recorded

ViewOK ==
  /\ view \in View
  /\ ~view.reused =>
       /\ view.of = Segment(path)
       /\ \A q \in Parts : view.shown[q] # Nil => view.shown[q].of = view.of
       /\ view.shown["secrets"] # Nil /\ ~Changed /\ ~Fetches =>
            view.of \in Deps /\ view.shown["secrets"].gen \in {0, secret[view.of]}

CalmOK ==
  /\ \A r \in requests : r.op \in Changes \cup {"timer"} => requests = {r}
  /\ \A r \in requests : Fits(r)
  /\ IF path \in Lists THEN ListOK ELSE list = Nil
  /\ IF Segment(path) # Nil THEN ViewOK ELSE view = Nil

PagesInv == Types /\ (calm => CalmOK)

------------------------------------------------------------------------------
(***************************************************************************)
(* Types.                                                                  *)
(***************************************************************************)
LEMMA AskTyped ==
  ASSUME NEW op, NEW of
  PROVE  /\ op # "save" \/ of \in Deps => Typed(Ask(op, of))
         /\ Ask(op, of).op = op /\ Ask(op, of).of = of /\ Ask(op, of).got = Nil
         /\ Ask(op, of).mounted = TRUE
BY DEF Ask, Typed

LEMMA AnswerTyped ==
  ASSUME NEW r, Typed(r), NEW value
  PROVE  LET q == [r EXCEPT !.got = value] IN
         /\ Typed(q)
         /\ q.op = r.op /\ q.of = r.of /\ q.got = value /\ q.mounted = r.mounted
BY DEF Typed

\* What a page loads when it is mounted.
Loads(pth) ==
  (IF pth \in Lists THEN LoadsOfList(pth) ELSE {}) \cup
  (IF Segment(pth) # Nil THEN LoadsOfView(Segment(pth)) ELSE {}) \cup
  (IF Renders(Segment(pth)) THEN LoadsOfEvents(Segment(pth)) ELSE {})

LEMMA LoadsShape ==
  ASSUME NEW pth, NEW r \in Loads(pth)
  PROVE  /\ Typed(r) /\ r.got = Nil /\ r.mounted
         /\ \/ r.op = "projects" /\ pth = <<>>
            \/ r.op = "deployments" /\ pth = <<"p">>
            \/ r.op \in Parts /\ r.of = Segment(pth) /\ r.of # Nil
            \/ r.op = "events" /\ Renders(Segment(pth))
<1>1. CASE pth \in Lists /\ r \in LoadsOfList(pth)
  <2>1. r = Ask(IF pth = <<>> THEN "projects" ELSE "deployments", Nil)
    BY <1>1 DEF LoadsOfList
  <2>2. pth = <<>> \/ pth = <<"p">>
    BY <1>1 DEF Lists
  <2> QED
    BY <2>1, <2>2 DEF Ask, Typed
<1>2. CASE Segment(pth) # Nil /\ r \in LoadsOfView(Segment(pth))
  <2>1. PICK q \in Parts : r = Ask(q, Segment(pth))
    BY <1>2 DEF LoadsOfView
  <2>2. q # "save"
    BY PagesAssumption DEF Changes
  <2> QED
    BY <1>2, <2>1, <2>2 DEF Ask, Typed
<1>3. CASE Renders(Segment(pth)) /\ r \in LoadsOfEvents(Segment(pth))
  <2>1. r = Ask("events", Segment(pth))
    BY <1>3 DEF LoadsOfEvents
  <2> QED
    BY <1>3, <2>1 DEF Ask, Typed
<1> QED
  BY <1>1, <1>2, <1>3 DEF Loads

\* A navigation keeps some requests and adds those of the new page.
LEMMA MoveRequests ==
  ASSUME NEW pth, NEW rs, Move(pth, rs)
  PROVE  requests' \subseteq Kept(rs, pth) \cup Loads(pth)
BY DEF Move, Loads

LEMMA KeptTyped ==
  ASSUME NEW pth, NEW rs, \A r \in rs : Typed(r)
  PROVE  \A r \in Kept(rs, pth) : Typed(r)
<1>1. ASSUME NEW r \in rs, NEW m PROVE Typed([r EXCEPT !.mounted = m])
  BY <1>1 DEF Typed
<1> QED
  BY <1>1 DEF Kept

LEMMA FrontPath ==
  ASSUME NEW pth \in Paths, pth # <<>>
  PROVE  Front(pth) \in Paths
<1> DEFINE S == {"p", "edit"} \cup Ids
           t == SubSeq(pth, 1, Len(pth) - 1)
<1>1. /\ pth \in Seq(S) /\ Len(pth) \in 1 .. 3 /\ pth[1] = "p"
      /\ Len(pth) = 3 => pth[2] \in Ids
  <2>1. CASE pth \in Lists
    <3>1. pth = <<"p">>
      BY <2>1 DEF Lists
    <3>2. <<"p">> \in Seq(S) /\ Len(<<"p">>) = 1 /\ <<"p">>[1] = "p"
      OBVIOUS
    <3> QED
      BY <3>1, <3>2
  <2>2. ASSUME NEW i \in Ids, pth = <<"p", i>>
        PROVE  pth \in Seq(S) /\ Len(pth) = 2 /\ pth[1] = "p"
    BY <2>2
  <2>3. ASSUME NEW i \in Ids, pth = <<"p", i, "edit">>
        PROVE  pth \in Seq(S) /\ Len(pth) = 3 /\ pth[1] = "p" /\ pth[2] \in Ids
    BY <2>3
  <2> HIDE DEF S
  <2> QED
    BY <2>1, <2>2, <2>3 DEF Paths
<1>2. /\ t \in Seq(S) /\ Len(t) = Len(pth) - 1
      /\ \A k \in 1 .. Len(pth) - 1 : t[k] = pth[k]
  BY <1>1, SubSeqProperties
<1> HIDE DEF S, t
<1>3. CASE Len(pth) = 1
  <2>1. t = <<>>
    BY <1>2, <1>3
  <2> QED
    BY <2>1 DEF Front, Paths, Lists, t
<1>4. CASE Len(pth) = 2
  <2>1. t = <<"p">>
    BY <1>1, <1>2, <1>4
  <2> QED
    BY <2>1 DEF Front, Paths, Lists, t
<1>5. CASE Len(pth) = 3
  <2>1. t = <<"p", pth[2]>> /\ pth[2] \in Ids
    BY <1>1, <1>2, <1>5
  <2> QED
    BY <2>1 DEF Front, Paths, t
<1> QED
  BY <1>1, <1>3, <1>4, <1>5

LEMMA MoveTyped ==
  ASSUME Types, NEW pth \in Paths, NEW rs \in SUBSET requests, Move(pth, rs),
         previous' \in Paths \cup {Nil}, UNCHANGED server
  PROVE  Types'
<1>1. \A r \in rs : Typed(r)
  BY DEF Types
<1>2. \A r \in requests' : Typed(r)
  BY <1>1, KeptTyped, LoadsShape, MoveRequests
<1> QED
  BY <1>2 DEF Types, server, Move

\* One request takes the place of another, or none does.
LEMMA AnswerStepTyped ==
  ASSUME Types, NEW r, requests' \subseteq requests \cup {r}, Typed(r),
         recorded' \subseteq Deps, secret' \in [Deps -> Nat], gen' \in Nat,
         path' = path, previous' = previous
  PROVE  Types'
BY DEF Types

LEMMA InitPages == Init => PagesInv
<1> SUFFICES ASSUME Init PROVE PagesInv
  OBVIOUS
<1>1. /\ path = <<>> /\ path \in Lists /\ Segment(path) = Nil /\ ~Renders(Segment(path))
      /\ list = NewList /\ view = Nil /\ events = Nil
      /\ recorded = {} /\ gen = 0 /\ secret = [d \in Deps |-> 0]
  BY DEF Init, Lists, Segment, Renders
<1>2. requests = Loads(path)
  BY <1>1 DEF Init, Loads
<1>3. \A r \in requests : Typed(r) /\ r.got = Nil /\ r.op = "projects"
  BY <1>1, <1>2, LoadsShape
<1>4. Types
  BY <1>1, <1>3 DEF Types, Init, Paths
<1>5. \A r \in requests : Fits(r) /\ r.op \notin Changes \cup {"timer"}
  BY <1>1, <1>3, PagesAssumption DEF Fits, Changes
<1>6. ListOK
  BY <1>1 DEF ListOK, NewList
<1> QED
  BY <1>1, <1>4, <1>5, <1>6 DEF PagesInv, CalmOK

LEMMA TypesKept == PagesInv /\ [Next]_vars => Types'
<1> SUFFICES ASSUME PagesInv, [Next]_vars PROVE Types'
  OBVIOUS
<1>0. Types /\ (calm => CalmOK)
  BY DEF PagesInv
<1>1. CASE UNCHANGED vars
  BY <1>0, <1>1 DEF vars, Types
<1>2. ASSUME NEW pth \in Paths, Click(pth) PROVE Types'
  BY <1>0, <1>2, MoveTyped DEF Click, Push, Types
<1>3. CASE OpenProject \/ New \/ Edit \/ Up \/ Back
  <2>1. CASE OpenProject \/ New
    BY <1>2, <2>1 DEF OpenProject, New, Paths, Lists, Create, Ids
  <2>2. CASE Edit
    <3>1. ViewOK
      BY <1>0, <2>2 DEF Edit, Click, Acts, CalmOK, Renders
    <3>2. view.shown["deployment"] \in Loadable \cup {Nil}
      BY <3>1, PagesAssumption DEF ViewOK, View
    <3>3. ShownName \in Ids
      BY <3>2 DEF ShownName, Ids, Loadable
    <3> QED
      BY <1>2, <2>2, <3>3 DEF Edit, Paths
  <2>3. CASE Up
    <3>1. path \in Paths /\ path # <<>>
      BY <1>0, <2>3 DEF Up, Types
    <3> QED
      BY <1>2, <2>3, <3>1, FrontPath DEF Up
  <2>4. CASE Back
    BY <1>0, <2>4, MoveTyped DEF Back, Types
  <2> QED
    BY <1>3, <2>1, <2>2, <2>3, <2>4
<1>4. ASSUME NEW d \in Deps, Open(d) PROVE Types'
  BY <1>2, <1>4 DEF Open, Paths, Ids
<1>5. ASSUME NEW op, NEW of, Order(op, of), op # "save" \/ of \in Deps PROVE Types'
  BY <1>0, <1>5, AskTyped, AnswerStepTyped DEF Order, server, tab, Types
<1>6. CASE DeleteProject \/ DeleteDeployment \/ RegenSecrets
  BY <1>5, <1>6 DEF DeleteProject, DeleteDeployment, RegenSecrets
<1>7. ASSUME NEW d \in Deps, Save(d) PROVE Types'
  BY <1>5, <1>7 DEF Save
<1>8. CASE Reload
  <2>1. requests' = Loads(path) /\ UNCHANGED server
    BY <1>8 DEF Reload, Loads
  <2>2. path' = path /\ previous' = previous
    BY <1>8 DEF Reload
  <2> QED
    BY <1>0, <2>1, <2>2, LoadsShape DEF Types, server
<1>9. ASSUME NEW d \in Deps, Recreate(d) PROVE Types'
  BY <1>0, <1>9 DEF Recreate, Types, tab
<1>10. ASSUME NEW r \in requests, NEW value, Answer(r, value), UNCHANGED tab,
              recorded' \subseteq Deps, secret' \in [Deps -> Nat], gen' \in Nat
       PROVE  Types'
  <2> DEFINE q == [r EXCEPT !.got = value]
  <2>1. Typed(q)
    BY <1>0, AnswerTyped DEF Types
  <2>2. requests' \subseteq requests \cup {q}
    BY <1>10 DEF Answer
  <2> HIDE DEF q
  <2> QED
    BY <1>0, <1>10, <2>1, <2>2, AnswerStepTyped DEF tab
<1> USE <1>0
<1>11. ASSUME NEW r \in requests, ServeLoad(r), UNCHANGED tab PROVE Types'
  BY <1>10, <1>11 DEF ServeLoad, server, Types
<1>12. ASSUME NEW r \in requests, ServeChange(r), UNCHANGED tab PROVE Types'
  <2>1. recorded' \subseteq Deps
    BY <1>12
       DEF ServeChange, ServeSave, ServeDelete, ServeRegen, ServeDeleteProject, Types, Typed
  <2>2. secret' \in [Deps -> Nat]
    BY <1>12
       DEF ServeChange, ServeSave, ServeDelete, ServeRegen, ServeDeleteProject, Types
  <2> QED
    BY <1>10, <1>12, <2>1, <2>2 DEF ServeChange, Types
<1>13. ASSUME NEW r \in requests, NotFound(r) \/ Fail(r) PROVE Types'
  BY <1>13 DEF NotFound, Fail, Types, server, tab
<1>14. ASSUME NEW r \in requests, Take(r) PROVE Types'
  <2>1. UNCHANGED server
    BY <1>14 DEF Take
  <2>2. CASE Loaded(r)
    BY <2>1, <2>2 DEF Loaded, Types, server
  <2>3. ASSUME NEW pth \in Paths, Push(pth, requests \ {r}) PROVE Types'
    BY <2>1, <2>3, MoveTyped DEF Push, Types
  <2>4. CASE r.op = "regen" /\ Done(r)
    <3>1. requests' \subseteq requests \cup {Ask("timer", Nil)}
      BY <2>4 DEF Done
    <3> QED
      BY <2>1, <2>4, <3>1, AskTyped, AnswerStepTyped DEF server, tab, Types, Done
  <2>5. /\ <<>> \in Paths /\ <<"p">> \in Paths
        /\ r.op = "save" => <<"p", r.of>> \in Paths
    BY DEF Paths, Lists, Ids, Types, Typed
  <2> QED
    BY <1>14, <2>2, <2>3, <2>4, <2>5 DEF Take, Done
<1>15. CASE TimerFires
  BY <1>15, AskTyped, AnswerStepTyped DEF TimerFires, server, tab, Types
<1> QED
  BY <1>1, <1>3, <1>4, <1>6, <1>7, <1>8, <1>9, <1>11, <1>12, <1>13, <1>14, <1>15
     DEF Next, Serve, Asked, Answered

------------------------------------------------------------------------------
(***************************************************************************)
(* The pages of a user who waits for the answers.                          *)
(***************************************************************************)
Apart ==
  /\ "secrets" \in Parts
  /\ \A q \in Parts : q \notin Changes \cup {"projects", "deployments", "events", "timer"}

LEMMA PartsApart == Apart
BY PagesAssumption DEF Apart

LEMMA Segments ==
  ASSUME NEW pth \in Paths
  PROVE  Segment(pth) \in Ids \cup {Nil}
BY DEF Paths, Lists, Segment

LEMMA ListSegments ==
  ASSUME NEW pth \in Lists
  PROVE  Segment(pth) = Nil /\ ~Renders(Segment(pth))
BY DEF Lists, Segment, Renders

\* What a page loads fits it, and changes nothing.
LEMMA LoadsFit ==
  ASSUME requests' \subseteq Loads(path')
  PROVE  /\ \A r \in requests' : r.op \notin Changes \cup {"timer"} /\ Fits(r)'
         /\ ~Changed'
<1>1. ASSUME NEW r \in requests'
      PROVE  /\ r.got = Nil /\ r.op \notin Changes \cup {"timer"}
             /\ Fits(r)'
  <2>1. /\ r.got = Nil
        /\ \/ r.op = "projects" /\ path' = <<>>
           \/ r.op = "deployments" /\ path' = <<"p">>
           \/ r.op \in Parts /\ r.of = Segment(path') /\ r.of # Nil
           \/ r.op = "events" /\ Renders(Segment(path'))
    BY LoadsShape
  <2>2. r.op \notin Changes \cup {"timer"}
    BY <2>1, PartsApart DEF Apart, Changes
  <2> QED
    BY <2>1, <2>2, PartsApart DEF Apart, Fits, Changes
<1> QED
  BY <1>1 DEF Changed

\* A navigation when nothing is on the way, or when a change is over and leads
\* to a page that shows nothing of before.
LEMMA Arrives ==
  ASSUME CalmOK, NEW pth \in Paths, Move(pth, {}), UNCHANGED server,
         \/ requests = {}
         \/ /\ pth # path
            /\ \/ Segment(pth) = Nil \/ view = Nil \/ view.reused
               \/ view.of # Segment(pth)
  PROVE  CalmOK'
<1> DEFINE s == Segment(pth)
<1>1. path' = pth /\ s \in Ids \cup {Nil}
  BY Segments DEF Move
<1>2. requests' \subseteq Loads(path')
  BY <1>1, MoveRequests DEF Kept
<1>3. /\ \A r \in requests' : r.op \notin Changes \cup {"timer"} /\ Fits(r)'
      /\ ~Changed'
  BY <1>2, LoadsFit
<1>4. requests = {} => ~Changed /\ ~Fetches
  BY DEF Changed, Fetches
<1>5. IF path' \in Lists THEN ListOK' ELSE list' = Nil
  <2>1. CASE pth \notin Lists
    BY <1>1, <2>1 DEF Move
  <2>2. CASE pth \in Lists /\ path # pth
    BY <1>1, <2>2 DEF Move, ListOK, NewList
  <2>3. CASE pth \in Lists /\ path = pth
    BY <1>1, <1>4, <2>3 DEF Move, ListOK, CalmOK, server
  <2> QED
    BY <2>1, <2>2, <2>3
<1>6. IF s # Nil THEN ViewOK' /\ (view # Nil /\ ~view'.reused => ~view.reused /\ s = view.of)
                 ELSE view' = Nil
  <2>1. CASE s = Nil
    BY <2>1 DEF Move
  <2>2. CASE s # Nil /\ view = Nil
    <3>1. view' = NewView(s)
      BY <2>2 DEF Move
    <3> QED
      BY <1>1, <2>2, <3>1, PartsApart DEF NewView, ViewOK, Apart, View, Ids
  <2>3. CASE s # Nil /\ view # Nil
    <3> DEFINE b == view.reused \/ s # view.of
    <3>1. ViewOK
      BY <2>3 DEF CalmOK
    <3>2. view' = [view EXCEPT !.reused = b]
      BY <2>3 DEF Move
    <3>3. b \in BOOLEAN /\ (~b => ~view.reused /\ s = view.of)
      OBVIOUS
    <3> HIDE DEF b
    <3>4. /\ view'.of = view.of /\ view'.shown = view.shown /\ view'.reused = b
          /\ view' \in View
      BY <3>1, <3>2, <3>3 DEF ViewOK, View
    <3>5. ~b => requests = {}
      BY <2>3, <3>3
    <3>6. ~b /\ view.shown["secrets"] # Nil =>
            view.of \in Deps /\ view.shown["secrets"].gen \in {0, secret[view.of]}
      BY <1>4, <3>1, <3>3, <3>5 DEF ViewOK
    <3>7. ViewOK'
      BY <1>1, <3>1, <3>3, <3>4, <3>6 DEF ViewOK, server
    <3> QED
      BY <2>3, <3>3, <3>4, <3>7
  <2> QED
    BY <2>1, <2>2, <2>3
<1> QED
  BY <1>1, <1>3, <1>5, <1>6 DEF CalmOK

\* The user asks for a change when nothing is on the way.
LEMMA OrderKept ==
  ASSUME CalmOK, NEW op \in Changes, NEW of, Order(op, of), calm',
         op \in {"delete", "regen"} => Renders(Segment(path)),
         op = "deleteProject" => path = <<"p">>,
         op = "save" => path \in Forms,
         op = "regen" => of = Segment(path)
  PROVE  CalmOK'
<1> DEFINE q == Ask(op, of)
<1>1. requests = {} /\ requests' = {q} /\ UNCHANGED server /\ UNCHANGED tab
  BY DEF Order, Acts
<1>2. q.op = op /\ q.of = of /\ q.got = Nil /\ q.mounted
  BY DEF Ask
<1> HIDE DEF q
<1>3. ~Changed /\ ~Fetches
  BY <1>1 DEF Changed, Fetches
<1>4. op \notin Parts \cup {"projects", "deployments", "events", "timer", "secrets"}
  BY PartsApart DEF Apart, Changes
<1>5. Fits(q)'
  BY <1>1, <1>2, <1>4 DEF Fits, tab, Changes
<1>6. path' = path /\ list' = list /\ view' = view /\ events' = events
  BY <1>1 DEF tab
<1>7. ListOK => ListOK'
  BY <1>1, <1>3, <1>6 DEF ListOK, server
<1>8. ViewOK => ViewOK'
  BY <1>1, <1>3, <1>6 DEF ViewOK, server
<1> QED
  BY <1>1, <1>5, <1>6, <1>7, <1>8 DEF CalmOK

\* The pages stay as they are while a load is answered or not found, and the
\* passwords change at most where there were none.
LEMMA PagesStay ==
  ASSUME CalmOK, UNCHANGED tab, UNCHANGED <<recorded, project>>,
         \A d \in Deps : secret[d] = 0 \/ secret'[d] = secret[d],
         Changed => Changed', Fetches => Fetches',
         \A r \in requests' : r.op \in Changes \cup {"timer"} => requests' = {r},
         \A r \in requests' : Fits(r)'
  PROVE  CalmOK'
<1>1. path' = path /\ list' = list /\ view' = view /\ events' = events
  BY DEF tab
<1>2. ListOK => ListOK'
  BY <1>1 DEF ListOK
<1>3. ViewOK => ViewOK'
  BY <1>1 DEF ViewOK
<1> QED
  BY <1>1, <1>2, <1>3 DEF CalmOK

\* A request that is not the only one is a load.
LEMMA OnlyLoads ==
  ASSUME CalmOK, NEW r \in requests, r.op \notin Changes \cup {"timer"}
  PROVE  /\ \A x \in requests : x.op \notin Changes \cup {"timer"}
         /\ ~Changed
BY DEF CalmOK, Changed

LEMMA ServeLoadKept ==
  ASSUME Types, CalmOK, NEW r \in requests, ServeLoad(r), UNCHANGED tab
  PROVE  CalmOK'
<1>1. PICK value : /\ Answer(r, value) /\ UNCHANGED server
                   /\ r.op \in {"projects", "deployments", "events"} \cup Parts
                   /\ r.op = "projects" => value = project
                   /\ r.op = "deployments" => value = recorded
                   /\ r.op \in Parts \cup {"events"} =>
                        r.of \in recorded /\
                        value = [of |-> r.of,
                                 gen |-> IF r.op = "secrets" THEN secret[r.of] ELSE 0]
  <2>1. CASE r.op = "projects" /\ Answer(r, project)
    BY <2>1, PartsApart DEF ServeLoad, Apart
  <2>2. CASE r.op = "deployments" /\ Answer(r, recorded)
    BY <2>2, PartsApart DEF ServeLoad, Apart
  <2>3. CASE r.op \in Parts \cup {"events"}
    BY <2>3, PartsApart DEF ServeLoad, Apart
  <2> QED
    BY <2>1, <2>2, <2>3 DEF ServeLoad
<1> DEFINE q == [r EXCEPT !.got = value]
<1>2. q.op = r.op /\ q.of = r.of /\ q.got = value
  BY DEF Types, Typed
<1>3. requests' = (requests \ {r}) \cup {q}
  BY <1>1 DEF Answer
<1> HIDE DEF q
<1>4. r.op \notin Changes \cup {"timer"}
  BY <1>1, PartsApart DEF Apart, Changes
<1>5. \A x \in requests' : x.op \notin Changes \cup {"timer"}
  BY <1>2, <1>3, <1>4, OnlyLoads
<1>6. ~Changed /\ (Fetches => Fetches')
  BY <1>1, <1>2, <1>3, <1>4, OnlyLoads DEF Fetches, server
<1>7. r.op \in Parts => value \in Loadable /\ value.of = r.of
  BY <1>1 DEF Types, Loadable
<1>8. r.op = "secrets" => r.of \in Deps /\ value.gen = secret[r.of]
  BY <1>1, PartsApart DEF Types, Apart
<1>9. Fits(q)'
  BY <1>1, <1>2, <1>4, <1>7, <1>8 DEF Fits, CalmOK, tab, server, Changes
<1>10. \A x \in requests \ {r} : Fits(x)'
  BY <1>1 DEF Fits, CalmOK, tab, server
<1> QED
  BY <1>1, <1>3, <1>5, <1>6, <1>9, <1>10, PagesStay DEF server

LEMMA ServeChangeKept ==
  ASSUME Types, CalmOK, NEW r \in requests, ServeChange(r), UNCHANGED tab
  PROVE  CalmOK'
<1> DEFINE q == [r EXCEPT !.got = TRUE]
<1>1. r.op \in Changes /\ requests = {r}
  BY DEF ServeChange, ServeSave, ServeDelete, ServeRegen, ServeDeleteProject,
     Changes, CalmOK
<1>2. q.op = r.op /\ q.of = r.of /\ q.got = TRUE /\ q.mounted = r.mounted
  BY DEF Types, Typed
<1>3. requests' = {q}
  BY <1>1 DEF ServeChange, Answer
<1> HIDE DEF q
<1>4. Changed'
  BY <1>1, <1>2, <1>3, PagesAssumption DEF Changed
<1>5. path' = path /\ list' = list /\ view' = view /\ events' = events
  BY DEF tab
<1>6. r.op \notin Parts \cup {"projects", "deployments", "events", "timer", "secrets"}
  BY <1>1, PartsApart DEF Apart, Changes
<1>7. r.op = "regen" => recorded' = recorded /\ r.of \in recorded
  BY DEF ServeChange, ServeSave, ServeRegen, ServeDelete, ServeDeleteProject
<1>8. Fits(q)'
  BY <1>2, <1>5, <1>6, <1>7 DEF Fits, CalmOK
<1>9. ListOK'
  BY <1>4 DEF ListOK
<1>10. ViewOK => ViewOK'
  BY <1>4, <1>5 DEF ViewOK
<1> QED
  BY <1>3, <1>5, <1>8, <1>9, <1>10 DEF CalmOK

LEMMA NotFoundKept ==
  ASSUME CalmOK, NEW r \in requests, r.got = Nil, NotFound(r)
  PROVE  CalmOK'
<1>1. requests' = requests \ {r} /\ UNCHANGED server /\ UNCHANGED tab
  BY DEF NotFound
<1>2. ~Changed
  BY DEF CalmOK, Changed
<1>3. r.op # "timer" /\ ~(r.op = "secrets" /\ r.of \in recorded)
  BY PartsApart DEF NotFound, Apart, Changes
<1>4. Fetches => Fetches'
  BY <1>1, <1>3 DEF Fetches, server
<1>5. \A x \in requests' : Fits(x)'
  BY <1>1 DEF CalmOK, Fits, server, tab
<1>6. \A x \in requests' : x.op \in Changes \cup {"timer"} => requests' = {x}
  BY <1>1 DEF CalmOK
<1> QED
  BY <1>1, <1>2, <1>4, <1>5, <1>6, PagesStay DEF server

LEMMA RecreateKept ==
  ASSUME Types, CalmOK, NEW d \in Deps, Recreate(d)
  PROVE  CalmOK'
<1>1. /\ UNCHANGED tab /\ UNCHANGED <<recorded, project>> /\ requests' = requests
      /\ \A x \in Deps : secret[x] = 0 \/ secret'[x] = secret[x]
  BY DEF Recreate, Types
<1>2. Changed' = Changed /\ Fetches' = Fetches
  BY <1>1 DEF Changed, Fetches
<1>3. \A r \in requests' : Fits(r)'
  BY <1>1 DEF CalmOK, Fits, tab
<1>4. \A r \in requests' : r.op \in Changes \cup {"timer"} => requests' = {r}
  BY <1>1 DEF CalmOK
<1> QED
  BY <1>1, <1>2, <1>3, <1>4, PagesStay

\* The page takes the answer of a load.
LEMMA LoadedKept ==
  ASSUME Types, CalmOK, NEW r \in requests, r.got # Nil, Loaded(r), UNCHANGED server
  PROVE  CalmOK'
<1>1. requests' = requests \ {r} /\ path' = path
  BY DEF Loaded
<1>2. r.op \notin Changes \cup {"timer"}
  BY PartsApart DEF Loaded, Apart, Changes
<1>3. (\A x \in requests' : x.op \notin Changes \cup {"timer"}) /\ ~Changed
  BY <1>1, <1>2, OnlyLoads
<1>4. \A x \in requests' : Fits(x)'
  BY <1>1 DEF Fits, CalmOK, server
<1>5. Fits(r)
  BY DEF CalmOK
<1>6. CASE /\ r.op \in {"projects", "deployments"}
           /\ list' = [shown |-> r.got, loaded |-> TRUE]
           /\ UNCHANGED <<view, events>>
  <2>1. path \in Lists /\ list'.shown = (IF path = <<>> THEN project ELSE recorded)
    BY <1>5, <1>6 DEF Fits, Lists
  <2>2. view = Nil
    BY <2>1, ListSegments DEF CalmOK
  <2> QED
    BY <1>1, <1>3, <1>4, <1>6, <2>1, <2>2, ListSegments DEF CalmOK, ListOK, server
<1>7. CASE /\ r.op \in Parts
           /\ view' = [view EXCEPT !.shown[r.op] = r.got]
           /\ UNCHANGED <<list, events>>
  <2>1. Segment(path) # Nil /\ path \notin Lists /\ ViewOK
    BY <1>5, <1>7, ListSegments DEF Fits, CalmOK
  <2>2. r.got \in Loadable /\ r.got.of = r.of /\ r.of = Segment(path)
    BY <1>5, <1>7 DEF Fits
  <2> DEFINE shown == [view.shown EXCEPT ![r.op] = r.got]
  <2>3. view' = [view EXCEPT !.shown = shown]
    BY <1>7
  <2>4. /\ shown \in [Parts -> Loadable \cup {Nil}]
        /\ \A q \in Parts : shown[q] = IF q = r.op THEN r.got ELSE view.shown[q]
    BY <1>7, <2>1, <2>2 DEF ViewOK, View
  <2> HIDE DEF shown
  <2>5. /\ view' \in View /\ view'.of = view.of /\ view'.reused = view.reused
        /\ view'.shown = shown
    BY <2>1, <2>3, <2>4 DEF ViewOK, View
  <2>6. r.op = "secrets" => r.of \in Deps /\ r.got.gen \in {0, secret[r.of]}
    BY <1>5 DEF Fits
  <2>7. r.op # "secrets" => (Fetches => Fetches')
    BY <1>1, <1>2 DEF Fetches, server
  <2>8. ASSUME ~view.reused
        PROVE  /\ view.of = Segment(path)
               /\ \A q \in Parts : shown[q] # Nil => shown[q].of = view.of
               /\ shown["secrets"] # Nil /\ ~Fetches' =>
                    view.of \in Deps /\ shown["secrets"].gen \in {0, secret[view.of]}
    <3>1. "secrets" \in Parts
      BY PartsApart DEF Apart
    <3>2. view.of = Segment(path)
      BY <2>1, <2>8 DEF ViewOK
    <3>3. CASE r.op = "secrets"
      BY <2>1, <2>2, <2>4, <2>6, <2>8, <3>1, <3>2, <3>3 DEF ViewOK
    <3>4. CASE r.op # "secrets"
      BY <1>3, <2>1, <2>2, <2>4, <2>7, <2>8, <3>1, <3>2, <3>4 DEF ViewOK
    <3> QED
      BY <3>3, <3>4
  <2>9. ViewOK'
    BY <1>1, <2>5, <2>8 DEF ViewOK, server
  <2> QED
    BY <1>1, <1>3, <1>4, <1>7, <2>1, <2>9 DEF CalmOK
<1>8. CASE /\ r.op = "events"
           /\ events' = [events EXCEPT !.loaded = TRUE]
           /\ UNCHANGED <<list, view>>
  <2>1. Renders(Segment(path)) /\ ViewOK /\ Segment(path) # Nil
    BY <1>5, <1>8 DEF Fits, CalmOK, Renders
  <2>2. Fetches => Fetches'
    BY <1>1, <1>8 DEF Fetches, server
  <2>3. ViewOK'
    BY <1>1, <1>3, <1>8, <2>1, <2>2 DEF ViewOK, server
  <2>4. path \notin Lists /\ list = Nil
    BY <2>1, ListSegments DEF CalmOK
  <2> QED
    BY <1>1, <1>3, <1>4, <1>8, <2>1, <2>3, <2>4 DEF CalmOK
<1> QED
  BY <1>6, <1>7, <1>8 DEF Loaded

\* The page takes the answer of a change.
LEMMA DoneKept ==
  ASSUME Types, CalmOK, NEW r \in requests, r.got # Nil, Done(r), UNCHANGED server
  PROVE  CalmOK'
<1>1. r.op \in Changes /\ requests = {r} /\ Fits(r) /\ requests \ {r} = {}
  BY DEF Done, Changes, CalmOK
<1>2. CASE r.op = "delete" /\ Push(<<"p">>, requests \ {r})
  <2>1. <<"p">> \in Paths /\ Segment(<<"p">>) = Nil /\ path # <<"p">>
    BY <1>1, <1>2 DEF Paths, Lists, Segment, Fits, Renders
  <2> QED
    BY <1>1, <1>2, <2>1, Arrives DEF Push
<1>3. CASE r.op = "deleteProject" /\ Push(<<>>, requests \ {r})
  <2>1. <<>> \in Paths /\ Segment(<<>>) = Nil /\ path # <<>>
    BY <1>1, <1>3 DEF Paths, Lists, Segment, Fits
  <2> QED
    BY <1>1, <1>3, <2>1, Arrives DEF Push
<1>4. CASE r.op = "save" /\ Push(<<"p", r.of>>, requests \ {r})
  <2> DEFINE pth == <<"p", r.of>>
  <2>1. r.of \in Deps /\ path \in Forms
    BY <1>1, <1>4 DEF Types, Typed, Fits
  <2>2. pth \in Paths /\ Segment(pth) = r.of /\ r.of # "create" /\ r.of # Nil
    BY <2>1, PagesAssumption DEF Paths, Ids, Segment
  <2>3. CASE path = Create
    <3>1. Segment(path) = "create" /\ pth # path
      BY <2>2, <2>3 DEF Create, Segment
    <3>2. view = Nil \/ view.reused \/ view.of # Segment(pth)
      BY <2>2, <3>1 DEF CalmOK, ViewOK
    <3> QED
      BY <1>1, <1>4, <2>2, <3>1, <3>2, Arrives DEF Push
  <2>4. CASE path # Create
    <3>1. PICK i \in Deps \cup {"undefined"} : path = <<"p", i, "edit">>
      BY <2>1, <2>4 DEF Forms
    <3>2. Segment(path) = Nil /\ pth # path
      BY <3>1 DEF Segment
    <3>3. view = Nil
      BY <3>2 DEF CalmOK
    <3> QED
      BY <1>1, <1>4, <2>2, <3>2, <3>3, Arrives DEF Push
  <2> QED
    BY <2>3, <2>4
<1>5. CASE /\ r.op = "regen"
           /\ requests' = (requests \ {r}) \cup (IF r.mounted THEN {Ask("timer", Nil)} ELSE {})
           /\ UNCHANGED tab
  <2> DEFINE q == Ask("timer", Nil)
  <2>1. r.mounted /\ r.of = Segment(path) /\ r.of \in recorded /\ Renders(Segment(path))
    BY <1>1, <1>5 DEF Fits
  <2>2. requests' = {q} /\ q.op = "timer"
    BY <1>1, <1>5, <2>1 DEF Ask
  <2> HIDE DEF q
  <2>3. path' = path /\ list' = list /\ view' = view /\ events' = events
    BY <1>5 DEF tab
  <2>4. Fetches' /\ "timer" \notin Parts
    BY <2>2, PartsApart DEF Fetches, Apart
  <2>5. Fits(q)'
    BY <2>1, <2>2, <2>3, <2>4 DEF Fits, server
  <2>6. Segment(path) # Nil /\ path \notin Lists
    BY <2>1, ListSegments DEF Renders
  <2>7. ViewOK => ViewOK'
    BY <2>3, <2>4 DEF ViewOK
  <2> QED
    BY <2>1, <2>2, <2>3, <2>5, <2>6, <2>7 DEF CalmOK
<1> QED
  BY <1>2, <1>3, <1>4, <1>5 DEF Done

LEMMA TimerKept ==
  ASSUME Types, CalmOK, TimerFires
  PROVE  CalmOK'
<1> DEFINE t == Ask("timer", Nil)
<1>1. /\ t \in requests /\ t.op = "timer"
      /\ UNCHANGED server /\ UNCHANGED tab
  BY DEF TimerFires, Ask
<1>2. PICK q : /\ q = Ask("secrets", Segment(path))
               /\ requests' = (requests \ {t}) \cup {q}
  BY DEF TimerFires
<1> HIDE DEF t
<1>3. q.op = "secrets" /\ q.of = Segment(path) /\ q.got = Nil
  BY <1>2 DEF Ask
<1>4. requests = {t} /\ Renders(Segment(path)) /\ Segment(path) \in recorded
  BY <1>1 DEF CalmOK, Fits
<1>5. requests' = {q}
  BY <1>2, <1>4
<1>6. ~Changed /\ Fetches'
  BY <1>1, <1>3, <1>4, <1>5 DEF Changed, Fetches, server, Changes
<1>7. path' = path
  BY <1>1 DEF tab
<1>8. Fits(q)'
  BY <1>3, <1>4, <1>7, PartsApart DEF Fits, Apart, Renders, Changes
<1>9. q.op \notin Changes \cup {"timer"}
  BY <1>3 DEF Changes
<1> QED
  BY <1>1, <1>5, <1>6, <1>8, <1>9, PagesStay DEF server

\* A new document is calm, whatever was before.
LEMMA ReloadKept ==
  ASSUME Types, Reload
  PROVE  CalmOK'
<1> DEFINE s == Segment(path)
<1>1. path' = path /\ requests' = Loads(path') /\ s \in Ids \cup {Nil}
  BY Segments DEF Reload, Loads, Types
<1>2. /\ \A r \in requests' : r.op \notin Changes \cup {"timer"} /\ Fits(r)'
      /\ ~Changed'
  BY <1>1, LoadsFit
<1>3. IF path \in Lists THEN ListOK' ELSE list' = Nil
  BY DEF Reload, ListOK, NewList
<1>4. IF s # Nil THEN ViewOK' ELSE view' = Nil
  <2>1. CASE s = Nil
    BY <2>1 DEF Reload
  <2>2. CASE s # Nil
    <3>1. view' = NewView(s)
      BY <2>2 DEF Reload
    <3> QED
      BY <1>1, <2>2, <3>1, PartsApart DEF NewView, ViewOK, Apart, View, Ids
  <2> QED
    BY <2>1, <2>2
<1> QED
  BY <1>1, <1>2, <1>3, <1>4 DEF CalmOK

LEMMA CalmKept == PagesInv /\ [Next]_vars /\ calm' => CalmOK'
<1> SUFFICES ASSUME PagesInv, [Next]_vars, calm' PROVE CalmOK'
  OBVIOUS
<1>0. Types /\ (calm => CalmOK) /\ path \in Paths /\ previous \in Paths \cup {Nil}
  BY DEF PagesInv, Types
<1>1. CASE UNCHANGED vars
  BY <1>0, <1>1 DEF vars, CalmOK, Fits, ListOK, ViewOK, Changed, Fetches
<1>2. CASE Reload
  BY <1>0, <1>2, ReloadKept
<1>3. ASSUME NEW d \in Deps, Recreate(d) PROVE CalmOK'
  BY <1>0, <1>3, RecreateKept DEF Recreate
<1>4. ASSUME NEW r \in Asked, Serve(r) PROVE CalmOK'
  BY <1>0, <1>4, ServeLoadKept, ServeChangeKept DEF Asked, Serve
<1>5. ASSUME NEW r \in Asked, NotFound(r) PROVE CalmOK'
  BY <1>0, <1>5, NotFoundKept DEF Asked, NotFound
<1>6. ASSUME NEW r \in Answered, Take(r) PROVE CalmOK'
  BY <1>0, <1>6, LoadedKept, DoneKept DEF Answered, Take
<1>7. ASSUME NEW r \in requests, Fail(r) PROVE CalmOK'
  BY <1>7 DEF Fail
<1>8. CASE TimerFires
  BY <1>0, <1>8, TimerKept DEF TimerFires
<1>9. CASE \/ OpenProject \/ New \/ DeleteProject \/ Edit
           \/ DeleteDeployment \/ RegenSecrets \/ Up \/ Back
           \/ \E d \in Deps : Open(d) \/ Save(d)
  <2>0. Acts
    BY <1>9
       DEF OpenProject, New, DeleteProject, Edit, DeleteDeployment, RegenSecrets,
           Up, Back, Open, Save, Click, Order
  <2>1. CalmOK /\ requests = {}
    BY <1>0, <2>0 DEF Acts
  <2>2. Types' /\ Kept({}, path') = {}
    BY TypesKept DEF Kept
  <2>3. ASSUME NEW pth, Click(pth) PROVE CalmOK'
    <3>1. Move(pth, {}) /\ UNCHANGED server /\ path' = pth
      BY <2>1, <2>3 DEF Click, Push, Move
    <3> QED
      BY <2>1, <2>2, <3>1, Arrives DEF Types
  <2>4. CASE Back
    <3>1. Move(previous, {}) /\ UNCHANGED server /\ previous \in Paths
      BY <1>0, <2>1, <2>4 DEF Back
    <3> QED
      BY <2>1, <3>1, Arrives
  <2>5. CASE OpenProject \/ New \/ Edit \/ Up
    BY <2>3, <2>5 DEF OpenProject, New, Edit, Up
  <2>6. ASSUME NEW d \in Deps, Open(d) PROVE CalmOK'
    BY <2>3, <2>6 DEF Open
  <2>7. CASE DeleteProject \/ DeleteDeployment \/ RegenSecrets
    <3>1. {"deleteProject", "delete", "regen"} \subseteq Changes
      BY DEF Changes
    <3>2. CASE DeleteProject
      BY <2>1, <3>1, <3>2, OrderKept DEF DeleteProject
    <3>3. CASE DeleteDeployment
      BY <2>1, <3>1, <3>3, OrderKept DEF DeleteDeployment
    <3>4. CASE RegenSecrets
      BY <2>1, <3>1, <3>4, OrderKept DEF RegenSecrets
    <3> QED
      BY <2>7, <3>2, <3>3, <3>4
  <2>8. ASSUME NEW d \in Deps, Save(d) PROVE CalmOK'
    BY <2>1, <2>8, OrderKept DEF Save, Changes
  <2> QED
    BY <1>9, <2>4, <2>5, <2>6, <2>7, <2>8
<1> QED
  BY <1>1, <1>2, <1>3, <1>4, <1>5, <1>6, <1>7, <1>8, <1>9
     DEF Next, Asked, Answered

LEMMA StepPages == PagesInv /\ [Next]_vars => PagesInv'
BY TypesKept, CalmKept DEF PagesInv

LEMMA PagesHold == Spec => []PagesInv
BY InitPages, StepPages, PTL DEF Spec

------------------------------------------------------------------------------
\* ListIsCurrent: a user who waits for the answers sees in the lists what the
\* server has.  The list may be old only while a change is done and its answer
\* is on the way, and that answer leads to another page, which loads again.
THEOREM ListsAreCurrent == Spec => []ListIsCurrent
<1>1. PagesInv => ListIsCurrent
  <2> SUFFICES ASSUME PagesInv, Quiet, list # Nil, list.loaded
               PROVE  Cards = IF path = <<>> THEN project ELSE recorded
    BY DEF ListIsCurrent
  <2>1. CalmOK /\ ~Changed
    BY DEF PagesInv, Quiet, Changed
  <2>2. ListOK
    BY <2>1 DEF CalmOK
  <2> QED
    BY <2>1, <2>2 DEF ListOK, Cards
<1> QED
  BY <1>1, PagesHold, PTL

\* ShowsNoOldSecret: a view that was mounted for the deployment in the path shows
\* no password that has been replaced.  What it shows may be old only until the
\* timer of regenSecrets has fetched it again.
THEOREM NoOldSecretShown == Spec => []ShowsNoOldSecret
<1>1. PagesInv => ShowsNoOldSecret
  <2> SUFFICES ASSUME PagesInv, Quiet, Opened, "secrets" \in Displayed
               PROVE  view.shown["secrets"].gen \in {0, secret[view.of]}
    BY DEF ShowsNoOldSecret
  <2>1. ViewOK /\ ~Changed /\ ~Fetches
    BY DEF PagesInv, Quiet, CalmOK, Opened, Renders, Changed, Fetches
  <2> QED
    BY <2>1 DEF ViewOK, Opened, Displayed
<1> QED
  BY <1>1, PagesHold, PTL

=============================================================================
