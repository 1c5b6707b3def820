------------------------- MODULE ProjectFormProofs -------------------------
(***************************************************************************)
(* For any users, any number of rows and whatever the order of loads,      *)
(* saves and refusals, an acknowledged save has given the roles that the   *)
(* form shows.                                                             *)
(***************************************************************************)
EXTENDS ProjectForm, TLAPS

\* Neither an open form nor a save on its way carries mappings.
NoMappings(f) == "mappings" \in DOMAIN f /\ f.mappings = <<>>
NothingKept ==
  /\ form # Nil => NoMappings(form)
  /\ \A r \in requests : r.op = "save" => r.mappings = <<>>

\* A form that has its Id has no load on the way.
LoadedOnce == form # Nil /\ form.id => [op |-> "load"] \notin requests

\* The user waits for a save to be answered.
OneSave == \A r, q \in requests : r.op # "load" /\ q.op # "load" => r = q

\* The form a save came from is the one that is open, if any: it has its Id if
\* the request has one, and shows what the request lists unless it was loaded in
\* between.
ShowsWhatItSent ==
  \A r \in requests : form # Nil =>
    /\ r.op \in {"save", "saved"} => (r.id => form.id)
    /\ r.op = "save" => (form.id = r.id => r.roles = Shown)

Inv == NothingKept /\ LoadedOnce /\ OneSave /\ ShowsWhatItSent /\ GrantedAsShown

\* A list that is not empty has an element.
LEMMA OneRow == ASSUME NEW x PROVE ToSet(<<x>>) = {x}
BY DEF ToSet

\* What the server makes of a request without mappings.
LEMMA MappingsOfRoles ==
  ASSUME NEW r, r.mappings = <<>>
  PROVE  ToSet(Mappings(r)) = Granted(r.roles)
<1>1. CASE r.roles = <<>>
  BY <1>1, OneRow DEF Mappings, Granted
<1>2. CASE r.roles # <<>>
  BY <1>2 DEF Mappings, Granted
<1> QED
  BY <1>1, <1>2

\* While the user can change the form no save is on its way.
LEMMA FreeForm ==
  ASSUME Inv, ~Waits, requests' = requests, stored' = stored, form # Nil,
         form' # Nil => NoMappings(form') /\ form'.id = form.id
  PROVE  Inv'
<1>1. \A r \in requests : r.op = "load"
  BY DEF Waits
<1>2. NothingKept' /\ OneSave' /\ ShowsWhatItSent' /\ GrantedAsShown'
  BY <1>1 DEF NothingKept, OneSave, ShowsWhatItSent, GrantedAsShown
<1>3. LoadedOnce'
  BY DEF Inv, LoadedOnce
<1> QED
  BY <1>2, <1>3 DEF Inv

\* A form that is left shows nothing.
LEMMA NoForm ==
  ASSUME Inv, form' = Nil, requests' \subseteq requests
  PROVE  Inv'
BY DEF Inv, NothingKept, LoadedOnce, OneSave, ShowsWhatItSent, GrantedAsShown

\* A request that ends without effect.
LEMMA FewerRequests ==
  ASSUME Inv, form' = form, object' = object, stored' = stored,
         requests' \subseteq requests
  PROVE  Inv'
BY DEF Inv, NothingKept, LoadedOnce, OneSave, ShowsWhatItSent, GrantedAsShown, Shown

LEMMA StepInv == Inv /\ [Next]_vars => Inv'
<1> SUFFICES ASSUME Inv, [Next]_vars PROVE Inv'
  OBVIOUS
<1>0. form # Nil => NoMappings(form)
  BY DEF Inv, NothingKept
<1>1. CASE UNCHANGED vars
  BY <1>1, FewerRequests DEF vars
<1>2. ASSUME NEW o \in Rows, Open(o) PROVE Inv'
  BY <1>0, <1>2, FreeForm DEF Open, NoMappings
<1>3. ASSUME NEW k \in 1 .. MaxRows, EditUser(k) PROVE Inv'
  BY <1>0, <1>3, FreeForm DEF EditUser, NoMappings
<1>4. ASSUME NEW k \in 1 .. MaxRows, DeleteUser(k) PROVE Inv'
  BY <1>0, <1>4, FreeForm DEF DeleteUser, NoMappings
<1>5. ASSUME NEW u \in Users, ChangeUsername(u) PROVE Inv'
  BY <1>0, <1>5, FreeForm DEF ChangeUsername, NoMappings
<1>6. ASSUME NEW role \in Options, ChangeRole(role) PROVE Inv'
  BY <1>0, <1>6, FreeForm DEF ChangeRole, NoMappings
<1>7. CASE AddUser
  BY <1>0, <1>7, FreeForm DEF AddUser, NoMappings
<1>8. CASE ClosePopup
  BY <1>0, <1>8, FreeForm DEF ClosePopup, NoMappings
<1>9. CASE Reset
  BY <1>0, <1>9, FreeForm DEF Reset, NoMappings
<1>10. CASE Leave
  BY <1>10, NoForm DEF Leave
<1>11. CASE Load
  <2>1. form' # Nil => NoMappings(form') /\ form'.id = TRUE
    BY <1>0, <1>11 DEF Load, NoMappings
  <2>2. ~form.id
    BY <1>11 DEF Load, Inv, LoadedOnce
  <2>3. requests' = requests \ {[op |-> "load"]} /\ stored' = stored /\ form # Nil
    BY <1>11 DEF Load
  <2>4. NothingKept' /\ LoadedOnce' /\ OneSave'
    BY <2>1, <2>3 DEF Inv, NothingKept, LoadedOnce, OneSave
  <2>5. \A r \in requests : r.op \in {"save", "saved"} => ~r.id
    BY <2>2, <2>3 DEF Inv, ShowsWhatItSent
  <2>6. ShowsWhatItSent'
    BY <2>1, <2>3, <2>5 DEF ShowsWhatItSent
  <2>7. GrantedAsShown'
    BY <2>1, <2>3, <2>5 DEF GrantedAsShown
  <2> QED
    BY <2>4, <2>6, <2>7 DEF Inv
<1>12. CASE LoadFails
  BY <1>12, FewerRequests DEF LoadFails
<1>13. CASE Save
  <2> DEFINE q == [op |-> "save", id |-> form.id, roles |-> Shown,
                   mappings |-> form.mappings, reset |-> form.reset]
  <2>1. /\ requests' = requests \cup {q} /\ form # Nil
        /\ form' = form /\ object' = object /\ stored' = stored
    BY <1>13 DEF Save
  <2>2. Shown' = Shown
    BY <2>1 DEF Shown
  <2>3. q.op = "save" /\ q.id = form.id /\ q.roles = Shown /\ q.mappings = <<>>
    BY <1>0, <2>1 DEF NoMappings
  <2>4. q # [op |-> "load"]
    <3> SUFFICES ASSUME q = [op |-> "load"] PROVE FALSE
      OBVIOUS
    <3> QED
      BY <2>3
  <2> HIDE DEF q
  <2>5. NothingKept'
    BY <2>1, <2>3 DEF Inv, NothingKept
  <2>6. LoadedOnce'
    BY <2>1, <2>4 DEF Inv, LoadedOnce
  <2>7. ShowsWhatItSent'
    BY <2>1, <2>2, <2>3 DEF Inv, ShowsWhatItSent
  <2>8. GrantedAsShown'
    BY <2>1, <2>2, <2>3 DEF Inv, GrantedAsShown
  <2>9. OneSave'
    BY <1>13, <2>1 DEF Save, Waits, OneSave
  <2> QED
    BY <2>5, <2>6, <2>7, <2>8, <2>9 DEF Inv
<1>14. ASSUME NEW edit \in BOOLEAN, OpenForm(edit) PROVE Inv'
  <2>1. NoMappings(Mounted) /\ ~Mounted.id
    BY DEF NoMappings, Mounted
  <2>2. \A r \in requests' : r.op = "load"
    BY <1>14 DEF OpenForm, Waits
  <2>3. form' = Mounted
    BY <1>14 DEF OpenForm
  <2> QED
    BY <2>1, <2>2, <2>3
       DEF Inv, NothingKept, LoadedOnce, OneSave, ShowsWhatItSent, GrantedAsShown
<1>15. ASSUME NEW r \in requests, Serve(r) PROVE Inv'
  <2> DEFINE here == r.id \/ stored = Nil
             q == [op |-> "saved", id |-> r.id, here |-> here]
  <2>1. /\ requests' = (requests \ {r}) \cup {q} /\ form' = form /\ object' = object
        /\ stored' = IF here THEN Mappings(r) ELSE stored
        /\ r.op = "save"
    BY <1>15 DEF Serve
  <2>2. Shown' = Shown
    BY <2>1 DEF Shown
  <2>3. q.op = "saved" /\ q.id = r.id /\ q.here = here
    OBVIOUS
  <2>4. q # [op |-> "load"]
    <3> SUFFICES ASSUME q = [op |-> "load"] PROVE FALSE
      OBVIOUS
    <3> QED
      BY <2>3
  <2>5. ToSet(Mappings(r)) = Granted(r.roles)
    BY <2>1, MappingsOfRoles DEF Inv, NothingKept
  <2> HIDE DEF q, here
  <2>6. NothingKept'
    BY <2>1, <2>3 DEF Inv, NothingKept
  <2>7. LoadedOnce'
    BY <2>1, <2>4 DEF Inv, LoadedOnce
  <2>8. ShowsWhatItSent'
    BY <2>1, <2>2, <2>3 DEF Inv, ShowsWhatItSent
  <2>9. GrantedAsShown'
    <3>1. \A p \in requests' : p.op # "load" => p = q
      BY <2>1, <2>3 DEF Inv, OneSave
    <3>2. GrantedAsShown' = \A p \in requests' :
            (p.op = "saved" /\ p.here /\ form # Nil /\ stored' # Nil) =>
              (form.id = p.id => ToSet(stored') = Granted(Shown))
      BY <2>1, <2>2 DEF GrantedAsShown
    <3>3. here /\ form # Nil /\ form.id = q.id => ToSet(stored') = Granted(Shown)
      BY <2>1, <2>3, <2>5 DEF Inv, ShowsWhatItSent
    <3> QED
      BY <2>3, <3>1, <3>2, <3>3
  <2>10. OneSave'
    BY <2>1, <2>3 DEF Inv, OneSave
  <2> QED
    BY <2>6, <2>7, <2>8, <2>9, <2>10 DEF Inv
<1>16. ASSUME NEW r \in requests, Refuse(r) PROVE Inv'
  BY <1>16, FewerRequests DEF Refuse
<1>17. CASE Saved
  BY <1>17, NoForm DEF Saved
<1>18. CASE Delete
  BY <1>18 DEF Delete, Inv, NothingKept, LoadedOnce, OneSave, ShowsWhatItSent, GrantedAsShown, Shown
<1> QED
  BY <1>1, <1>2, <1>3, <1>4, <1>5, <1>6, <1>7, <1>8, <1>9, <1>10, <1>11, <1>12,
     <1>13, <1>14, <1>15, <1>16, <1>17, <1>18 DEF Next

\* In every reachable state an answered save has given the roles the form shows.
THEOREM RolesOfTheTable == Spec => []GrantedAsShown
<1>1. Init => Inv
  BY DEF Init, Inv, NothingKept, LoadedOnce, OneSave, ShowsWhatItSent, GrantedAsShown
<1>2. Inv => GrantedAsShown
  BY DEF Inv
<1> QED
  BY <1>1, <1>2, StepInv, PTL DEF Spec
=============================================================================
