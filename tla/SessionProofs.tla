--------------------------- MODULE SessionProofs ---------------------------
(***************************************************************************)
(* For any set of users and any number of requests on the way, the token,  *)
(* the store and the header of a tab agree on who is signed in.            *)
(***************************************************************************)
EXTENDS Session, TLAPS

Inv == TypeOK /\ OneIdentity

\* In a new document there is a token and no user, or neither.
LEMMA InitInv == Init => Inv
BY SessionAssumption DEF Init, Inv, TypeOK, OneIdentity, Pages, Private

\* The requests a new document sends are requests.
LEMMA LoadType ==
  ASSUME NEW p \in Pages, TypeOK, Load(p)
  PROVE  /\ page' \in Pages
         /\ requests' \in [Slots -> Request \cup {Nil}]
         /\ user' = Blank /\ stored' = stored /\ perms' = Nil /\ leaving' = Nil
         /\ accepted' = accepted
         /\ header' \in {Nil, Blank}
<1>1. page' \in Pages
  BY DEF Load, Landing, Pages
<1>2. CASE isAuthenticated
  <2>1. stored \in Users
    BY <1>2 DEF isAuthenticated, TypeOK
  <2>2. \A b \in BOOLEAN : [kind |-> "user", as |-> stored, header |-> b] \in Request
    BY <2>1 DEF Request
  <2>3. requests' \in [Slots -> Request \cup {Nil}]
    <3>1. PICK s \in Slots, t \in Slots :
            requests' = [r \in Slots |->
              IF r \in {s, t}
              THEN [kind |-> "user", as |-> stored, header |-> r = t]
              ELSE Nil]
      BY <1>2 DEF Load
    <3>2. \A r \in Slots : (r = t) \in BOOLEAN
      OBVIOUS
    <3> QED
      BY <2>2, <3>1, <3>2, Zenon
  <2> QED
    BY <1>1, <1>2, <2>3 DEF Load
<1>3. CASE ~isAuthenticated
  BY <1>1, <1>3 DEF Load
<1> QED
  BY <1>2, <1>3

\* Every step keeps the types and the identity.
LEMMA StepInv == Inv /\ [Next]_vars => Inv'
<1> SUFFICES ASSUME Inv, [Next]_vars
             PROVE  Inv'
  OBVIOUS
<1> USE SessionAssumption DEF Inv, OneIdentity
<1>1. CASE UNCHANGED vars
  BY <1>1 DEF vars, TypeOK
<1>2. CASE Reload
  <2>1. Load(page) /\ visits' \in 0..MaxVisits /\ page \in Pages
    BY <1>2 DEF Reload, TypeOK
  <2> QED
    BY <2>1, LoadType DEF TypeOK
<1>3. CASE Leave
  <2>1. Load(leaving) /\ visits' = visits /\ leaving \in Pages
    BY <1>3 DEF Leave, TypeOK
  <2> QED
    BY <2>1, LoadType DEF TypeOK
<1>4. CASE Signout
  <2>1. leaving' \in Pages
    BY <1>4 DEF Signout, TypeOK, Pages
  <2> QED
    BY <1>4, <2>1 DEF Signout, TypeOK, Pages, Private
<1>5. ASSUME NEW p \in Pages, Go(p) PROVE Inv'
  <2>1. page' \in Pages
    BY <1>5 DEF Go, Landing, Pages
  <2> QED
    BY <1>5, <2>1 DEF Go, TypeOK
<1>6. ASSUME NEW s \in Slots, Poll(s) PROVE Inv'
  <2>1. [kind |-> "user", as |-> stored, header |-> FALSE] \in Request
    BY <1>6 DEF Poll, isAuthenticated, TypeOK, Request
  <2> QED
    BY <1>6, <2>1 DEF Poll, TypeOK
<1>7. ASSUME NEW s \in Slots, NEW u \in Users, SubmitLogin(s, u) PROVE Inv'
  <2>1. [kind |-> "login", as |-> u] \in Request
    BY DEF Request
  <2>2. visits' \in 0..MaxVisits
    BY <1>7 DEF SubmitLogin, TypeOK
  <2> QED
    BY <1>7, <2>1, <2>2 DEF SubmitLogin, TypeOK
<1>8. ASSUME NEW s \in Slots, LoggedIn(s) PROVE Inv'
  <2> DEFINE u == requests[s].as
  <2>1. requests[s] \in Request /\ u \in Users
    BY <1>8 DEF LoggedIn, Idle, TypeOK, Request
  <2>2. [kind |-> "perms", as |-> u, then |-> u] \in Request
    BY <2>1 DEF Request
  <2> QED
    BY <1>8, <2>1, <2>2 DEF LoggedIn, TypeOK, Pages, Private
<1>9. ASSUME NEW s \in Slots, UserAnswered(s) PROVE Inv'
  <2>1. requests[s].as \in Users
    BY <1>9 DEF UserAnswered, Idle, TypeOK, Request
  <2>2. [kind |-> "perms", as |-> stored, then |-> requests[s].as] \in Request
    BY <2>1 DEF Request, TypeOK
  <2>3. header' \in {header, Nil, user}
    BY <1>9 DEF UserAnswered, Called
  <2> QED
    BY <1>9, <2>2, <2>3 DEF UserAnswered, TypeOK
<1>10. ASSUME NEW s \in Slots, PermsAnswered(s) PROVE Inv'
  <2>1. requests[s].as \in Users /\ requests[s].then \in Users
    BY <1>10 DEF PermsAnswered, Idle, TypeOK, Request
  <2> QED
    BY <1>10, <2>1 DEF PermsAnswered, Update, Called, TypeOK
<1>11. ASSUME NEW s \in Slots, Refused(s) PROVE Inv'
  BY <1>11 DEF Refused, TypeOK
<1>12. ASSUME NEW u \in Users, Expire(u) PROVE Inv'
  BY <1>12 DEF Expire, TypeOK
<1> QED
  BY <1>1, <1>2, <1>3, <1>4, <1>5, <1>6, <1>7, <1>8, <1>9, <1>10, <1>11, <1>12 DEF Next

\* Token, store and header agree in every reachable state, whatever answers
\* come late.
THEOREM SameUser == Spec => []OneIdentity
<1>1. Inv => OneIdentity
  BY DEF Inv
<1> QED
  BY <1>1, InitInv, StepInv, PTL DEF Spec
=============================================================================
