--------------------------- MODULE AccountsProofs ---------------------------
(***************************************************************************)
(* For any users and roles: who has an account, and what the settings show *)
(* of the accounts, whatever else is on the way.                           *)
(***************************************************************************)
EXTENDS Accounts, TLAPS

Rows == [Users -> User \cup {Nil}]
Modal == [kind : {"edit", "delete"}, user : Users, row : User, live : BOOLEAN]
Profile == [user : Users, role : Roles \cup {Nil}, password : Nat \cup {Nil}]

\* Requests by what they ask for.
ListRequest == [op : {"list"}, got : Rows \cup {Nil}]
ProfileRequest == [op : {"profile"}, user : Users, got : User \cup {Nil}]
UpdateRequest ==
  [op : {"update"}, by : {"settings", "profile"}, user : Users, asked : User,
   read : User \cup {Nil}]
DeleteRequest == [op : {"delete"}, user : Users, read : User \cup {Nil}]
LoginRequest ==
  [op : {"login"}, user : Users, password : Nat \cup {Nil}, read : User \cup {Nil}]
RegisterRequest == [op : {"register"}, user : Users, password : Nat]
DoneRequest == [op : {"done"}]
Request ==
  ListRequest \cup ProfileRequest \cup UpdateRequest \cup DeleteRequest \cup
  LoginRequest \cup RegisterRequest \cup DoneRequest

Types ==
  /\ table \in Rows
  /\ rows \in Rows
  /\ modal \in Modal \cup {Nil}
  /\ profile \in Profile \cup {Nil}
  /\ made \in Nat
  /\ requests \subseteq Request
  /\ \A r \in requests : r.op = "profile" => profile \in Profile

\* The list l says of the users of S who has an account and in which role.
Tells(l, S) ==
  \A u \in S : /\ (l[u] = Nil) = (table[u] = Nil)
               /\ l[u] # Nil => l[u].role = table[u].role

\* While the administrator waits for the answers there is one of them at most,
\* and a list that is on the way, or shown, is only behind what others wrote
\* since and what was entered in a modal.
Waiting ==
  calm => /\ \A r, s \in OfSettings : r = s
          /\ \A r \in OfSettings :
               r.op = "list" /\ r.got # Nil => Tells(r.got, Users \ foreign)
          /\ OfSettings = {} => Tells(rows, Users \ (foreign \cup abandoned))

RowsInv == Types /\ Waiting

LEMMA Kinds ==
  ASSUME NEW r \in Request
  PROVE  /\ r.op = "list" => r \in ListRequest
         /\ r.op = "profile" => r \in ProfileRequest
         /\ r.op = "update" => r \in UpdateRequest
         /\ r.op = "delete" => r \in DeleteRequest
         /\ r.op = "login" => r \in LoginRequest
         /\ r.op = "register" => r \in RegisterRequest
BY DEF Request, ListRequest, ProfileRequest, UpdateRequest, DeleteRequest, LoginRequest,
       RegisterRequest, DoneRequest

LEMMA InitRows == Init => RowsInv
<1> SUFFICES ASSUME Init PROVE RowsInv
  OBVIOUS
<1>1. [role |-> "Viewer", password |-> 0] \in User
  BY AccountsAssumption DEF User
<1>2. List \in Request /\ List.op = "list" /\ List.got = Nil
  BY DEF List, Request, ListRequest
<1>3. OfSettings = {List}
  BY <1>2 DEF OfSettings, Init
<1> QED
  BY <1>1, <1>2, <1>3 DEF Init, RowsInv, Types, Waiting, Rows, NoUser

\* Every step keeps the types.
LEMMA TypesKept == Types /\ [Next]_vars => Types'
<1> SUFFICES ASSUME Types, [Next]_vars PROVE Types'
  OBVIOUS
<1> USE DEF Types
<1>1. CASE UNCHANGED vars
  BY <1>1 DEF vars
<1>2. ASSUME NEW kind \in {"edit", "delete"}, NEW u \in Users, OpenModal(kind, u)
      PROVE  Types'
  BY <1>2 DEF OpenModal, Rows, Modal
<1>3. ASSUME NEW row \in User, Editing, Change(row), made' \in Nat, profile' = profile
      PROVE  Types'
  BY <1>3 DEF Change, Editing, Rows, Modal
<1>4. ASSUME NEW role \in Roles, SelectRole(role) PROVE Types'
  <2>1. [modal.row EXCEPT !.role = role] \in User
    BY <1>4 DEF SelectRole, Editing, Modal, User
  <2> QED
    BY <1>3, <1>4, <2>1 DEF SelectRole, Change
<1>5. CASE NewPassword
  <2>1. made' \in Nat /\ [modal.row EXCEPT !.password = made + 1] \in User
    BY <1>5 DEF NewPassword, Editing, Modal, User
  <2> QED
    BY <1>3, <1>5, <2>1 DEF NewPassword, Change
<1>6. CASE CloseModal
  BY <1>6 DEF CloseModal
<1>7. CASE Confirm
  <2>1. IF modal.kind = "edit"
          THEN [op |-> "update", by |-> "settings", user |-> modal.user,
                asked |-> modal.row, read |-> Nil] \in UpdateRequest
          ELSE [op |-> "delete", user |-> modal.user, read |-> Nil] \in DeleteRequest
    BY <1>7 DEF Confirm, Modal, UpdateRequest, DeleteRequest
  <2> QED
    BY <1>7, <2>1 DEF Confirm, Request
<1>8. CASE Done
  BY <1>8 DEF Done, List, Request, ListRequest
<1>9. CASE Listed
  BY <1>9, Kinds DEF Listed, ListRequest, Modal
<1>10. CASE Reopen
  BY <1>10 DEF Reopen, List, Request, ListRequest, Rows, NoUser
<1>11. ASSUME NEW u \in Users, OpenProfile(u) PROVE Types'
  BY <1>11 DEF OpenProfile, Ask, settings, Request, ProfileRequest, Profile
<1>12. CASE ProfileLoaded
  BY <1>12, Kinds DEF ProfileLoaded, ProfileRequest, Profile, User, settings
<1>13. CASE TypePassword
  BY <1>13 DEF TypePassword, Profile, settings
<1>14. CASE SaveProfile
  <2>1. [op |-> "update", by |-> "profile", user |-> profile.user, read |-> Nil,
         asked |-> [role |-> profile.role, password |-> profile.password]] \in UpdateRequest
    BY <1>14 DEF SaveProfile, Profile, UpdateRequest, User
  <2> QED
    BY <1>14, <2>1 DEF SaveProfile, Ask, Request, settings
<1>15. CASE LeaveProfile
  BY <1>15 DEF LeaveProfile, Free, OfSettings, settings
<1>16. ASSUME NEW u \in Users, Login(u) PROVE Types'
  <2> DEFINE q == [op |-> "login", user |-> u, password |-> table[u].password, read |-> Nil]
  <2>1. q \in LoginRequest /\ q.op # "profile"
    BY <1>16 DEF Login, Rows, User, LoginRequest
  <2>2. Ask(q) /\ profile' = profile /\ made' = made
    BY <1>16 DEF Login
  <2> HIDE DEF q
  <2> QED
    BY <2>1, <2>2 DEF Ask, settings, Request
<1>17. ASSUME NEW u \in Users, Register(u) PROVE Types'
  BY <1>17 DEF Register, Ask, settings, Request, RegisterRequest
<1>18. \A u \in Users : Blanked(u) \in User \cup {Nil}
  BY DEF Blanked, Rows, User
<1>19. ASSUME NEW r \in requests, GetUsers(r) PROVE Types'
  <2> DEFINE q == [r EXCEPT !.got = [u \in Users |-> Blanked(u)]]
  <2>1. q \in ListRequest /\ q.op # "profile"
    BY <1>18, <1>19, Kinds DEF GetUsers, ListRequest, Rows
  <2>2. requests' = (requests \ {r}) \cup {q}
    BY <1>19 DEF GetUsers
  <2> HIDE DEF q
  <2> QED
    BY <1>19, <2>1, <2>2 DEF GetUsers, Request, Client, settings
<1>20. ASSUME NEW r \in requests, GetUserInfo(r) PROVE Types'
  <2>1. [r EXCEPT !.got = Blanked(r.user)] \in ProfileRequest
    BY <1>18, <1>20, Kinds DEF GetUserInfo, ProfileRequest
  <2> QED
    BY <1>20, <2>1 DEF GetUserInfo, Request, Client, settings
<1>21. ASSUME NEW r \in requests, Read(r) PROVE Types'
  <2>1. r \in UpdateRequest \cup DeleteRequest \cup LoginRequest
    BY <1>21, Kinds DEF Read
  <2>2. table[r.user] \in User
    BY <1>21, <2>1 DEF Read, Rows, UpdateRequest, DeleteRequest, LoginRequest
  <2> DEFINE q == [r EXCEPT !.read = table[r.user]]
  <2>3. q \in UpdateRequest \cup DeleteRequest \cup LoginRequest
    BY <2>1, <2>2 DEF UpdateRequest, DeleteRequest, LoginRequest
  <2>4. q \in Request /\ q.op # "profile"
    BY <2>3 DEF Request, UpdateRequest, DeleteRequest, LoginRequest
  <2>5. requests' = (requests \ {r}) \cup {q}
    BY <1>21 DEF Read
  <2> HIDE DEF q
  <2> QED
    BY <1>21, <2>4, <2>5 DEF Read, Client, settings
<1>22. ASSUME NEW r \in requests, Answered(r)
      PROVE  /\ requests' \subseteq Request
             /\ \A q \in requests' : q.op = "profile" => q \in requests
  BY <1>22 DEF Answered, Request, DoneRequest
<1>23. ASSUME NEW r \in requests, UpdateUser(r) PROVE Types'
  <2>1. r \in UpdateRequest /\ Merged(r) \in User
    BY <1>23, Kinds DEF UpdateUser, UpdateRequest, Merged, User
  <2> QED
    BY <1>22, <1>23, <2>1 DEF UpdateUser, Rows, Client, settings
<1>24. ASSUME NEW r \in requests, DeleteUser(r) PROVE Types'
  BY <1>22, <1>24 DEF DeleteUser, Rows, Client, settings
<1>25. ASSUME NEW r \in requests, SaveUser(r) PROVE Types'
  <2>1. CASE r.op = "login" /\ r.read # Nil
    BY <1>22, <1>25, <2>1, Kinds DEF SaveUser, Rows, LoginRequest, Client, settings
  <2>2. CASE r.op = "register"
    <3>1. [role |-> "Viewer", password |-> r.password] \in User
      BY <1>25, <2>2, Kinds, AccountsAssumption DEF RegisterRequest, User
    <3> QED
      BY <1>22, <1>25, <2>2, <3>1 DEF SaveUser, Rows, Client, settings
  <2> QED
    BY <1>25, <2>1, <2>2 DEF SaveUser
<1>26. ASSUME NEW r \in requests, Refused(r) PROVE Types'
  BY <1>26 DEF Refused
<1> QED
  BY <1>1, <1>2, <1>4, <1>5, <1>6, <1>7, <1>8, <1>9, <1>10, <1>11, <1>12, <1>13, <1>14,
     <1>15, <1>16, <1>17, <1>19, <1>20, <1>21, <1>23, <1>24, <1>25, <1>26 DEF Next

\* The answers that the administrator waits for.
Awaited(r) ==
  r.op \in {"list", "delete", "done"} \/ (r.op = "update" /\ r.by = "settings")

\* A step of another one, which adds or ends requests that the administrator
\* does not wait for.
LEMMA OthersStep ==
  ASSUME Types, Waiting, OfSettings' = OfSettings,
         rows' = rows, calm' = calm, abandoned' = abandoned,
         foreign \subseteq foreign',
         \A u \in Users \ foreign' : table'[u] = table[u]
  PROVE  Waiting'
BY DEF Waiting, Tells

\* One answer that the administrator waits for takes the place of another.
LEMMA AnswerStep ==
  ASSUME Waiting, NEW r \in OfSettings, NEW q,
         requests' = (requests \ {r}) \cup {q}, Awaited(q), calm' = calm,
         q.op = "list" /\ q.got # Nil /\ calm =>
           \A u \in Users \ foreign' : /\ (q.got[u] = Nil) = (table'[u] = Nil)
                                       /\ q.got[u] # Nil => q.got[u].role = table'[u].role
  PROVE  Waiting'
<1>1. OfSettings' = (OfSettings \ {r}) \cup {q}
  BY DEF OfSettings, Awaited
<1>2. calm => OfSettings' = {q}
  BY <1>1 DEF Waiting
<1>3. calm /\ q.op = "list" /\ q.got # Nil => Tells(q.got, Users \ foreign)'
  BY DEF Tells
<1> QED
  BY <1>2, <1>3 DEF Waiting

\* The administrator acts: nobody was waited for, or calm is over.
LEMMA ActStep ==
  ASSUME Types, Waiting, Acts, table' = table, foreign' = foreign, requests' = requests,
         abandoned \subseteq abandoned',
         \A u \in Users \ abandoned' : rows'[u] = rows[u]
  PROVE  Waiting'
<1>1. OfSettings' = OfSettings
  BY DEF OfSettings
<1>2. calm' => OfSettings = {} /\ calm
  BY DEF Acts
<1> QED
  BY <1>1, <1>2 DEF Waiting, Tells

LEMMA WaitingKept == Types /\ Waiting /\ [Next]_vars => Waiting'
<1> SUFFICES ASSUME Types, Waiting, [Next]_vars PROVE Waiting'
  OBVIOUS
<1>1. CASE UNCHANGED vars
  <2>1. OfSettings' = OfSettings
    BY <1>1 DEF vars, OfSettings
  <2> QED
    BY <1>1, <2>1, OthersStep DEF vars
<1>2. ASSUME NEW kind \in {"edit", "delete"}, NEW u \in Users, OpenModal(kind, u)
      PROVE  Waiting'
  BY <1>2, ActStep DEF OpenModal
<1>3. ASSUME NEW row, Change(row), modal # Nil PROVE Waiting'
  <2>1. \A u \in Users \ abandoned' : rows'[u] = rows[u]
    BY <1>3 DEF Change, Types, Rows
  <2> QED
    BY <1>3, <2>1, ActStep DEF Change
<1>4. ASSUME NEW role \in Roles, SelectRole(role) PROVE Waiting'
  BY <1>3, <1>4 DEF SelectRole, Editing
<1>5. CASE NewPassword
  BY <1>3, <1>5 DEF NewPassword, Editing
<1>6. CASE CloseModal
  BY <1>6, ActStep DEF CloseModal
<1>7. CASE Confirm
  <2>1. PICK q \in UpdateRequest \cup DeleteRequest : requests' = requests \cup {q}
    <3>1. modal \in Modal
      BY <1>7 DEF Confirm, Types
    <3>2. CASE modal.kind = "edit"
      <4> DEFINE q == [op |-> "update", by |-> "settings", user |-> modal.user,
                       asked |-> modal.row, read |-> Nil]
      <4>1. q \in UpdateRequest
        BY <3>1 DEF Modal, UpdateRequest
      <4> QED
        BY <1>7, <3>2, <4>1 DEF Confirm
    <3>3. CASE modal.kind # "edit"
      <4> DEFINE q == [op |-> "delete", user |-> modal.user, read |-> Nil]
      <4>1. q \in DeleteRequest
        BY <3>1 DEF Modal, DeleteRequest
      <4> QED
        BY <1>7, <3>3, <4>1 DEF Confirm
    <3> QED
      BY <3>2, <3>3
  <2>2. q.op \in {"update", "delete"}
    BY <2>1 DEF UpdateRequest, DeleteRequest
  <2>3. OfSettings' \subseteq OfSettings \cup {q}
    BY <2>1 DEF OfSettings
  <2>4. calm' => OfSettings = {} /\ calm
    BY <1>7 DEF Confirm, Acts
  <2>5. OfSettings = {} => OfSettings' = {} \/ OfSettings' = {q}
    BY <2>3
  <2>6. rows' = rows /\ table' = table /\ foreign' = foreign /\ abandoned' = abandoned
    BY <1>7 DEF Confirm
  <2> QED
    BY <2>2, <2>4, <2>5, <2>6 DEF Waiting, Tells
<1>8. CASE Done
  <2>1. /\ [op |-> "done"] \in OfSettings
        /\ requests' = (requests \ {[op |-> "done"]}) \cup {List}
        /\ calm' = calm /\ Awaited(List) /\ List.got = Nil
    BY <1>8 DEF Done, OfSettings, Awaited, List
  <2> QED
    BY <2>1, AnswerStep
<1>9. CASE Listed
  <2>1. PICK r \in requests :
          /\ r.op = "list" /\ r.got # Nil /\ requests' = requests \ {r}
          /\ rows' = r.got /\ abandoned' = {}
          /\ table' = table /\ calm' = calm /\ foreign' = foreign
    BY <1>9 DEF Listed
  <2>2. r \in OfSettings /\ OfSettings' = OfSettings \ {r}
    BY <2>1 DEF OfSettings
  <2>3. calm => OfSettings' = {} /\ Tells(r.got, Users \ foreign)
    BY <2>1, <2>2 DEF Waiting
  <2> QED
    BY <2>1, <2>3 DEF Waiting, Tells
<1>10. CASE Reopen
  <2>1. OfSettings' = {List} /\ List.got = Nil
    BY <1>10 DEF Reopen, OfSettings, List
  <2> QED
    BY <2>1 DEF Waiting
<1>11. ASSUME NEW q, Ask(q), ~Awaited(q) PROVE Waiting'
  <2>1. OfSettings' = OfSettings
    BY <1>11 DEF Ask, OfSettings, Awaited
  <2> QED
    BY <1>11, <2>1, OthersStep DEF Ask, settings
<1>12. ASSUME NEW u \in Users, OpenProfile(u) \/ Login(u) \/ Register(u) PROVE Waiting'
  BY <1>11, <1>12 DEF OpenProfile, Login, Register, Awaited
<1>13. CASE SaveProfile
  BY <1>11, <1>13 DEF SaveProfile, Awaited
<1>14. CASE ProfileLoaded
  <2>1. OfSettings' = OfSettings
    BY <1>14 DEF ProfileLoaded, OfSettings
  <2> QED
    BY <1>14, <2>1, OthersStep DEF ProfileLoaded, settings
<1>15. CASE TypePassword \/ LeaveProfile
  <2>1. OfSettings' = OfSettings
    BY <1>15 DEF TypePassword, LeaveProfile, OfSettings
  <2> QED
    BY <1>15, <2>1, OthersStep DEF TypePassword, LeaveProfile, settings
<1>16. ASSUME NEW r \in requests, GetUsers(r) PROVE Waiting'
  <2> DEFINE q == [r EXCEPT !.got = [u \in Users |-> Blanked(u)]]
  <2>1. r \in ListRequest
    BY <1>16, Kinds DEF GetUsers, Types
  <2>2. q.op = "list" /\ q.got = [u \in Users |-> Blanked(u)]
    BY <2>1 DEF ListRequest
  <2>3. ASSUME NEW u \in Users
        PROVE  /\ (Blanked(u) = Nil) = (table[u] = Nil)
               /\ Blanked(u) # Nil => Blanked(u).role = table[u].role
    <3>1. table[u] \in User \cup {Nil}
      BY DEF Types, Rows
    <3>2. CASE table[u] \in User
      <4>1. Blanked(u) \in User /\ Blanked(u).role = table[u].role
        BY <3>2, NilIsNoUser DEF Blanked, User
      <4> QED
        BY <3>2, <4>1, NilIsNoUser
    <3>3. CASE table[u] = Nil
      BY <3>3 DEF Blanked
    <3> QED
      BY <3>1, <3>2, <3>3
  <2>4. requests' = (requests \ {r}) \cup {q} /\ calm' = calm /\ table' = table
    BY <1>16 DEF GetUsers, Client, settings
  <2>5. r \in OfSettings /\ Awaited(q)
    BY <2>1, <2>2 DEF OfSettings, Awaited, ListRequest
  <2> HIDE DEF q
  <2> QED
    BY <2>2, <2>3, <2>4, <2>5, AnswerStep
<1>17. ASSUME NEW r \in requests, GetUserInfo(r) PROVE Waiting'
  <2> DEFINE q == [r EXCEPT !.got = Blanked(r.user)]
  <2>1. r.op = "profile" /\ q.op = "profile"
    BY <1>17, Kinds DEF GetUserInfo, Types, ProfileRequest
  <2>2. requests' = (requests \ {r}) \cup {q}
    BY <1>17 DEF GetUserInfo
  <2> HIDE DEF q
  <2>3. OfSettings' = OfSettings
    BY <2>1, <2>2 DEF OfSettings
  <2> QED
    BY <1>17, <2>3, OthersStep DEF GetUserInfo, Client, settings
<1>18. ASSUME NEW r \in requests, Read(r) PROVE Waiting'
  <2> DEFINE q == [r EXCEPT !.read = table[r.user]]
  <2>1. r \in UpdateRequest \cup DeleteRequest \cup LoginRequest
    BY <1>18, Kinds DEF Read, Types
  <2>2. q.op = r.op /\ q.op # "list" /\ (q.op = "update" => q.by = r.by)
    BY <2>1 DEF UpdateRequest, DeleteRequest, LoginRequest
  <2>3. /\ requests' = (requests \ {r}) \cup {q} /\ calm' = calm /\ table' = table
        /\ rows' = rows /\ abandoned' = abandoned /\ foreign' = foreign
    BY <1>18 DEF Read, Client, settings
  <2> HIDE DEF q
  <2>4. CASE Awaited(q)
    <3>1. r \in OfSettings
      BY <2>2, <2>4 DEF OfSettings, Awaited
    <3> QED
      BY <2>2, <2>3, <2>4, <3>1, AnswerStep
  <2>5. CASE ~Awaited(q)
    <3>1. OfSettings' = OfSettings
      BY <2>2, <2>3, <2>5 DEF OfSettings, Awaited
    <3> QED
      BY <2>3, <3>1, OthersStep
  <2> QED
    BY <2>4, <2>5
<1>19. ASSUME NEW r \in requests, Answered(r), calm' = calm, rows' = rows,
              abandoned' = abandoned, foreign \subseteq foreign',
              r \notin OfSettings => \A u \in Users \ foreign' : table'[u] = table[u]
       PROVE  Waiting'
  <2>1. CASE r \in OfSettings
    <3> DEFINE q == [op |-> "done"]
    <3>1. requests' = (requests \ {r}) \cup {q} /\ q.op = "done" /\ Awaited(q)
      BY <1>19, <2>1 DEF Answered, Awaited
    <3> HIDE DEF q
    <3> QED
      BY <1>19, <2>1, <3>1, AnswerStep
  <2>2. CASE r \notin OfSettings
    <3>1. OfSettings' = OfSettings
      BY <1>19, <2>2 DEF Answered, OfSettings
    <3> QED
      BY <1>19, <2>2, <3>1, OthersStep
  <2> QED
    BY <2>1, <2>2
<1>20. ASSUME NEW r \in requests, UpdateUser(r) PROVE Waiting'
  BY <1>19, <1>20 DEF UpdateUser, Client, settings, Types, Rows
<1>21. ASSUME NEW r \in requests, DeleteUser(r) PROVE Waiting'
  <2>1. r \in OfSettings
    BY <1>21 DEF DeleteUser, OfSettings
  <2> QED
    BY <1>19, <1>21, <2>1 DEF DeleteUser, Client, settings
<1>22. ASSUME NEW r \in requests, SaveUser(r) PROVE Waiting'
  BY <1>19, <1>22 DEF SaveUser, Client, settings, Types, Rows
<1>23. ASSUME NEW r \in requests, Refused(r) PROVE Waiting'
  <2>1. CASE calm'
    <3>1. r \notin OfSettings /\ calm
      BY <1>23, <2>1 DEF Refused
    <3>2. OfSettings' = OfSettings
      BY <1>23, <3>1 DEF Refused, OfSettings
    <3> QED
      BY <1>23, <2>1, <3>1, <3>2, OthersStep DEF Refused
  <2>2. CASE ~calm'
    BY <2>2 DEF Waiting
  <2> QED
    BY <2>1, <2>2
<1> QED
  BY <1>1, <1>2, <1>4, <1>5, <1>6, <1>7, <1>8, <1>9, <1>10, <1>12, <1>13, <1>14, <1>15,
     <1>16, <1>17, <1>18, <1>20, <1>21, <1>22, <1>23 DEF Next

\* An administrator who waits for the answers sees who has an account and in
\* which role, whatever logins, registrations and profiles are on the way, and
\* whatever was refused before the settings were opened again.
THEOREM RowsCurrent == Spec => []RowsAreCurrent
<1>1. RowsInv /\ [Next]_vars => RowsInv'
  BY TypesKept, WaitingKept DEF RowsInv
<1>2. RowsInv => RowsAreCurrent
  BY DEF RowsInv, Waiting, RowsAreCurrent, Tells
<1> QED
  BY <1>1, <1>2, InitRows, PTL DEF Spec

\* A deleted account comes back by a registration or by a login that read it
\* before, and by nothing else.
THEOREM ComesBackByLogin == Spec => ReturnsByLogin
<1> DEFINE Back(u) == table[u] = Nil /\ table'[u] # Nil
           Why(u) == \E r \in requests \ requests' : r.user = u /\ r.op \in {"login", "register"}
<1>1. ASSUME Types, Next, NEW u \in Users, Back(u) PROVE Why(u)
  <2>1. PICK r \in requests : UpdateUser(r) \/ DeleteUser(r) \/ SaveUser(r)
    BY <1>1 DEF Next, OpenModal, OpenProfile, Login, Register, Ask, SelectRole, Change,
       NewPassword, CloseModal, Confirm, Done, Listed, Reopen, ProfileLoaded, TypePassword,
       SaveProfile, LeaveProfile, GetUsers, GetUserInfo, Read, Refused
  <2>2. ~UpdateUser(r) /\ ~DeleteUser(r)
    BY <1>1 DEF UpdateUser, DeleteUser, Types, Rows
  <2>3. r.op \in {"login", "register"} /\ r.user = u
    BY <1>1, <2>1, <2>2 DEF SaveUser, Types, Rows
  <2>4. r \notin requests'
    BY <2>1, <2>2, <2>3 DEF SaveUser, Answered, OfSettings
  <2> QED
    BY <2>3, <2>4
<1>2. Types /\ [Next]_vars =>
        [\A u \in Users : Back(u) => Why(u)]_vars
  BY <1>1
<1>3. Init => Types
  BY InitRows DEF RowsInv
<1> QED
  BY <1>2, <1>3, TypesKept, PTL DEF Spec, ReturnsByLogin
=============================================================================
