------------------------------ MODULE Accounts ------------------------------
(***************************************************************************)
(* The accounts: the table of users with the handlers of api/user.go and   *)
(* api/auth.go that write it, the list of users in the settings of an      *)
(* administrator, and the profile page and the registration of the others. *)
(*                                                                         *)
(* A handler reads the record of a user and writes all of it back, so its  *)
(* request is served in two steps.  The modals of the settings change the  *)
(* row of the list in place.                                               *)
(***************************************************************************)
EXTENDS Naturals, FiniteSets

CONSTANTS Users,        \* "admin", which cannot be deleted, and others
          Roles,        \* roles of the selection
          MaxPasswords, \* bound: passwords that are chosen or generated
          Nil

ASSUME AccountsAssumption ==
  /\ "admin" \in Users
  /\ "Viewer" \in Roles
  /\ MaxPasswords \in Nat

\* A record of the table, and the row of a list that is made of it.
User == [role : Roles, password : Nat \cup {Nil}]

ASSUME NilIsNoUser == Nil \notin User

VARIABLES
  table,     \* database: user -> [role, password], or Nil
  requests,  \* requests that are not over
  rows,      \* settings: user -> its row, or Nil
  modal,     \* settings: the open modal, or Nil
  profile,   \* the user of the mounted profile page and what it shows, or Nil
  made,      \* passwords so far
  calm,      \* the administrator has waited for every answer, none failed
  foreign,   \* users that somebody else has written since the list was read
  abandoned  \* users whose row was changed and not saved since then

vars == <<table, requests, rows, modal, profile, made, calm, foreign, abandoned>>
settings == <<rows, modal, calm, abandoned>>

NoUser == [u \in Users |-> Nil]
List == [op |-> "list", got |-> Nil]

Init ==
  /\ table = [u \in Users |-> [role |-> "Viewer", password |-> 0]]
  /\ requests = {List}
  /\ rows = NoUser
  /\ modal = Nil
  /\ profile = Nil
  /\ made = 0
  /\ calm = TRUE
  /\ foreign = {}
  /\ abandoned = {}

OfSettings == {r \in requests : r.op \in {"list", "delete", "done"} \/
                                (r.op = "update" /\ r.by = "settings")}

\* The administrator does something, perhaps while answers are out.
Acts == calm /\ calm' = (OfSettings = {})

------------------------------------------------------------------------------
(***************************************************************************)
(* Users, the list in the settings.                                        *)
(***************************************************************************)

\* showEditModal, showDestroyModal: the modal has the row itself, until the
\* list is replaced below it.
OpenModal(kind, u) ==
  /\ modal = Nil
  /\ rows[u] # Nil
  /\ modal' = [kind |-> kind, user |-> u, row |-> rows[u], live |-> TRUE]
  /\ Acts
  /\ UNCHANGED <<table, requests, rows, profile, made, foreign, abandoned>>

Change(row) ==
  /\ modal' = [modal EXCEPT !.row = row]
  /\ rows' = IF modal.live THEN [rows EXCEPT ![modal.user] = row] ELSE rows
  /\ abandoned' = abandoned \cup {modal.user}
  /\ Acts
  /\ UNCHANGED <<table, requests, profile, foreign>>

Editing == modal # Nil /\ modal.kind = "edit"

\* onUserSelectChange, onUserNewPassword with generatePassword.
SelectRole(role) ==
  Editing /\ role # modal.row.role /\ Change([modal.row EXCEPT !.role = role])
             /\ UNCHANGED made
NewPassword ==
  /\ Editing
  /\ made < MaxPasswords
  /\ made' = made + 1
  /\ Change([modal.row EXCEPT !.password = made + 1])

CloseModal ==
  /\ modal # Nil
  /\ modal' = Nil
  /\ Acts
  /\ UNCHANGED <<table, requests, rows, profile, made, foreign, abandoned>>

\* saveEditModal and DeleteModal.  Bound: one change at a time.
Confirm ==
  /\ modal # Nil
  /\ \A r \in OfSettings : r.op = "list"
  /\ requests' = requests \cup
       {IF modal.kind = "edit"
          THEN [op |-> "update", by |-> "settings", user |-> modal.user,
                asked |-> modal.row, read |-> Nil]
          ELSE [op |-> "delete", user |-> modal.user, read |-> Nil]}
  /\ Acts
  /\ UNCHANGED <<table, rows, modal, profile, made, foreign, abandoned>>

\* Mutant: the list is not asked for again.
Done_NoList ==
  /\ [op |-> "done"] \in requests
  /\ modal' = Nil
  /\ requests' = requests \ {[op |-> "done"]}
  /\ UNCHANGED <<table, rows, profile, made, calm, foreign, abandoned>>

\* Their answer closes whichever modal is open, and getUserList follows.
Done ==
  /\ [op |-> "done"] \in requests
  /\ modal' = Nil
  /\ requests' = (requests \ {[op |-> "done"]}) \cup {List}
  /\ UNCHANGED <<table, rows, profile, made, calm, foreign, abandoned>>

\* getUserList: new rows.
Listed ==
  \E r \in requests :
    /\ r.op = "list"
    /\ r.got # Nil
    /\ requests' = requests \ {r}
    /\ rows' = r.got
    /\ modal' = IF modal = Nil THEN Nil ELSE [modal EXCEPT !.live = FALSE]
    /\ abandoned' = {}
    /\ UNCHANGED <<table, profile, made, calm, foreign>>

\* The settings are opened again.
Reopen ==
  /\ ~calm
  /\ OfSettings = {}
  /\ requests' = requests \cup {List}
  /\ rows' = NoUser
  /\ modal' = Nil
  /\ calm' = TRUE
  /\ abandoned' = {}
  /\ UNCHANGED <<table, profile, made, foreign>>

------------------------------------------------------------------------------
(***************************************************************************)
(* Profile page, login and registration: one user at a time, and bound: one *)
(* request at a time of theirs.                                            *)
(***************************************************************************)
Free == requests \subseteq OfSettings

Ask(r) ==
  /\ Free
  /\ requests' = requests \cup {r}
  /\ UNCHANGED <<table, settings, foreign>>

\* UserProfile.componentDidMount; the answer replaces what was typed.  Bound:
\* the administrator stays in the settings.
OpenProfile(u) ==
  /\ profile = Nil
  /\ u # "admin"
  /\ profile' = [user |-> u, role |-> Nil, password |-> Nil]
  /\ Ask([op |-> "profile", user |-> u, got |-> Nil])
  /\ UNCHANGED made

ProfileLoaded ==
  \E r \in requests :
    /\ r.op = "profile"
    /\ r.got # Nil
    /\ requests' = requests \ {r}
    /\ profile' = [profile EXCEPT !.role = r.got.role, !.password = Nil]
    /\ UNCHANGED <<table, settings, made, foreign>>

\* onTextChange: a password, typed twice and strong.
TypePassword ==
  /\ profile # Nil
  /\ made < MaxPasswords
  /\ made' = made + 1
  /\ profile' = [profile EXCEPT !.password = made + 1]
  /\ UNCHANGED <<table, requests, settings, foreign>>

\* updateUser sends the role that was loaded along.
SaveProfile ==
  /\ profile # Nil
  /\ profile.role # Nil
  /\ Ask([op |-> "update", by |-> "profile", user |-> profile.user, read |-> Nil,
          asked |-> [role |-> profile.role, password |-> profile.password]])
  /\ UNCHANGED <<profile, made>>

LeaveProfile ==
  /\ profile # Nil
  /\ Free
  /\ profile' = Nil
  /\ UNCHANGED <<table, requests, settings, made, foreign>>

\* LoginForm.submitForm, with the password of the moment.
Login(u) ==
  /\ table[u] # Nil
  /\ Ask([op |-> "login", user |-> u, password |-> table[u].password, read |-> Nil])
  /\ UNCHANGED <<profile, made>>

\* RegisterForm.register; nobody looks whether the name is taken.
Register(u) ==
  /\ made < MaxPasswords
  /\ made' = made + 1
  /\ Ask([op |-> "register", user |-> u, password |-> made + 1])
  /\ UNCHANGED profile

------------------------------------------------------------------------------
(***************************************************************************)
(* The server.                                                             *)
(***************************************************************************)
Client == <<settings, profile, made>>

\* getUsers and getUserInfo blank the passwords.
Blanked(u) == IF table[u] = Nil THEN Nil ELSE [table[u] EXCEPT !.password = Nil]

GetUsers(r) ==
  /\ r.op = "list"
  /\ r.got = Nil
  /\ requests' = (requests \ {r}) \cup {[r EXCEPT !.got = [u \in Users |-> Blanked(u)]]}
  /\ foreign' = {}
  /\ UNCHANGED <<table, Client>>

GetUserInfo(r) ==
  /\ r.op = "profile"
  /\ r.got = Nil
  /\ table[r.user] # Nil
  /\ requests' = (requests \ {r}) \cup {[r EXCEPT !.got = Blanked(r.user)]}
  /\ UNCHANGED <<table, foreign, Client>>

\* getUser, the first step of the handlers that write.
Read(r) ==
  /\ r.op \in {"update", "delete", "login"}
  /\ r.read = Nil
  /\ table[r.user] # Nil
  /\ r.op = "delete" => r.user # "admin"
  /\ r.op = "login" => r.password = table[r.user].password
  /\ requests' = (requests \ {r}) \cup {[r EXCEPT !.read = table[r.user]]}
  /\ UNCHANGED <<table, foreign, Client>>

Answered(r) ==
  requests' = (requests \ {r}) \cup (IF r \in OfSettings THEN {[op |-> "done"]} ELSE {})

Merged(r) ==
  [role |-> r.asked.role,
   password |-> IF r.asked.password = Nil THEN r.read.password ELSE r.asked.password]

\* Mutant: the user is saved, and so inserted, and not updated.
UpdateUser_Save(r) ==
  /\ r.op = "update"
  /\ r.read # Nil
  /\ table' = [table EXCEPT ![r.user] = Merged(r)]
  /\ foreign' = IF r \in OfSettings THEN foreign ELSE foreign \cup {r.user}
  /\ Answered(r)
  /\ UNCHANGED Client

\* updateUserHandler, after getUser: storm refuses to update what is not there.
UpdateUser(r) ==
  /\ r.op = "update"
  /\ r.read # Nil
  /\ table[r.user] # Nil
  /\ table' = [table EXCEPT ![r.user] = Merged(r)]
  /\ foreign' = IF r \in OfSettings THEN foreign ELSE foreign \cup {r.user}
  /\ Answered(r)
  /\ UNCHANGED Client

\* deteleUserHandler, after getUser.
DeleteUser(r) ==
  /\ r.op = "delete"
  /\ r.read # Nil
  /\ table[r.user] # Nil
  /\ table' = [table EXCEPT ![r.user] = Nil]
  /\ Answered(r)
  /\ UNCHANGED <<foreign, Client>>

\* login, after the password was compared, and createUser: Save inserts.
SaveUser(r) ==
  /\ \/ /\ r.op = "login"
        /\ r.read # Nil
        /\ table' = [table EXCEPT ![r.user] = r.read]
     \/ /\ r.op = "register"
        /\ table' = [table EXCEPT ![r.user] = [role |-> "Viewer", password |-> r.password]]
  /\ foreign' = foreign \cup {r.user}
  /\ Answered(r)
  /\ UNCHANGED Client

\* The request is refused or lost before the record is written.
Refused(r) ==
  /\ r.op # "done"
  /\ requests' = requests \ {r}
  /\ calm' = (calm /\ r \notin OfSettings)
  /\ UNCHANGED <<table, rows, modal, profile, made, foreign, abandoned>>

Next ==
  \/ \E u \in Users : \/ \E kind \in {"edit", "delete"} : OpenModal(kind, u)
                      \/ OpenProfile(u) \/ Login(u) \/ Register(u)
  \/ \E role \in Roles : SelectRole(role)
  \/ NewPassword \/ CloseModal \/ Confirm \/ Done \/ Listed \/ Reopen
  \/ ProfileLoaded \/ TypePassword \/ SaveProfile \/ LeaveProfile
  \/ \E r \in requests :
       \/ GetUsers(r) \/ GetUserInfo(r) \/ Read(r)
       \/ UpdateUser(r) \/ DeleteUser(r) \/ SaveUser(r) \/ Refused(r)

Spec == Init /\ [][Next]_vars

------------------------------------------------------------------------------
\* An administrator who waits for the answers sees who has an account and in
\* which role: only what others wrote since the list was read, and what was
\* entered in a modal and not saved, is shown otherwise.
RowsAreCurrent ==
  calm /\ modal = Nil /\ OfSettings = {} =>
    \A u \in Users \ (foreign \cup abandoned) :
      /\ (rows[u] = Nil) = (table[u] = Nil)
      /\ rows[u] # Nil => rows[u].role = table[u].role

\* A deleted account comes back only when its user registers again, or when a
\* login that had read it before overtakes the deletion; no change of a role, a
\* name or a password that overlaps with the deletion brings it back.
ReturnsByLogin ==
  [][\A u \in Users : table[u] = Nil /\ table'[u] # Nil =>
       \E r \in requests \ requests' : r.user = u /\ r.op \in {"login", "register"}]_vars
=============================================================================
