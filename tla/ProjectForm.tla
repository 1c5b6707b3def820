---------------------------- MODULE ProjectForm ----------------------------
(***************************************************************************)
(* ProjectForm, the form of a project with its table of users and roles,   *)
(* and what createProjects makes of it.                                    *)
(*                                                                         *)
(* The rows of the table are objects, and the popover works on the object  *)
(* of the row it was opened for, so they are named.                        *)
(***************************************************************************)
EXTENDS Naturals, FiniteSets, Sequences, SequencesExt

CONSTANTS Users,     \* names that the server lists
          Creator,   \* the user of the tab
          MaxRows,   \* bound: rows of the table
          Nil

ASSUME FormAssumption == MaxRows \in Nat \ {0} /\ "" \notin Users /\ Creator \in Users

\* The popover offers two of the roles a project can have given; a user who
\* saves a project without roles becomes its administrator.
Options == {"Viewer", "Editor"}
Roles   == Options \cup {"Platform_ADMIN"}
Row == [username : Users \cup {""}, role : Roles]
Rows == 1 .. MaxRows + 1

VARIABLES
  object,   \* the rows and the popover's entry: identity -> Row
  form,     \* the mounted form, or Nil
  requests, \* requests that are not over
  stored    \* server: the role mappings of the project in order, or Nil

vars == <<object, form, requests, stored>>

\* ProjectForm.constructor.
Mounted ==
  [id       |-> FALSE,   \* this.state has the Id of the project
   mappings |-> <<>>,    \* RoleMappings of this.state
   table    |-> <<>>,    \* Roles: the rows in order
   role     |-> Nil,     \* the popover's row, Nil while it is closed
   reset    |-> FALSE]   \* the state has the field CPU

Entry == [username |-> "", role |-> "Viewer"]

Init ==
  /\ object = [o \in Rows |-> Entry]
  /\ form = Nil
  /\ requests = {}
  /\ stored = Nil

Shown == [k \in DOMAIN form.table |-> object[form.table[k]]]

------------------------------------------------------------------------------
\* Objects that nothing refers to are blank, and can be used again.
Kept(f) == [o \in Rows |-> IF o = f.role \/ o \in ToSet(f.table) THEN object[o] ELSE Entry]

\* Bound: the user waits for the answer to a save, or leaves the form.
Waits == \E r \in requests : r.op # "load"

\* openPopUP: a new entry.
Open(o) ==
  /\ form # Nil /\ ~Waits
  /\ form.role = Nil
  /\ o \notin ToSet(form.table)
  /\ \A p \in 1 .. o - 1 : p \in ToSet(form.table)
  /\ object' = [object EXCEPT ![o] = Entry]
  /\ form' = [form EXCEPT !.role = o]
  /\ UNCHANGED <<requests, stored>>

\* editUser: the row itself.
EditUser(k) ==
  /\ form # Nil /\ ~Waits
  /\ form.role = Nil
  /\ k \in DOMAIN form.table
  /\ form' = [form EXCEPT !.role = form.table[k]]
  /\ UNCHANGED <<object, requests, stored>>

\* changeRoleUsername and changeRoleRole change the object in place, a row of
\* the table with it.
ChangeUsername(u) ==
  /\ form # Nil /\ ~Waits
  /\ form.role # Nil
  /\ object' = [object EXCEPT ![form.role].username = u]
  /\ UNCHANGED <<form, requests, stored>>

ChangeRole(role) ==
  /\ form # Nil /\ ~Waits
  /\ form.role # Nil
  /\ object' = [object EXCEPT ![form.role].role = role]
  /\ UNCHANGED <<form, requests, stored>>

\* addUser: the first row of that name becomes the popover's object.
Positions(u) == {k \in DOMAIN form.table : object[form.table[k]].username = u}
First(S) == CHOOSE k \in S : \A j \in S : k <= j

AddUser ==
  /\ form # Nil /\ ~Waits
  /\ form.role # Nil
  /\ LET at == Positions(object[form.role].username) IN
     /\ at = {} => Len(form.table) < MaxRows
     /\ form' = [form EXCEPT
          !.table = IF at = {} THEN Append(@, form.role)
                               ELSE [@ EXCEPT ![First(at)] = form.role],
          !.role = Nil]
  /\ object' = Kept(form')
  /\ UNCHANGED <<requests, stored>>

ClosePopup ==
  /\ form # Nil /\ ~Waits
  /\ form.role # Nil
  /\ form' = [form EXCEPT !.role = Nil]
  /\ object' = Kept(form')
  /\ UNCHANGED <<requests, stored>>

\* deleteUser: every row of that name.
DeleteUser(k) ==
  /\ form # Nil /\ ~Waits
  /\ form.role = Nil
  /\ k \in DOMAIN form.table
  /\ LET Stays(o) == object[o].username # object[form.table[k]].username IN
     form' = [form EXCEPT !.table = SelectSeq(@, Stays)]
  /\ object' = Kept(form')
  /\ UNCHANGED <<requests, stored>>

\* clearForm empties the texts and adds a field CPU; the roles stay.
Reset ==
  /\ form # Nil /\ ~Waits
  /\ form' = [form EXCEPT !.reset = TRUE]
  /\ UNCHANGED <<object, requests, stored>>

------------------------------------------------------------------------------
OpenForm(edit) ==
  /\ form = Nil /\ ~Waits
  /\ edit => stored # Nil
  /\ form' = Mounted
  /\ object' = [o \in Rows |-> Entry]
  /\ requests' = requests \cup (IF edit THEN {[op |-> "load"]} ELSE {})
  /\ UNCHANGED stored

Leave ==
  /\ form # Nil
  /\ form' = Nil
  /\ object' = [o \in Rows |-> Entry]
  /\ requests' = {r \in requests : r.op # "load"}
  /\ UNCHANGED stored

\* Identities of n new rows: not that of the popover's entry, which stays.
NewRows(n) == [k \in 1 .. n |-> IF form.role = Nil \/ k < form.role THEN k ELSE k + 1]

\* API.GetProject makes the rows of the mappings (CovertMappingToRoles), those
\* of a project that was saved without rows too.
LoadedRows ==
  LET new == NewRows(Len(stored)) IN
  [o \in Rows |-> IF \E k \in DOMAIN new : new[k] = o
                    THEN stored[CHOOSE k \in DOMAIN new : new[k] = o]
                  ELSE IF o = form.role THEN object[o] ELSE Entry]

\* Mutant: the mappings stay in the state and go back with the next save.
Load_KeepsMappings ==
  /\ form # Nil
  /\ [op |-> "load"] \in requests
  /\ stored # Nil
  /\ requests' = requests \ {[op |-> "load"]}
  /\ object' = LoadedRows
  /\ form' = [form EXCEPT !.id = TRUE, !.table = NewRows(Len(stored)),
                          !.mappings = stored]
  /\ UNCHANGED stored

\* componentDidMount: the project without deployments and mappings replaces
\* what was entered.  Leave drops the load of a form that is left.
Load ==
  /\ form # Nil
  /\ [op |-> "load"] \in requests
  /\ stored # Nil
  /\ requests' = requests \ {[op |-> "load"]}
  /\ object' = LoadedRows
  /\ form' = [form EXCEPT !.id = TRUE, !.table = NewRows(Len(stored))]
  /\ UNCHANGED stored

\* The load fails, or the project is gone.
LoadFails ==
  /\ [op |-> "load"] \in requests
  /\ requests' = requests \ {[op |-> "load"]}
  /\ UNCHANGED <<object, form, stored>>

\* onFormSave.
Save ==
  /\ form # Nil /\ ~Waits
  /\ requests' = requests \cup
       {[op |-> "save", id |-> form.id, roles |-> Shown,
         mappings |-> form.mappings, reset |-> form.reset]}
  /\ UNCHANGED <<object, form, stored>>

------------------------------------------------------------------------------
\* createProjects: the mappings are those of the roles, or those of the request
\* when it lists no role, or the creator's when there are none.  A form knows no
\* role that CovertRolesToMappings would drop.
Mappings(r) ==
  LET given == IF r.roles # <<>> THEN r.roles ELSE r.mappings IN
  IF given = <<>> THEN <<[username |-> Creator, role |-> "Platform_ADMIN"]>> ELSE given

\* A request with an Id changes the project or makes it again, one without makes
\* a project, which is another one if this one is "here": a form for an update
\* that is saved before its load does so too.  The empty CPU beside Cpu cannot
\* be decoded.
Serve(r) ==
  /\ r.op = "save"
  /\ ~r.reset
  /\ LET here == r.id \/ stored = Nil IN
     /\ requests' = (requests \ {r}) \cup {[op |-> "saved", id |-> r.id, here |-> here]}
     /\ stored' = IF here THEN Mappings(r) ELSE stored
  /\ UNCHANGED <<object, form>>

Refuse(r) ==
  /\ r.op = "save"
  /\ requests' = requests \ {r}
  /\ UNCHANGED <<object, form, stored>>

\* The answer leads back to the projects, whatever is mounted.
Saved ==
  /\ \E r \in requests : r.op = "saved"
  /\ form' = Nil
  /\ requests' = {}
  /\ object' = [o \in Rows |-> Entry]
  /\ UNCHANGED stored

\* Somebody deletes the project.
Delete ==
  /\ stored # Nil
  /\ stored' = Nil
  /\ UNCHANGED <<object, form, requests>>

Next ==
  \/ \E o \in Rows : Open(o)
  \/ \E k \in 1 .. MaxRows : EditUser(k) \/ DeleteUser(k)
  \/ \E u \in Users : ChangeUsername(u)
  \/ \E role \in Options : ChangeRole(role)
  \/ AddUser \/ ClosePopup \/ Reset \/ Leave \/ Load \/ LoadFails \/ Save
  \/ \E edit \in BOOLEAN : OpenForm(edit)
  \/ \E r \in requests : Serve(r) \/ Refuse(r)
  \/ Saved \/ Delete

Spec == Init /\ [][Next]_vars

------------------------------------------------------------------------------
\* When the answer to a save arrives, those who have a role in the project are
\* those the open form still shows, in the roles it shows, or the one who saved it
\* when it shows none: a user who was loaded, taken out of the table or renamed in
\* the popover and saved has lost the role.  (The form was loaded before it was
\* saved, or makes a new project.)
Granted(rows) ==
  IF rows = <<>> THEN {[username |-> Creator, role |-> "Platform_ADMIN"]} ELSE ToSet(rows)

GrantedAsShown ==
  \A r \in requests :
    (r.op = "saved" /\ r.here /\ form # Nil /\ stored # Nil) =>
      (form.id = r.id => ToSet(stored) = Granted(Shown))
=============================================================================
