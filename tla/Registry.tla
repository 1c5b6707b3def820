------------------------------ MODULE Registry ------------------------------
(***************************************************************************)
(* What the project store promises when requests are served one at a time: *)
(* a table of projects on which every request has at most one effect, all  *)
(* at once, on the record as it is at that moment.  No cluster, no handler *)
(* and no copy of a record appears here.                                   *)
(***************************************************************************)
EXTENDS Projects

CONSTANT Ids

VARIABLE table          \* the projects

Init == table = [i \in Ids |-> Nil]

\* Row i is overwritten by a record whose name no other row has.
Write(i) ==
  /\ table'[i] # Nil
  /\ NameFree(table, i, table'[i].Name)
  /\ table' = [table EXCEPT ![i] = table'[i]]

\* A project starts without deployments.
Create(i) ==
  /\ ~Found(table, i)
  /\ Write(i)
  /\ Recorded(table'[i]) = {}

\* A form replaces what it shows and leaves the deployments alone.
Edit(i) ==
  /\ Found(table, i)
  /\ Write(i)
  /\ table'[i].Deployment = table[i].Deployment

\* One more user holds a role, and nothing else changes.
GrantRole(i, u, r) ==
  /\ Found(table, i)
  /\ Write(i)
  /\ table'[i] = AddRole(table[i], u, r)

\* One deployment is recorded, replaced or forgotten, and nothing else changes.
ChangeDeployment(i, d) ==
  /\ Found(table, i)
  /\ Write(i)
  /\ table'[i] = [table[i] EXCEPT !.Deployment = table'[i].Deployment]
  /\ \A e \in Deps \ {d} : DeploymentsOf(table'[i])[e] = DeploymentsOf(table[i])[e]

Remove(i) ==
  /\ Found(table, i)
  /\ table' = [table EXCEPT ![i] = Nil]

Next ==
  \E i \in Ids :
    \/ Create(i)
    \/ Edit(i)
    \/ \E u \in Users, r \in Roles : GrantRole(i, u, r)
    \/ \E d \in Deps : ChangeDeployment(i, d)
    \/ Remove(i)

Spec == Init /\ [][Next]_table
=============================================================================
