------------------------------- MODULE Storm -------------------------------
(***************************************************************************)
(* EXTERNAL.  The document store behind acl.Datastore (asdine/storm over   *)
(* bolt), modelled from how acl/project.go uses it.  A table maps every    *)
(* key to its record, or to Nil when there is none; the "Name" field of    *)
(* the records is declared unique.  Each call of the program is a single   *)
(* bolt transaction, hence one step of the model; a handler that reads and *)
(* later writes makes two calls, and nothing ties them together.           *)
(***************************************************************************)
EXTENDS Naturals

CONSTANT Nil            \* the absent record, and Go's nil slice and ""

Stored(table) == {i \in DOMAIN table : table[i] # Nil}

\* DB.One("Id", i, &r): storm.ErrNotFound unless the record is there.
Found(table, i) == i \in Stored(table)

\* The unique index on Name: no other record holds it.
NameFree(table, i, name) == \A j \in Stored(table) \ {i} : table[j].Name # name

\* DB.Save inserts or overwrites the whole record, DB.Update only overwrites,
\* DB.DeleteStruct removes; each one leaves the table alone when it fails.
SaveOk(table, i, r)   == NameFree(table, i, r.Name)
UpdateOk(table, i, r) == Found(table, i) /\ NameFree(table, i, r.Name)
DeleteOk(table, i)    == Found(table, i)

Save(table, i, r) == [table EXCEPT ![i] = r]
Delete(table, i)  == [table EXCEPT ![i] = Nil]
=============================================================================
