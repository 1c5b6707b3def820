------------------------------ MODULE MCPages ------------------------------
(***************************************************************************)
(* Small instances of Pages for TLC.                                       *)
(***************************************************************************)
EXTENDS Pages

CONSTANTS d1, d2

OneDep  == {d1}
TwoDeps == {d1, d2}

\* The elasticsearch, kibana and status of a deployment are loaded and shown
\* like its record.
RecordAndSecrets == {"deployment", "secrets"}
=============================================================================
