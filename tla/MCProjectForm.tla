--------------------------- MODULE MCProjectForm ---------------------------
(***************************************************************************)
(* A small instance of ProjectForm for TLC.                                *)
(***************************************************************************)
EXTENDS ProjectForm

TwoUsers == {"ann", "bob"}
=============================================================================
