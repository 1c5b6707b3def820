----------------------------- MODULE MCAccounts -----------------------------
(***************************************************************************)
(* A small instance of Accounts for TLC.                                   *)
(***************************************************************************)
EXTENDS Accounts

TwoUsers == {"admin", "ann"}
TwoRoles == {"Platform_ADMIN", "Viewer"}
=============================================================================
