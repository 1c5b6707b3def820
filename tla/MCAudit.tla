------------------------------ MODULE MCAudit ------------------------------
(***************************************************************************)
(* Small instances of Audit for TLC.                                       *)
(***************************************************************************)
EXTENDS Audit

CONSTANTS h1, h2

TwoHandlers == {h1, h2}
=============================================================================
