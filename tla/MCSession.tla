----------------------------- MODULE MCSession -----------------------------
(***************************************************************************)
(* A small instance of Session for TLC.                                    *)
(***************************************************************************)
EXTENDS Session

CONSTANTS u1, u2

OneUser  == {u1}
TwoUsers == {u1, u2}
=============================================================================
