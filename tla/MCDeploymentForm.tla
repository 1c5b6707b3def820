-------------------------- MODULE MCDeploymentForm --------------------------
(***************************************************************************)
(* Small instances of DeploymentForm for TLC.                              *)
(***************************************************************************)
EXTENDS DeploymentForm

CONSTANT ldap

Realm == {ldap}
=============================================================================
