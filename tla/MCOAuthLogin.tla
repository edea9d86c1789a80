---------------------------- MODULE MCOAuthLogin ----------------------------
(***************************************************************************)
(* A small instance of OAuthLogin: two logins that share a port and a      *)
(* name, and a manual one for another name.                                *)
(***************************************************************************)
EXTENDS OAuthLogin

CONSTANTS f1, f2, f3, n1, n2

MCName == [f \in Flows |-> IF f = f3 THEN n2 ELSE n1]
MCPort == [f \in Flows |-> IF f = f3 THEN 2 ELSE 1]
=============================================================================
