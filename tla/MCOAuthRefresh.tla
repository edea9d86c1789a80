--------------------------- MODULE MCOAuthRefresh ---------------------------
(***************************************************************************)
(* A small instance of OAuthRefresh: two callers, and a breaker that opens *)
(* after two failures.                                                     *)
(***************************************************************************)
EXTENDS OAuthRefresh

CONSTANTS c1, c2
=============================================================================
