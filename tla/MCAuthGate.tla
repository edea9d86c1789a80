------------------------------ MODULE MCAuthGate ------------------------------
(***************************************************************************)
(* A small instance of AuthGate: two requests at a time, one of them from  *)
(* loopback.                                                               *)
(***************************************************************************)
EXTENDS AuthGate

CONSTANTS r1, r2
=============================================================================
