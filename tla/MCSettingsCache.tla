--------------------------- MODULE MCSettingsCache ---------------------------
(***************************************************************************)
(* A small instance of SettingsCache: two workers, one of them with two    *)
(* requests at a time.                                                     *)
(***************************************************************************)
EXTENDS SettingsCache

CONSTANTS r1, r2, r3, w1, w2

TwoWorkers == [r \in Requests |-> IF r = r3 THEN w2 ELSE w1]
=============================================================================
