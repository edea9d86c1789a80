------------------------------ MODULE MCSticky ------------------------------
(***************************************************************************)
(* A small instance of Sticky: more conversations than the map can hold,   *)
(* each with a favourite of its own, and one account without a weight.     *)
(***************************************************************************)
EXTENDS Sticky

CONSTANTS c1, c2, c3, a1, a2, a3

Scores ==
    [c \in Convs |-> [a \in Accounts |->
        IF a = a3 THEN 0
        ELSE IF (c = c1) = (a = a1) THEN 3 ELSE 2]]

RequestSymmetry == Permutations(Requests)
=============================================================================
