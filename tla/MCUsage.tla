------------------------------- MODULE MCUsage -------------------------------
(***************************************************************************)
(* A small instance of Usage: two slots, one key, days of two ticks, so    *)
(* that a cutoff can fall within a day.                                    *)
(***************************************************************************)
EXTENDS Usage, TLC

CONSTANTS k1, s1, s2

SlotSymmetry == Permutations(Slots)
=============================================================================
