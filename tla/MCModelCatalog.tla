--------------------------- MODULE MCModelCatalog ---------------------------
(***************************************************************************)
(* A small instance of ModelCatalog: the scheduler's round and a manual    *)
(* one overlap while an attempt reads the catalog.                         *)
(***************************************************************************)
EXTENDS ModelCatalog
=============================================================================
