-------------------------- MODULE MCCatalogService --------------------------
(* Instances of CatalogService for TLC. *)
EXTENDS CatalogService, TLC

Swap == Permutations(Threads)
=============================================================================
