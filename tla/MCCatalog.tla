------------------------------ MODULE MCCatalog ------------------------------
(* Catalog on small sets, with the symmetry of its editors and regions.     *)
EXTENDS Catalog, TLC

Symmetry == Permutations(Editors) \union Permutations(Regions)
=============================================================================
