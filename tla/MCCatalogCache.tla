--------------------------- MODULE MCCatalogCache ---------------------------
EXTENDS CatalogCache, TLC

Symmetry == Permutations(Procs)
=============================================================================
