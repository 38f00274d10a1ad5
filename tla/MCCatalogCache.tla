--------------------------- MODULE MCCatalogCache ---------------------------
(***************************************************************************)
(* Small instances of CatalogCache.  The catalog is empty before the first *)
(* write, as it is in a new deployment.                                    *)
(***************************************************************************)
EXTENDS CatalogCache, TLC

MCEmptyVersions == {0}

CacheSymmetry ==
    Permutations(Processes) \cup Permutations(Readers)
      \cup Permutations(Writers) \cup Permutations(Pages)

=============================================================================
