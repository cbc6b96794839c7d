-------------------------- MODULE MCCatalogHistory --------------------------
(***************************************************************************)
(* Instances of CatalogHistory for TLC.  Products, drains and contents are *)
(* interchangeable; safety runs use their permutations as symmetry.        *)
(***************************************************************************)
EXTENDS CatalogHistory, TLC

Symmetry ==
    Permutations(Products) \cup Permutations(Contents)
        \cup Permutations(Drainers)
=============================================================================
