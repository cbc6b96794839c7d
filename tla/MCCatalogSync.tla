--------------------------- MODULE MCCatalogSync ---------------------------
(***************************************************************************)
(* Instances of CatalogSync for TLC.  Its runs look for liveness and for a *)
(* violation: they declare no symmetry.                                    *)
(***************************************************************************)
EXTENDS CatalogSync
=============================================================================
