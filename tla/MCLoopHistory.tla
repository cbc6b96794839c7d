--------------------------- MODULE MCLoopHistory ---------------------------
(***************************************************************************)
(* The same instances, for LoopHistory.                                    *)
(***************************************************************************)
EXTENDS LoopHistory, MCRecommendationLoop
=============================================================================
