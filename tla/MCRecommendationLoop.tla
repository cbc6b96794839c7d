------------------------ MODULE MCRecommendationLoop ------------------------
(***************************************************************************)
(* Instances of RecommendationLoop for TLC: two events that matter and one *)
(* scroll, in two batches.                                                 *)
(***************************************************************************)
EXTENDS RecommendationLoop

CONSTANTS view, search, scroll

TwoEvents == {view, search}
ThreeEvents == {view, search, scroll}

ApartBatches == {{view}, {search, scroll}}
=============================================================================
