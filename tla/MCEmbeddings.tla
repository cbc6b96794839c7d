---------------------------- MODULE MCEmbeddings ----------------------------
(***************************************************************************)
(* Instance of Embeddings for TLC: two spellings of one query and another  *)
(* text, chunks of two, calls of no product up to five.                    *)
(***************************************************************************)
EXTENDS Embeddings

MCTexts == {"a", "A", "b"}
MCKey == [t \in MCTexts |-> IF t = "A" THEN "a" ELSE t]
MCDocuments ==
    {<<>>, <<"b">>, <<"a", "b">>, <<"a", "b", "b">>, <<"b", "a", "a", "b">>,
     <<"a", "b", "b", "a", "A">>}
=============================================================================
