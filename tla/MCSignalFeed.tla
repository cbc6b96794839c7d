--------------------------- MODULE MCSignalFeed ---------------------------
(***************************************************************************)
(* Instance of SignalFeed for TLC: every list of up to four events over    *)
(* three times: views of both kinds, clicks, scrolls, missing details.     *)
(***************************************************************************)
EXTENDS SignalFeed

MCTypes == {"page_view", "product_view", "click", "scroll"}
=============================================================================
