---------------------------- MODULE MCLivePanel ----------------------------
(***************************************************************************)
(* Instance of LivePanel for TLC: two overlapping requests, two events, a  *)
(* recommendation that may be committed between any two reads.             *)
(***************************************************************************)
EXTENDS LivePanel
=============================================================================
