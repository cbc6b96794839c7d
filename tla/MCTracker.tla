----------------------------- MODULE MCTracker -----------------------------
(***************************************************************************)
(* Instance of Tracker for TLC: a buffer of three, so that it fills, is    *)
(* flushed by the timer and by leaving the page in one behaviour.          *)
(***************************************************************************)
EXTENDS Tracker
=============================================================================
