--------------------------- MODULE MCDigestQueue ---------------------------
(***************************************************************************)
(* Instances of DigestQueue for TLC.  Users are interchangeable, and so    *)
(* are overlapping invocations of the worker.                              *)
(***************************************************************************)
EXTENDS DigestQueue, TLC

Symmetry == Permutations(Users) \cup Permutations(Workers)
=============================================================================
