---------------------------- MODULE MCAgentGraph ----------------------------
(***************************************************************************)
(* Instances of AgentGraph for TLC.  Products are interchangeable.         *)
(***************************************************************************)
EXTENDS AgentGraph, TLC

Symmetry == Permutations(Products)
=============================================================================
