----------------------------- MODULE MCReaction -----------------------------
(***************************************************************************)
(* The instance of ReactionRunner that TLC checks: a pool of atoms of each *)
(* kind, of which main starts total_atoms in every possible proportion.    *)
(***************************************************************************)
EXTENDS ReactionRunner

CONSTANTS h1, h2, h3, h4, h5, o1, o2, o3
=============================================================================
