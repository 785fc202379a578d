----------------------------- MODULE MCDrafting -----------------------------
(* A small instance of Drafting for TLC. *)
EXTENDS DraftingProperties, TLC

CONSTANTS w1, w2

Symmetry == Permutations(Workers)
=============================================================================
