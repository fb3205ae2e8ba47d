---------------------------- MODULE MCBindStack -----------------------------
(* Small scenes for BindStack. *)
EXTENDS BindStack, TLC

CONSTANTS v1, v2, v3

Three == {v1, v2, v3}

Alike == Permutations(Three)
=============================================================================
