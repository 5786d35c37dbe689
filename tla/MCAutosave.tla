----------------------------- MODULE MCAutosave -----------------------------
(***************************************************************************)
(* Instances of Autosave for TLC.                                          *)
(***************************************************************************)
EXTENDS Autosave, TLC

CONSTANTS u1, u2, f1, f2, f3, f4, fileA, fileB

Symmetry == Permutations({u1, u2}) \cup Permutations({f1, f2, f3, f4})
=============================================================================
