----------------------------- MODULE MCEvidence -----------------------------
(***************************************************************************)
(* Three documents, so that a duplicate can itself be an original, and one *)
(* row of every other table.  Nothing tells documents apart: symmetry.     *)
(***************************************************************************)
EXTENDS Evidence, TLC

DocumentSymmetry == Permutations(Documents)
=============================================================================
