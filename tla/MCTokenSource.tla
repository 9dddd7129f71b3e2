--------------------------- MODULE MCTokenSource ---------------------------
(***************************************************************************)
(* TokenSource for TLC: requests are interchangeable (nothing in the       *)
(* specification or its properties tells one from another), so the safety  *)
(* runs explore one representative of each orbit.                          *)
(***************************************************************************)
EXTENDS TokenSource, TLC

Symmetry == Permutations(Requests)
=============================================================================
