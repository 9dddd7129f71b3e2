----------------------------- MODULE MCMessages -----------------------------
(***************************************************************************)
(* The handler for TLC.  Requests and models are interchangeable, so the   *)
(* safety run explores one representative of each orbit.                   *)
(***************************************************************************)
EXTENDS Messages, TLC

Symmetry == Permutations(Requests) \cup Permutations(Models)
=============================================================================
