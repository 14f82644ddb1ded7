------------------------------ MODULE MCClient ------------------------------
(***************************************************************************)
(* Instances of Client for TLC.                                            *)
(***************************************************************************)
EXTENDS Client, TLC

\* Calls are interchangeable.
Symmetry == Permutations(Call)
=============================================================================
