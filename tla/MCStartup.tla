----------------------------- MODULE MCStartup ------------------------------
(***************************************************************************)
(* Instances of Startup for TLC: a gint of four bits, six descriptors, and *)
(* options at the edges of their ranges.                                   *)
(***************************************************************************)
EXTENDS Startup

EdgePipes == {-1, 0, 3, 5}
EdgeLimits == {-1, 0, 1, MaxInt}
=============================================================================
