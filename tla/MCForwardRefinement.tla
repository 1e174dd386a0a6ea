------------------------- MODULE MCForwardRefinement -------------------------
(* Instances of ForwardRefinement for TLC.                                   *)
EXTENDS ForwardRefinement, MCForwardService
=============================================================================
