--------------------------- MODULE MCForwardClaims ---------------------------
(* Instances of ForwardClaims for TLC.                                       *)
EXTENDS ForwardClaims, MCForwardService
=============================================================================
