------------------------- MODULE MCForwardDelivery -------------------------
(* Instances of ForwardDelivery for TLC.                                     *)
EXTENDS ForwardDelivery, MCForwardService
=============================================================================
