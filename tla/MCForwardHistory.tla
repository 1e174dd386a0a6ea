-------------------------- MODULE MCForwardHistory --------------------------
(* Instances of ForwardHistory for TLC.                                      *)
EXTENDS ForwardHistory, MCForwardService
=============================================================================
