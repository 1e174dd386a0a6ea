----------------------------- MODULE MCFEClient -----------------------------
(* An instance of FEClient for TLC.                                          *)
EXTENDS FEClient

CONSTANTS c1, c2
=============================================================================
