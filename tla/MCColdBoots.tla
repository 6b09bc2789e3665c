----------------------------- MODULE MCColdBoots -----------------------------
(* The bounds are plain numbers, given in the configurations.              *)
EXTENDS ColdBoots
=============================================================================
