--------------------------- MODULE MCRwSafetyGate ---------------------------
(* The gate around the packaged image.                                     *)
EXTENDS RwSafetyGate, MCRwSmoke
=============================================================================
