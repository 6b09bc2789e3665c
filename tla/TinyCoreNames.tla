---------------------------- MODULE TinyCoreNames ----------------------------
(* What the host and the guest half of the Tiny Core chain have in common. *)
CONSTANTS
  Ext,        \* extension names, normalised
  LowerCase   \* names, and names of files, to names: in small letters
=============================================================================
