-------------------------- MODULE MCPersistentGate --------------------------
(* The packaged image: no note, the status of the overlay.                 *)
EXTENDS PersistentGate

PackagedImage ==
  [f \in File |-> IF f = Status THEN "PENDING" ELSE "absent"]
=============================================================================
