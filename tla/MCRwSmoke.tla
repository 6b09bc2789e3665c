------------------------------ MODULE MCRwSmoke ------------------------------
(* The packaged image: no markers, the status of the overlay.              *)
EXTENDS RwSmoke

PackagedImage ==
  [f \in File |-> IF f = Status THEN "PENDING" ELSE "absent"]
=============================================================================
