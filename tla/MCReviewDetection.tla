--------------------------- MODULE MCReviewDetection ---------------------------
(* Values for model checking ReviewDetection. *)
EXTENDS ReviewDetection

CONSTANTS i1, i2, p1, r1, r2
=============================================================================
