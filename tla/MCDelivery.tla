----------------------------- MODULE MCDelivery -----------------------------
(***************************************************************************)
(* A small instance of Delivery for TLC.  It checks liveness too, so it    *)
(* declares no symmetry.                                                   *)
(***************************************************************************)
EXTENDS Delivery

CONSTANTS m1, m2, h1, h2, c1
=============================================================================
