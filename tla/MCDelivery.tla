----------------------------- MODULE MCDelivery -----------------------------
(* Small instances of Delivery for TLC: all visits are at the same hour. *)
EXTENDS Delivery

CONSTANTS t1, v1, w1, w2

OneHour(c, d) == TRUE
=============================================================================
