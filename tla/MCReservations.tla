--------------------------- MODULE MCReservations ---------------------------
(* Small instances of Reservations for TLC. *)
EXTENDS Reservations, TLC

CONSTANTS g1, g2, s1

ThreeCovers == s1 :> 3

\* One guest asks for one or two covers, the other for two: a small one and a large
\* one fit together.  The large ones wait for the venue.
TwoGuests == {[guest |-> g1, slot |-> s1, party |-> 1],
              [guest |-> g1, slot |-> s1, party |-> 2],
              [guest |-> g2, slot |-> s1, party |-> 2]}
=============================================================================
