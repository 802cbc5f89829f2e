----------------------- MODULE MCReservationReminders -----------------------
(* Small instances of ReservationReminders for TLC. *)
EXTENDS ReservationReminders, TLC

CONSTANTS g1, s1, w1, w2

TwoCovers == s1 :> 2

\* One table, which waits for the venue's approval.
OneTable == {[guest |-> g1, slot |-> s1, party |-> 2]}
=============================================================================
