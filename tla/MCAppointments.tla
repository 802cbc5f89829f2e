--------------------------- MODULE MCAppointments ---------------------------
(* Small instances of Appointments for TLC: the first day is closed. *)
EXTENDS Appointments

FirstClosed == {1}
=============================================================================
