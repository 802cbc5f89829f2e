------------------------------ MODULE MCReports ------------------------------
(* Small instances of Reports for TLC: days of three hours. *)
EXTENDS Reports

\* The client is an hour ahead, and a second one from instant 11 on: the hour it skips is
\* the first of the fourth day.
Zone(t) == IF t < 11 THEN 1 ELSE 2

ClosedOnFridays(d) == d % 3 = 2
=============================================================================
