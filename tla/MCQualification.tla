--------------------------- MODULE MCQualification ---------------------------
(* Small instances of Qualification for TLC. *)
EXTENDS Qualification, TLC

CONSTANTS l1, l2, n1, p1, p2, p3, o1, o2

\* Two leads, that is two forms, of one number.
OneNumber == [l \in {l1, l2} |-> n1]

ThreeRanked == <<p1, p2, p3>>
OnePerHead == [p \in {p1, p2, p3} |-> 1]
SecondFits == [x \in {l1, l2} \X {p1, p2, p3} |-> IF x[2] = p2 THEN 8 ELSE 5]

\* One request wants the second and the first, the other somebody who is hired meanwhile.
OldOrNew == o1 :> <<p2, p1>> @@ o2 :> <<p3>>

\* The client has questions of its own; the default ones have a payment plan, where cash
\* scores twice as much as installments (paymentPlanPoints) and passes over the down payment.
OneSheet ==
  {[client |-> <<"permission", "plan", "timeline">>, default |-> <<"plan", "down", "timeline">>]}
PlanPoints == [q \in {"permission", "plan", "down", "timeline"} |->
  CASE q = "permission" -> {0} [] q = "plan" -> {6, 12} [] q = "down" -> {8} [] q = "timeline" -> {20}]
=============================================================================
