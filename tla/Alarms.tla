------------------------------- MODULE Alarms -------------------------------
(***************************************************************************)
(* What timers about leads promise: an alarm is armed once, rings at most   *)
(* once, and never at a moment when its cause has gone.                     *)
(***************************************************************************)
CONSTANTS
  Leads,
  Kinds         \* the alarms a lead may have

VARIABLES
  alarm,        \* by lead and kind: "none", "scheduled", "sent" or "cancelled"
  needless      \* by lead and kind: ringing now would be wrong

alarm_vars == <<alarm, needless>>

\* What may become of an alarm that does not ring.
Silent(old, new) ==
  \/ new = old
  \/ old = "none" /\ new = "scheduled"
  \/ old = "scheduled" /\ new = "cancelled"

AlarmsInit ==
  /\ alarm = [l \in Leads |-> [k \in Kinds |-> "none"]]
  /\ needless \in [Leads -> [Kinds -> BOOLEAN]]

\* One alarm rings, for a cause, and nothing else happens in that step.
Ring(l, k) ==
  /\ alarm[l][k] = "scheduled"
  /\ ~needless[l][k]
  /\ alarm' = [alarm EXCEPT ![l][k] = "sent"]
  /\ UNCHANGED needless

\* Causes come and go; alarms are armed and disarmed.
Tend ==
  /\ \A l \in Leads, k \in Kinds : Silent(alarm[l][k], alarm'[l][k])
  /\ needless' \in [Leads -> [Kinds -> BOOLEAN]]
  /\ alarm' \in [Leads -> [Kinds -> {"none", "scheduled", "sent", "cancelled"}]]

AlarmsNext == Tend \/ \E l \in Leads, k \in Kinds : Ring(l, k)

AlarmsSpec == AlarmsInit /\ [][AlarmsNext]_alarm_vars
=============================================================================
