------------------------------- MODULE Tables -------------------------------
(***************************************************************************)
(* What the booking of tables promises, for a hospitality tenant: a table  *)
(* is promised in one step, while there is room for it.  Availability is   *)
(* counted, not stored: the covers of a (zone, shift, date) minus the      *)
(* parties promised.  Guests and the venue cancel, the venue approves the  *)
(* large parties and keeps the door; each is one transaction, which locks  *)
(* the reservation's row first.                                            *)
(*                                                                         *)
(* Reservations shows that the booking of the code, many statements of     *)
(* concurrent conversations, is such a step.  ReservationReminders builds  *)
(* the sending of reminders on it.  The host a reservation is assigned to, *)
(* the audit trail and the wording of messages are left out.               *)
(***************************************************************************)
EXTENDS Integers, FiniteSets

CONSTANTS
  Guests,             \* a guest: one contact, one lead, one conversation
  Slots,              \* (zone, shift, date)
  MaxParty,           \* bound: the largest party
  Requests,           \* bound: what guests ask for.  It is also the idempotency key of the
                      \* booking: the conversation and the answers (party, date and shift, zone)
  Capacity,           \* covers of a slot: the date's override or the usual ones
  DepositThreshold    \* clients.deposit_threshold_party_size

ASSUME TablesAssumption ==
  /\ IsFiniteSet(Guests) /\ IsFiniteSet(Slots)
  /\ Capacity \in [Slots -> Nat]
  /\ MaxParty \in Nat \ {0}
  /\ Requests \subseteq [guest : Guests, slot : Slots, party : 1 .. MaxParty]
  /\ DepositThreshold \in Nat

VARIABLES
  status,       \* reservations.status of the reservation with each key
  reminder,     \* status of its reminder job; the key of the job is the reservation
  stage,        \* leads.pipeline_stage
  when          \* how far the slot's start is

table_vars == <<status, reminder, stage, when>>

Statuses == {"none", "requested", "confirmed", "cancelled", "no_show", "seated", "completed"}

\* "pending" is also a job that waits for another attempt (retryable).
JobStatuses == {"none", "pending", "processing", "completed", "cancelled", "dead_lettered"}
Stages == {"in_progress", "site_visit_scheduled", "closed_lost", "closed_won"}
Phases == <<"ahead", "soon", "started", "over">>   \* more than 2 h, less, since the start, after the last seating

\* The statuses whose covers are taken, and those a guest or the venue can cancel.
Holding == {"requested", "confirmed", "seated"}
Active == {"requested", "confirmed"}

Upcoming(s) == when[s] \in {"ahead", "soon"}

\* The covers promised in a slot, one element for each.
Covers(s) ==
  {c \in Requests \X (1 .. MaxParty) :
     c[1].slot = s /\ status[c[1]] \in Holding /\ c[2] <= c[1].party}

Taken(s) == Cardinality(Covers(s))

InitTables ==
  /\ status = [r \in Requests |-> "none"]
  /\ reminder = [r \in Requests |-> "none"]
  /\ stage = [g \in Guests |-> "in_progress"]
  /\ when = [s \in Slots |-> "ahead"]

-----------------------------------------------------------------------------
(* The reminder job of a reservation, as booking and cancelling see it. *)

\* Mistake: the job takes the status of its reservation.
ScheduleRaw(r) == reminder' = [reminder EXCEPT ![r] = status'[r]]

\* schedule(): only for a confirmed table, and not less than two hours ahead.
Schedule(r) ==
  reminder' = [reminder EXCEPT ![r] = IF status'[r] = "confirmed" /\ when[r.slot] = "ahead"
                                         /\ @ = "none"
                                      THEN "pending" ELSE @]

\* cancelForAggregate(): a job a worker has is left alone.
Unschedule(r) ==
  reminder' = [reminder EXCEPT ![r] = IF @ = "pending" THEN "cancelled" ELSE @]

-----------------------------------------------------------------------------
(* Booking. *)

\* A new reservation is held for the venue when the party is large.
NewStatus(r) == IF r.party >= DepositThreshold THEN "requested" ELSE "confirmed"

StageOf(s) == IF s = "confirmed" THEN "site_visit_scheduled" ELSE "in_progress"

\* The reservation, its reminder and the lead's stage are committed together.
Promise(r) ==
  /\ status' = [status EXCEPT ![r] = NewStatus(r)]
  /\ Schedule(r)
  /\ stage' = [stage EXCEPT ![r.guest] = StageOf(NewStatus(r))]
  /\ UNCHANGED when

BookTable(r) ==
  /\ status[r] = "none"
  /\ Taken(r.slot) + r.party <= Capacity[r.slot]
  /\ Promise(r)

\* A booking that was made already.  The stage is that of the reservation as it was
\* when the turn found it.
RepeatBooking(r) ==
  /\ status[r] # "none"
  /\ \E s \in {"in_progress", "site_visit_scheduled"} : stage' = [stage EXCEPT ![r.guest] = s]
  /\ UNCHANGED <<status, reminder, when>>

-----------------------------------------------------------------------------
(* Cancelling, approving and the door. *)

\* pipeline_stage says closed_lost when the guest is left without a table.
StageAfterCancel(r) ==
  stage' = [stage EXCEPT ![r.guest] =
              IF \E q \in Requests : q.guest = r.guest /\ q # r
                                     /\ status[q] \in Active /\ Upcoming(q.slot)
              THEN @ ELSE "closed_lost"]

\* The guest writes "cancelar", for the next table, or presses the button of a
\* reminder, for the table it was about.
GuestCancels(r) ==
  /\ status[r] \in Active
  /\ Upcoming(r.slot)
  /\ status' = [status EXCEPT ![r] = "cancelled"]
  /\ Unschedule(r)
  /\ StageAfterCancel(r)
  /\ UNCHANGED when

\* Mistake: the reminder of a table the venue cancelled stays.
VenueCancelsOnly(r) ==
  /\ status[r] \in Active
  /\ status' = [status EXCEPT ![r] = "cancelled"]
  /\ StageAfterCancel(r)
  /\ UNCHANGED <<reminder, when>>

\* The venue declines a held reservation or cancels a confirmed one.
VenueCancels(r) ==
  /\ status[r] \in Active
  /\ status' = [status EXCEPT ![r] = "cancelled"]
  /\ Unschedule(r)
  /\ StageAfterCancel(r)
  /\ UNCHANGED when

\* The venue approves a held reservation.
Confirm(r) ==
  /\ status[r] = "requested"
  /\ status' = [status EXCEPT ![r] = "confirmed"]
  /\ Schedule(r)
  /\ stage' = [stage EXCEPT ![r.guest] = StageOf("confirmed")]
  /\ UNCHANGED when

\* The party arrived, left, or never came.
Door(r) ==
  /\ \E s \in {"seated", "completed", "no_show"} :
       /\ status[r] \in IF s = "completed" THEN {"seated", "confirmed"} ELSE {"confirmed"}
       /\ status' = [status EXCEPT ![r] = s]
       /\ stage' = [stage EXCEPT ![r.guest] = IF s = "no_show" THEN @ ELSE "closed_won"]
  /\ Unschedule(r)
  /\ UNCHANGED when

\* The slot's start comes closer, and passes.
TimePasses(s) ==
  /\ \E i \in 1 .. 3 : when[s] = Phases[i] /\ when' = [when EXCEPT ![s] = Phases[i + 1]]
  /\ UNCHANGED <<status, reminder, stage>>

TablesNext ==
  \/ \E r \in Requests :
       \/ BookTable(r)
       \/ RepeatBooking(r)
       \/ GuestCancels(r)
       \/ VenueCancels(r)
       \/ Confirm(r)
       \/ Door(r)
  \/ \E s \in Slots : TimePasses(s)

TablesSpec == InitTables /\ [][TablesNext]_table_vars

-----------------------------------------------------------------------------
(* Properties. *)

TablesTypeOK ==
  /\ status \in [Requests -> Statuses]
  /\ reminder \in [Requests -> JobStatuses]
  /\ stage \in [Guests -> Stages]
  /\ when \in [Slots -> {"ahead", "soon", "started", "over"}]

\* No more covers are promised than the slot has.
NeverOversold == \A s \in Slots : Taken(s) <= Capacity[s]

\* A reminder waits for a table exactly while the table is confirmed, whichever of
\* booking, approval, cancellation and door touched it last.
RemindersFollowTables ==
  \A r \in Requests :
    /\ reminder[r] = "pending" => status[r] = "confirmed"
    /\ when[r.slot] = "ahead" /\ status[r] = "confirmed" => reminder[r] # "none"
=============================================================================
