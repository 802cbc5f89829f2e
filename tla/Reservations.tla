---------------------------- MODULE Reservations ----------------------------
(***************************************************************************)
(* Booking as the code does it.  Guests book at the end of a WhatsApp       *)
(* conversation, in the transaction of the turn, which has four steps: the  *)
(* checks it makes before it asks for the lock of the slot, the lock, the   *)
(* reads, and the commit, which publishes the reservation, its reminder job *)
(* and the lead's stage.  Turns of one guest take turns; those of different *)
(* guests and the transactions of the dashboard interleave.                 *)
(*                                                                          *)
(* It implements Tables, whose steps for the dashboard are used as they are.*)
(***************************************************************************)
EXTENDS Tables

CONSTANTS
  Nobody,       \* holds no lock
  Nothing       \* what a guest without a turn asks for

ASSUME TurnsAssumption == Nobody \notin Guests

VARIABLES
  lock,         \* the advisory lock of each slot
  pc,           \* where the guest's booking turn is
  want,         \* what the turn asks for
  seen,         \* the status the replay query returned
  room          \* whether the party fits the covers that were left

turn_vars == <<lock, pc, want, seen, room>>
reservation_vars == <<table_vars, turn_vars>>

Init ==
  /\ InitTables
  /\ lock = [s \in Slots |-> Nobody]
  /\ pc = [g \in Guests |-> "idle"]
  /\ want = [g \in Guests |-> Nothing]
  /\ seen = [g \in Guests |-> "none"]
  /\ room = [g \in Guests |-> FALSE]

\* The conversation is complete and the venue is open then.
Ask(g) ==
  /\ pc[g] = "idle"
  /\ \E r \in Requests :
       /\ r.guest = g
       /\ when[r.slot] # "over"
       /\ want' = [want EXCEPT ![g] = r]
  /\ pc' = [pc EXCEPT ![g] = "asked"]
  /\ UNCHANGED <<table_vars, lock, seen, room>>

\* Mistake: the lock is the conversation's, not the slot's.
LockConversation(g) ==
  /\ pc[g] = "asked"
  /\ pc' = [pc EXCEPT ![g] = "locked"]
  /\ UNCHANGED <<table_vars, lock, want, seen, room>>

\* pg_advisory_xact_lock on the slot.
Lock(g) ==
  /\ pc[g] = "asked"
  /\ lock[want[g].slot] = Nobody
  /\ lock' = [lock EXCEPT ![want[g].slot] = g]
  /\ pc' = [pc EXCEPT ![g] = "locked"]
  /\ UNCHANGED <<table_vars, want, seen, room>>

\* Is this booking made already, and is there room for it?
Look(g) ==
  /\ pc[g] = "locked"
  /\ seen' = [seen EXCEPT ![g] = status[want[g]]]
  /\ room' = [room EXCEPT ![g] = want[g].party <= Capacity[want[g].slot] - Taken(want[g].slot)]
  /\ pc' = [pc EXCEPT ![g] = "looked"]
  /\ UNCHANGED <<table_vars, lock, want>>

\* The transaction ends, and the lock with it.
EndTurn(g) ==
  /\ lock' = [s \in Slots |-> IF lock[s] = g THEN Nobody ELSE lock[s]]
  /\ pc' = [pc EXCEPT ![g] = "idle"]
  /\ want' = [want EXCEPT ![g] = Nothing]
  /\ seen' = [seen EXCEPT ![g] = "none"]
  /\ room' = [room EXCEPT ![g] = FALSE]

\* What the turn tells the guest.  A key that is known is answered with the
\* reservation it made before: held by the venue, or else confirmed.
Answer(g) ==
  CASE seen[g] = "requested" -> "requested"
    [] seen[g] \notin {"none", "requested"} -> "confirmed"
    [] seen[g] = "none" /\ room[g] -> NewStatus(want[g])
    [] OTHER -> "unavailable"

\* Mistake: a booking that is known is made again.
ReplayAfresh(g) ==
  /\ pc[g] = "looked"
  /\ seen[g] # "none"
  /\ Promise(want[g])
  /\ EndTurn(g)

\* The booking is made already.
Replay(g) ==
  /\ pc[g] = "looked"
  /\ seen[g] # "none"
  /\ stage' = [stage EXCEPT ![g] = StageOf(Answer(g))]
  /\ EndTurn(g)
  /\ UNCHANGED <<status, reminder, when>>

\* There is no table: the guest is asked for another day or area.
Refuse(g) ==
  /\ pc[g] = "looked"
  /\ Answer(g) = "unavailable"
  /\ EndTurn(g)
  /\ UNCHANGED table_vars

\* The table is promised.
Book(g) ==
  /\ pc[g] = "looked"
  /\ seen[g] = "none"
  /\ room[g]
  /\ Promise(want[g])
  /\ EndTurn(g)

\* The turn's transaction rolls back; the inbox event is retried.
FailTurn(g) ==
  /\ pc[g] # "idle"
  /\ EndTurn(g)
  /\ UNCHANGED table_vars

Next ==
  \/ \E g \in Guests :
       \/ Ask(g)
       \/ Lock(g)
       \/ Look(g)
       \/ Replay(g)
       \/ Refuse(g)
       \/ Book(g)
       \/ FailTurn(g)
  \/ \E r \in Requests :
       \/ pc[r.guest] = "idle" /\ GuestCancels(r) /\ UNCHANGED turn_vars
       \/ VenueCancels(r) /\ UNCHANGED turn_vars
       \/ Confirm(r) /\ UNCHANGED turn_vars
       \/ Door(r) /\ UNCHANGED turn_vars
  \/ \E s \in Slots : TimePasses(s) /\ UNCHANGED turn_vars

Spec == Init /\ [][Next]_reservation_vars

-----------------------------------------------------------------------------
(* Properties. *)

TypeOK ==
  /\ TablesTypeOK
  /\ lock \in [Slots -> Guests \cup {Nobody}]
  /\ pc \in [Guests -> {"idle", "asked", "locked", "looked"}]
  /\ want \in [Guests -> Requests \cup {Nothing}]
  /\ seen \in [Guests -> Statuses]
  /\ room \in [Guests -> BOOLEAN]

\* However turns interleave with each other and with the venue, each commit is a
\* step of Tables: a table is promised when there is room for it at that moment,
\* whatever happened since the turn counted (kadensio-floor-plan.ts:16-82).
ImplementsTables == TablesSpec

\* edge-inbound-message-processor.ts:489-491 says the booking is made on the turn's
\* transaction "so the guest is told what really happened (booked, waiting for the
\* venue, no table)": a guest is not told of a table that has been cancelled.
ToldWhatHappened ==
  \A g \in Guests :
    pc[g] = "looked" /\ Answer(g) = "confirmed" => seen[g] \notin {"cancelled", "no_show"}
=============================================================================
