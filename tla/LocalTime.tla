------------------------------ MODULE LocalTime ------------------------------
(***************************************************************************)
(* Instants and what a clock on the client's wall shows.  The offset of the *)
(* time zone is that of the instant, so the conversion back is a search:    *)
(* reports and appointment slots are placed with it.                        *)
(*                                                                          *)
(* An instant is a number of hours, a reading is date * Day + hour.         *)
(***************************************************************************)
EXTENDS Integers, Sequences
LOCAL INSTANCE SequencesExt
LOCAL INSTANCE FiniteSetsExt

CONSTANTS
  Day,              \* hours of a day
  Offset(_),        \* what the wall shows at an instant, minus the instant
  Lookahead,        \* MAX_LOOKAHEAD_DAYS
  OfferDays,        \* OFFER_DAYS: days that are offered
  MaxSlots,         \* MAX_SLOTS: rows of the list that is sent
  Blackout(_)       \* isBlackout: the days the client is closed

ASSUME LocalTimeAssumption ==
  /\ Day \in Nat \ {0} /\ Lookahead \in Nat
  /\ OfferDays \in Nat /\ MaxSlots \in Nat

\* zonedParts, and the parts as if they were those of an instant.
Local(t) == t + Offset(t)
LocalDate(t) == Local(t) \div Day
LocalHour(t) == Local(t) % Day

Reading(date, hour) == date * Day + hour

\* Mistake: the offset of the reading's own number is taken for that of the instant.
InstantAtOnce(reading) == reading - Offset(reading)

\* zonedDateTimeToUtcIso: five corrections by what the wall shows.
Instant(reading) ==
  LET candidate[n \in 0 .. 5] ==
        IF n = 0 THEN reading ELSE candidate[n - 1] + (reading - Local(candidate[n - 1]))
  IN candidate[5]

\* nextDailyOccurrence: the day after, at the time of day that this one was due.
NextOccurrence(date, due) == Instant(Reading(date + 1, LocalHour(due)))

-----------------------------------------------------------------------------
(* Slots for a visit. *)

\* The next days that are not blacked out.
OfferedDays(now) ==
  LET open == SelectSeq([i \in 1 .. Lookahead |-> LocalDate(now) + i], LAMBDA d : ~Blackout(d))
  IN SubSeq(open, 1, Min({OfferDays, Len(open)}))

\* parseAppointmentHours: in order, each once.
AppointmentHours(hours) == SetToSortSeq(hours, <)

\* generateAppointmentSlots: an instant for each day and hour but those excluded, as
\* many as the list holds.
GenerateAppointmentSlots(now, hours, excluded) ==
  LET days == OfferedDays(now)
      times == AppointmentHours(hours)
      slotsOf(d) == SelectSeq([i \in 1 .. Len(times) |-> Instant(Reading(d, times[i]))],
                              LAMBDA t : t \notin excluded)
      slots == FlattenSeq([i \in 1 .. Len(days) |-> slotsOf(days[i])])
  IN SubSeq(slots, 1, Min({MaxSlots, Len(slots)}))
=============================================================================
