---------------------------- MODULE Appointments ----------------------------
(***************************************************************************)
(* A qualified lead is offered days for a visit and taps one.               *)
(*                                                                          *)
(* The turn that handles the tap holds the conversation's row.  The choice  *)
(* itself, AppointmentService.bookSlot, runs in a transaction of its own on *)
(* a second connection, so it stays when the turn is rolled back and tried  *)
(* again, possibly after other messages of the lead.  Operators and         *)
(* salespeople lock the lead's row and then write the conversation's.       *)
(*                                                                          *)
(* Offers are found again by what they offer: the key of an offer is the    *)
(* set of its starts.  There is one start on each day that is open.  The    *)
(* module follows one lead; leads share no slot.                            *)
(***************************************************************************)
EXTENDS Integers, FiniteSets

CONSTANTS
  Messages,         \* messages that the lead may write, by number
  Nothing,
  Days,             \* the calendar looked at
  Blackout,         \* clients.appointment_blackout_days
  OfferDays,        \* OFFER_DAYS
  Requests,         \* the requests looked at
  MaxDay,           \* bound: the last day on which anybody writes
  MaxRequests,      \* bound: requests of operators and salespeople
  MaxFaults         \* bound: turns that fail

\* Requests that lock the lead and then write the conversation, and one that does not.
ConversationRequests == {"takeover", "release", "stop", "lost"}

ASSUME AppointmentsAssumption ==
  /\ Days \subseteq Nat /\ Blackout \subseteq Days /\ OfferDays \in Nat \ {0}
  /\ Messages \subseteq Nat /\ Nothing \notin Messages
  /\ Requests \subseteq ConversationRequests \cup {"acknowledge"}
  /\ MaxDay \in Nat /\ MaxRequests \in Nat /\ MaxFaults \in Nat

VARIABLES
  day,
  offer,            \* appointment_offers.status by what is offered; "none" before it exists
  made,             \* the day the offer was made
  visits,           \* appointments
  stage, retry,     \* edge_conversations.current_stage, retry_count
  hasVisit,         \* edge_conversations.appointment_status = 'booked'
  stopped,          \* stop_follow_up, or a status that ends the conversation
  shown,            \* the lists that were sent to the lead
  said,             \* what a message says: a choice, or words; Nought before it arrives
  reply,            \* what was answered when its turn committed; "none" until then
  turn, at,         \* the message of the turn in progress, and where the turn is
  outcome,          \* what bookSlot returned to it
  request,          \* the request that holds the lead's row
  requests, faults

offer_vars == <<offer, made, visits>>
conversation_vars == <<stage, retry, hasVisit, stopped>>
turn_vars == <<turn, at, outcome>>
message_vars == <<shown, said, reply>>
bounds == <<requests, faults>>
appointment_vars == <<day, offer_vars, conversation_vars, message_vars, turn_vars, request, bounds>>

Offers == (SUBSET Days) \ {{}}
Choices == {c \in [kind : {"choice"}, offer : Offers, start : Days] : c.start \in c.offer}
Words == [kind |-> "words"]
Nought == [kind |-> "nought"]

AppointmentsTypeOK ==
  /\ day \in 0 .. MaxDay
  /\ offer \in [Offers -> {"none", "offered", "booked", "expired", "cancelled"}]
  /\ made \in [Offers -> 0 .. MaxDay]
  /\ visits \subseteq [offer : Offers, start : Days, source : Messages]
  /\ stage \in {"asking", "slot", "booked", "qualified", "takeover", "lost"}
  /\ retry \in 0 .. 1 /\ hasVisit \in BOOLEAN /\ stopped \in BOOLEAN
  /\ shown \subseteq Offers
  /\ said \in [Messages -> Choices \cup {Words, Nought}]
  /\ reply \in [Messages -> {"none", "silence", "list", "taken", "booked", "reprompt", "closing"}]
  /\ turn \in Messages \cup {Nothing}
  /\ at \in {"idle", "begun", "asked"}
  /\ outcome \in {"none", "booked", "refused"}
  /\ request \in Requests \cup {"none"}
  /\ requests \in 0 .. MaxRequests /\ faults \in 0 .. MaxFaults

Init ==
  /\ day = 0
  /\ offer = [o \in Offers |-> "none"] /\ made = [o \in Offers |-> 0] /\ visits = {}
  /\ stage = "asking" /\ retry = 0 /\ hasVisit = FALSE /\ stopped = FALSE
  /\ shown = {}
  /\ said = [m \in Messages |-> Nought] /\ reply = [m \in Messages |-> "none"]
  /\ turn = Nothing /\ at = "idle" /\ outcome = "none"
  /\ request = "none" /\ requests = 0 /\ faults = 0

-----------------------------------------------------------------------------
(* The lead, the calendar, and the offices. *)

NextDay ==
  /\ day < MaxDay
  /\ day' = day + 1
  /\ UNCHANGED <<offer_vars, conversation_vars, message_vars, turn_vars, request, bounds>>

\* A message arrives: words, or a tap on any list that the lead ever got.
Write(m) ==
  /\ said[m] = Nought /\ \A n \in Messages : n < m => said[n] # Nought
  /\ \E s \in {Words} \cup {c \in Choices : c.offer \in shown} : said' = [said EXCEPT ![m] = s]
  /\ UNCHANGED <<day, offer_vars, conversation_vars, shown, reply, turn_vars, request, bounds>>

\* A request locks the lead's row.
Request(r) ==
  /\ request = "none" /\ requests < MaxRequests
  /\ request' = r
  /\ requests' = requests + 1
  /\ UNCHANGED <<day, offer_vars, conversation_vars, message_vars, turn_vars, faults>>

\* What it writes to the conversation.
Answered(r) ==
  /\ stage' = CASE r = "takeover" -> "takeover"
                [] r = "release" /\ stage = "takeover" -> "asking"
                [] r = "lost" -> "lost"
                [] OTHER -> stage
  /\ stopped' = (stopped \/ r \in {"stop", "lost"})
  /\ UNCHANGED <<retry, hasVisit>>

\* It writes the conversation's row when no turn holds it, and commits.
Commit ==
  /\ request # "none"
  /\ request \in ConversationRequests => at = "idle"
  /\ Answered(request)
  /\ request' = "none"
  /\ UNCHANGED <<day, offer_vars, message_vars, turn_vars, bounds>>

\* cancelOffer: an offer that nobody has booked is withdrawn.
CancelOffer(o) ==
  /\ offer[o] = "offered" /\ requests < MaxRequests
  /\ offer' = [offer EXCEPT ![o] = "cancelled"]
  /\ requests' = requests + 1
  /\ UNCHANGED <<day, made, visits, conversation_vars, message_vars, turn_vars, request, faults>>

-----------------------------------------------------------------------------
(* The turn. *)

\* A worker takes the event and the turn the conversation's row.
Begin(m) ==
  /\ at = "idle" /\ said[m] # Nought /\ reply[m] = "none"
  /\ turn' = m /\ at' = "begun"
  /\ UNCHANGED <<day, offer_vars, conversation_vars, message_vars, outcome, request, bounds>>

\* The engine is silent (suppressionReason).
Suppressed == stopped \/ hasVisit \/ stage \in {"takeover", "lost"}

\* The engine reads the message as a choice.
Chosen == ~Suppressed /\ stage = "slot" /\ said[turn] # Words

\* enqueueReply: the messages of an answer refer to the lead, whose row must be free.
LeadIsFree == request = "none"

\* The turn commits with an answer.
Answer(a) ==
  /\ LeadIsFree
  /\ reply' = [reply EXCEPT ![turn] = a]
  /\ turn' = Nothing /\ at' = "idle" /\ outcome' = "none"
  /\ UNCHANGED <<day, said, request, bounds>>

Silence ==
  /\ at = "begun" /\ Suppressed
  /\ Answer("silence")
  /\ UNCHANGED <<offer_vars, conversation_vars, shown>>

\* Mistake: the list is asked about whenever the words are no choice.
RepromptAlways ==
  /\ at = "begun" /\ ~Suppressed /\ stage = "slot" /\ ~Chosen
  /\ retry' = retry + 1
  /\ Answer("reprompt")
  /\ UNCHANGED <<offer_vars, stage, hasVisit, stopped, shown>>

\* Not a choice: the list is asked about once more.
Reprompt ==
  /\ at = "begun" /\ ~Suppressed /\ stage = "slot" /\ ~Chosen /\ retry = 0
  /\ retry' = 1
  /\ Answer("reprompt")
  /\ UNCHANGED <<offer_vars, stage, hasVisit, stopped, shown>>

Close ==
  /\ stage' = "qualified" /\ retry' = 0
  /\ Answer("closing")
  /\ UNCHANGED <<offer_vars, hasVisit, stopped, shown>>

\* Not a choice again, or nothing is left to ask: people take it from there.
Abandon ==
  /\ at = "begun" /\ ~Suppressed
  /\ \/ stage = "slot" /\ ~Chosen /\ retry # 0
     \/ stage = "qualified"
  /\ Close

\* generateAppointmentSlots: the next open days, without those the lead has.
OpenDays == Days \ Blackout
Ahead == {d \in OpenDays : d > day /\ Cardinality({e \in OpenDays : day < e /\ e < d}) < OfferDays}
Slots == {d \in Ahead : \A v \in visits : v.start # d}

\* composeSlotOffer: the offer with these starts is made, or found again; the rows
\* shown are those whose slot is still 'offered'.
Offered(a) ==
  /\ Slots # {}
  /\ \E d \in Slots : \A v \in visits : v.offer # Slots \/ v.start # d
  /\ offer' = IF offer[Slots] = "none" THEN [offer EXCEPT ![Slots] = "offered"] ELSE offer
  /\ made' = IF offer[Slots] = "none" THEN [made EXCEPT ![Slots] = day] ELSE made
  /\ shown' = shown \cup {Slots}
  /\ stage' = "slot"
  /\ Answer(a)
  /\ UNCHANGED <<visits, hasVisit, stopped>>

\* The last question is answered: days are offered.
Offer ==
  /\ at = "begun" /\ ~Suppressed /\ stage = "asking"
  /\ Offered("list")
  /\ retry' = 0

\* No days, or the window for such a message has closed.
NoOffer ==
  /\ at = "begun" /\ ~Suppressed /\ stage = "asking"
  /\ Close

-----------------------------------------------------------------------------
(* bookSlot, in a transaction of its own. *)

\* Mistake: only the visit that the conversation knows of counts.
BookedKnown(m) == hasVisit /\ \E v \in visits : v.source = m

\* It has booked for this message before: no row is locked to see that.
Booked(m) == \E v \in visits : v.source = m

Repeated ==
  /\ at = "begun" /\ Chosen /\ Booked(turn)
  /\ at' = "asked" /\ outcome' = "booked"
  /\ UNCHANGED <<day, offer_vars, conversation_vars, message_vars, turn, request, bounds>>

\* Mistake: the row of an offer is trusted to be as the list showed it.
BookAnyOffered ==
  /\ at = "begun" /\ Chosen /\ ~Booked(turn) /\ request = "none"
  /\ visits' = visits \cup {[offer |-> said[turn].offer, start |-> said[turn].start, source |-> turn]}
  /\ offer' = [offer EXCEPT ![said[turn].offer] = "booked"]
  /\ at' = "asked" /\ outcome' = "booked"
  /\ UNCHANGED <<day, made, conversation_vars, message_vars, turn, request, bounds>>

\* The offer, its slot and the lead are locked; the slot becomes a visit.
Book ==
  /\ at = "begun" /\ Chosen /\ ~Booked(turn) /\ request = "none"
  /\ offer[said[turn].offer] = "offered" /\ day <= made[said[turn].offer] + 1
  /\ visits' = visits \cup {[offer |-> said[turn].offer, start |-> said[turn].start, source |-> turn]}
  /\ offer' = [offer EXCEPT ![said[turn].offer] = "booked"]
  /\ at' = "asked" /\ outcome' = "booked"
  /\ UNCHANGED <<day, made, conversation_vars, message_vars, turn, request, bounds>>

\* A day after it was made the offer expires, at the hour it was made.
Expired ==
  /\ at = "begun" /\ Chosen /\ ~Booked(turn) /\ request = "none"
  /\ offer[said[turn].offer] = "offered" /\ day > made[said[turn].offer]
  /\ offer' = [offer EXCEPT ![said[turn].offer] = "expired"]
  /\ at' = "asked" /\ outcome' = "refused"
  /\ UNCHANGED <<day, made, visits, conversation_vars, message_vars, turn, request, bounds>>

\* The offer was booked, cancelled or expired before.
Refused ==
  /\ at = "begun" /\ Chosen /\ ~Booked(turn) /\ request = "none"
  /\ offer[said[turn].offer] # "offered"
  /\ at' = "asked" /\ outcome' = "refused"
  /\ UNCHANGED <<day, offer_vars, conversation_vars, message_vars, turn, request, bounds>>

\* The turn goes on with what it was told: the lead's visit is confirmed,
Confirm ==
  /\ at = "asked" /\ outcome = "booked"
  /\ stage' = "booked" /\ hasVisit' = TRUE /\ retry' = 0
  /\ Answer("booked")
  /\ UNCHANGED <<offer_vars, stopped, shown>>

\* or other days are offered,
Reoffer ==
  /\ at = "asked" /\ outcome = "refused"
  /\ Offered("taken")
  /\ retry' = 0

\* or there are none, or the window has closed.
GiveUp ==
  /\ at = "asked" /\ outcome = "refused"
  /\ Close

-----------------------------------------------------------------------------
(* Failures. *)

\* The processor's catch block: what the turn wrote is undone, not the visit.
RollBack ==
  /\ at # "idle"
  /\ turn' = Nothing /\ at' = "idle" /\ outcome' = "none"
  /\ UNCHANGED <<day, offer_vars, conversation_vars, message_vars, request, requests>>

TurnFails ==
  /\ faults < MaxFaults
  /\ RollBack
  /\ faults' = faults + 1

\* The turn waits within bookSlot, on the other connection, for the lead's row.
Booking == at = "begun" /\ Chosen /\ ~Booked(turn)

\* Mistake: nobody is aborted while the turn's second connection has an answer.
VictimBeforeBooking ==
  /\ at = "begun" /\ ~Booking /\ request \in ConversationRequests
  /\ \/ RollBack /\ UNCHANGED faults
     \/ /\ request' = "none"
        /\ UNCHANGED <<day, offer_vars, conversation_vars, message_vars, turn_vars, bounds>>

\* The turn waits for the lead's row itself and the request for the conversation's:
\* PostgreSQL aborts one.  It sees no cycle when the turn waits within bookSlot.
Victim ==
  /\ at # "idle" /\ ~Booking /\ request \in ConversationRequests
  /\ \/ RollBack /\ UNCHANGED faults
     \/ /\ request' = "none"
        /\ UNCHANGED <<day, offer_vars, conversation_vars, message_vars, turn_vars, bounds>>

-----------------------------------------------------------------------------
Decide == Silence \/ Reprompt \/ Abandon \/ Offer \/ NoOffer
BookSlot == Repeated \/ Book \/ Expired \/ Refused
Conclude == Confirm \/ Reoffer \/ GiveUp

Next ==
  \/ NextDay \/ Commit \/ TurnFails \/ Victim
  \/ Decide \/ BookSlot \/ Conclude
  \/ \E m \in Messages : Write(m) \/ Begin(m)
  \/ \E r \in Requests : Request(r)
  \/ \E o \in Offers : CancelOffer(o)

Spec == Init /\ [][Next]_appointment_vars

\* Events are claimed until they are handled, rows are given in the order they were
\* asked for, and PostgreSQL breaks the cycles it sees.
FairSpec ==
  /\ Spec
  /\ \A m \in Messages : SF_appointment_vars(Begin(m))
  /\ SF_appointment_vars(Decide \/ BookSlot \/ Conclude)
  /\ SF_appointment_vars(Commit) /\ WF_appointment_vars(Victim)

-----------------------------------------------------------------------------
(* Properties. *)

\* An offer becomes one visit at most, whatever the lead taps again and however
\* often a turn is repeated, and it is 'booked' exactly then (bookSlot).
OneVisitPerOffer ==
  /\ \A v, w \in visits : v.offer = w.offer => v = w
  /\ \A o \in Offers : offer[o] = "booked" <=> \E v \in visits : v.offer = o

\* A lead who is told that the visit is booked has it, and nobody is told that a
\* day is taken by a visit that the same message booked in an earlier attempt
\* (resolveSlotReply: "keyed off the resulting appointment id").
ToldTheTruth == \A m \in Messages :
  /\ reply[m] = "booked" => \E v \in visits : v.source = m /\ v.start = said[m].start
  /\ reply[m] = "taken" => \A v \in visits : v.source # m

\* A turn within bookSlot and a request wait for one another, unseen.
Hung == Booking /\ request \in ConversationRequests

\* Each message is answered, unless a turn hangs.
EveryMessageAnswered == \A m \in Messages :
  said[m] # Nought ~> reply[m] # "none" \/ Hung

\* The appointment's wiring keeps bookSlot from waiting for a row whose holder waits
\* for the turn (edge-inbound-message-processor.ts: "Appointment wiring must run
\* before anything below takes a foreign-key lock on the lead row").
NoUnseenCycle == ~Hung

\* A lead whose choice could not be booked gets days that can be
\* (appointment-conversation-service.ts: "is offered a fresh set").
FreshSet == [][\A m \in Messages :
  reply[m] = "none" /\ reply'[m] = "taken" => offer'[Slots] = "offered"]_appointment_vars
=============================================================================
