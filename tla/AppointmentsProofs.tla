------------------------- MODULE AppointmentsProofs -------------------------
(***************************************************************************)
(* Types of Appointments, that an offer becomes one visit at most, and that *)
(* the lead is told the truth, for any calendar, any messages and any       *)
(* number of requests and failed turns.                                     *)
(*                                                                          *)
(* The choice is booked in a transaction of its own, so the invariant has   *)
(* to tie what it left behind to the turn that may still be undone: a visit *)
(* is that of a tap that was really made (VisitsWereChosen), and what the   *)
(* turn was told of its tap is what the visits say (TurnKnows).             *)
(***************************************************************************)
EXTENDS Appointments, TLAPS

\* Each visit is the one a message tapped.
VisitsWereChosen == \A v \in visits :
  said[v.source] # Nought /\ said[v.source].offer = v.offer /\ said[v.source].start = v.start

\* Whether a turn is in progress, for which message, and what it was told.
TurnKnows ==
  /\ at = "idle" => outcome = "none"
  /\ at # "idle" => turn \in Messages /\ said[turn] # Nought /\ reply[turn] = "none"
  /\ at = "asked" => said[turn] # Words
  /\ at = "asked" /\ outcome = "booked" => Booked(turn)
  /\ at = "asked" /\ outcome = "refused" => ~Booked(turn)

IInv == AppointmentsTypeOK /\ VisitsWereChosen /\ TurnKnows /\ OneVisitPerOffer /\ ToldTheTruth

-----------------------------------------------------------------------------
LEMMA InitIsGood == Init => IInv
<1> SUFFICES ASSUME Init PROVE IInv
  OBVIOUS
<1> USE AppointmentsAssumption DEF Init
<1>1. AppointmentsTypeOK
  <2>1. said \in [Messages -> Choices \cup {Words, Nought}]
    OBVIOUS
  <2>2. /\ offer \in [Offers -> {"none", "offered", "booked", "expired", "cancelled"}]
        /\ made \in [Offers -> 0 .. MaxDay] /\ day \in 0 .. MaxDay
    OBVIOUS
  <2>3. reply \in [Messages -> {"none", "silence", "list", "taken", "booked", "reprompt", "closing"}]
    OBVIOUS
  <2>4. requests \in 0 .. MaxRequests /\ faults \in 0 .. MaxFaults /\ retry \in 0 .. 1
    OBVIOUS
  <2>5. /\ visits \subseteq [offer : Offers, start : Days, source : Messages]
        /\ hasVisit \in BOOLEAN /\ stopped \in BOOLEAN
    OBVIOUS
  <2> QED
    BY <2>1, <2>2, <2>3, <2>4, <2>5 DEF AppointmentsTypeOK
<1>2. VisitsWereChosen /\ TurnKnows
  BY DEF VisitsWereChosen, TurnKnows
<1>3. OneVisitPerOffer /\ ToldTheTruth
  BY DEF OneVisitPerOffer, ToldTheTruth
<1> QED
  BY <1>1, <1>2, <1>3 DEF IInv

\* What can be offered can be an offer.
LEMMA SlotsAreAnOffer == ASSUME Slots # {} PROVE Slots \in Offers
BY AppointmentsAssumption DEF Slots, Ahead, OpenDays, Offers

\* A tap names an offer and one of its starts.
LEMMA ChoicesAreTyped ==
  ASSUME AppointmentsTypeOK, NEW m \in Messages, said[m] \notin {Words, Nought}
  PROVE  said[m] \in Choices /\ said[m].offer \in Offers /\ said[m].start \in Days
BY DEF AppointmentsTypeOK, Choices

-----------------------------------------------------------------------------
(* Steps outside a turn. *)

LEMMA OutsideKeeps ==
  ASSUME IInv,
         \/ NextDay \/ Commit
         \/ \E r \in Requests : Request(r)
         \/ \E o \in Offers : CancelOffer(o)
  PROVE  IInv'
<1> USE AppointmentsAssumption
    DEF offer_vars, conversation_vars, turn_vars, message_vars, bounds
<1>1. AppointmentsTypeOK'
  <2>1. CASE NextDay
    BY <2>1 DEF IInv, AppointmentsTypeOK, NextDay
  <2>2. CASE Commit
    BY <2>2 DEF IInv, AppointmentsTypeOK, Commit, Answered
  <2>3. CASE \E r \in Requests : Request(r)
    BY <2>3 DEF IInv, AppointmentsTypeOK, Request
  <2>4. CASE \E o \in Offers : CancelOffer(o)
    BY <2>4 DEF IInv, AppointmentsTypeOK, CancelOffer
  <2> QED
    BY <2>1, <2>2, <2>3, <2>4
<1>2. UNCHANGED <<visits, said, reply, at, turn, outcome>>
  BY DEF NextDay, Commit, Answered, Request, CancelOffer
<1>3. VisitsWereChosen' /\ TurnKnows' /\ ToldTheTruth'
  BY <1>2 DEF IInv, VisitsWereChosen, TurnKnows, ToldTheTruth, Booked
<1>4. \A o \in Offers : offer'[o] = "booked" <=> offer[o] = "booked"
  BY DEF IInv, AppointmentsTypeOK, NextDay, Commit, Answered, Request, CancelOffer
<1>5. OneVisitPerOffer'
  BY <1>2, <1>4 DEF IInv, OneVisitPerOffer
<1> QED
  BY <1>1, <1>3, <1>5 DEF IInv

LEMMA WriteKeeps == ASSUME IInv, NEW m \in Messages, Write(m) PROVE IInv'
<1> USE AppointmentsAssumption
    DEF Write, offer_vars, conversation_vars, turn_vars, message_vars, bounds
<1>1. PICK s \in {Words} \cup Choices : said' = [said EXCEPT ![m] = s]
  OBVIOUS
<1>2. AppointmentsTypeOK'
  BY <1>1 DEF IInv, AppointmentsTypeOK
<1>3. \A n \in Messages : said[n] # Nought => said'[n] = said[n]
  BY <1>1 DEF IInv, AppointmentsTypeOK
<1>4. \A v \in visits : v.source \in Messages
  BY DEF IInv, AppointmentsTypeOK
<1>5. VisitsWereChosen' /\ TurnKnows'
  BY <1>3, <1>4 DEF IInv, VisitsWereChosen, TurnKnows, Booked
<1>6. \A v \in visits : said'[v.source] = said[v.source]
  BY <1>3, <1>4 DEF IInv, VisitsWereChosen
<1>7. OneVisitPerOffer' /\ ToldTheTruth'
  BY <1>6 DEF IInv, OneVisitPerOffer, ToldTheTruth
<1> QED
  BY <1>2, <1>5, <1>7 DEF IInv

LEMMA BeginKeeps == ASSUME IInv, NEW m \in Messages, Begin(m) PROVE IInv'
BY AppointmentsAssumption
   DEF IInv, AppointmentsTypeOK, Begin, VisitsWereChosen, TurnKnows, OneVisitPerOffer, ToldTheTruth,
       Booked, offer_vars, conversation_vars, message_vars, bounds

-----------------------------------------------------------------------------
(* How a turn ends. *)

\* What an answer leaves as it was, once the types of the answer are known.
LEMMA AnswerKeeps ==
  ASSUME IInv, at # "idle", NEW a, Answer(a), AppointmentsTypeOK',
         UNCHANGED visits,
         \A o \in Offers : offer'[o] = "booked" <=> offer[o] = "booked",
         a = "booked" => Booked(turn), a = "taken" => ~Booked(turn)
  PROVE  IInv'
<1>1. UNCHANGED <<visits, said>> /\ at' = "idle" /\ outcome' = "none"
  BY DEF Answer
<1>2. turn \in Messages /\ \A n \in Messages : reply'[n] = IF n = turn THEN a ELSE reply[n]
  BY DEF Answer, IInv, TurnKnows, AppointmentsTypeOK
<1>3. VisitsWereChosen' /\ TurnKnows' /\ OneVisitPerOffer'
  BY <1>1 DEF IInv, VisitsWereChosen, TurnKnows, OneVisitPerOffer
<1>4. ToldTheTruth'
  <2> SUFFICES ASSUME NEW m \in Messages
               PROVE  /\ reply'[m] = "booked" => \E v \in visits' : v.source = m /\ v.start = said'[m].start
                      /\ reply'[m] = "taken" => \A v \in visits' : v.source # m
    BY DEF ToldTheTruth
  <2>1. CASE m # turn
    BY <1>1, <1>2, <2>1 DEF IInv, ToldTheTruth
  <2>2. CASE m = turn
    BY <1>1, <1>2, <2>2 DEF IInv, VisitsWereChosen, Booked
  <2> QED
    BY <2>1, <2>2
<1> QED
  BY <1>3, <1>4 DEF IInv

\* Answers that write nothing about offers.
LEMMA DecideKeeps ==
  ASSUME IInv, Silence \/ Reprompt \/ Abandon \/ NoOffer \/ GiveUp \/ Confirm
  PROVE  IInv'
<1> USE DEF offer_vars, conversation_vars, turn_vars, message_vars, bounds
<1>1. PICK a \in {"silence", "reprompt", "closing", "booked"} :
        Answer(a) /\ (a = "booked" => at = "asked" /\ outcome = "booked")
  BY DEF Silence, Reprompt, Abandon, NoOffer, GiveUp, Confirm, Close
<1>2. at # "idle" /\ UNCHANGED offer_vars
  BY DEF Silence, Reprompt, Abandon, NoOffer, GiveUp, Confirm, Close, IInv, TurnKnows
<1>3. AppointmentsTypeOK'
  <2>1. /\ stage' \in {"asking", "slot", "booked", "qualified", "takeover", "lost"}
        /\ retry' \in 0 .. 1 /\ hasVisit' \in BOOLEAN /\ stopped' \in BOOLEAN /\ UNCHANGED shown
    <3>1. CASE Silence
      BY <3>1 DEF Silence, IInv, AppointmentsTypeOK
    <3>4. CASE Confirm
      BY <3>4 DEF Confirm, IInv, AppointmentsTypeOK
    <3>2. CASE Reprompt
      BY <3>2 DEF Reprompt, IInv, AppointmentsTypeOK
    <3>3. CASE Abandon \/ NoOffer \/ GiveUp
      BY <3>3 DEF Abandon, NoOffer, GiveUp, Close, IInv, AppointmentsTypeOK
    <3> QED
      BY <3>1, <3>2, <3>3, <3>4
  <2>2. reply' \in [Messages -> {"none", "silence", "list", "taken", "booked", "reprompt", "closing"}]
    BY <1>1 DEF Answer, IInv, AppointmentsTypeOK
  <2> QED
    BY <1>1, <1>2, <2>1, <2>2 DEF Answer, IInv, AppointmentsTypeOK
<1>4. a = "booked" => Booked(turn)
  BY <1>1 DEF IInv, TurnKnows
<1> QED
  BY <1>1, <1>2, <1>3, <1>4, AnswerKeeps

\* Answers with a list of days.
LEMMA OfferKeeps == ASSUME IInv, Offer \/ Reoffer PROVE IInv'
<1> USE DEF offer_vars, conversation_vars, turn_vars, message_vars, bounds
<1>1. PICK a \in {"list", "taken"} :
        Offered(a) /\ (a = "taken" => at = "asked" /\ outcome = "refused")
  BY DEF Offer, Reoffer
<1>2. at # "idle" /\ Answer(a) /\ UNCHANGED visits /\ retry' = 0
  BY <1>1 DEF Offer, Reoffer, Offered
<1>3. Slots \in Offers
  BY <1>1, SlotsAreAnOffer DEF Offered
<1>4. /\ offer' \in [Offers -> {"none", "offered", "booked", "expired", "cancelled"}]
      /\ \A o \in Offers : offer'[o] = "booked" <=> offer[o] = "booked"
  BY <1>1, <1>3 DEF Offered, IInv, AppointmentsTypeOK
<1>5. made' \in [Offers -> 0 .. MaxDay] /\ shown' \subseteq Offers
  BY <1>1, <1>3 DEF Offered, IInv, AppointmentsTypeOK
<1>6. reply' \in [Messages -> {"none", "silence", "list", "taken", "booked", "reprompt", "closing"}]
  BY <1>2 DEF Answer, IInv, AppointmentsTypeOK
<1>7. AppointmentsTypeOK'
  BY <1>1, <1>2, <1>4, <1>5, <1>6 DEF Offered, Answer, IInv, AppointmentsTypeOK
<1>8. a = "taken" => ~Booked(turn)
  BY <1>1 DEF IInv, TurnKnows
<1> QED
  BY <1>2, <1>4, <1>7, <1>8, AnswerKeeps

LEMMA RollBackKeeps == ASSUME IInv, TurnFails \/ Victim PROVE IInv'
<1> USE AppointmentsAssumption
    DEF offer_vars, conversation_vars, turn_vars, message_vars, bounds
<1>1. AppointmentsTypeOK'
  BY DEF TurnFails, Victim, RollBack, IInv, AppointmentsTypeOK
<1>2. UNCHANGED <<offer, visits, said, reply>>
  BY DEF TurnFails, Victim, RollBack
<1>3. (at' = "idle" /\ outcome' = "none") \/ UNCHANGED turn_vars
  BY DEF TurnFails, Victim, RollBack
<1>4. TurnKnows'
  BY <1>2, <1>3 DEF IInv, TurnKnows, Booked
<1>5. VisitsWereChosen' /\ OneVisitPerOffer' /\ ToldTheTruth'
  BY <1>2 DEF IInv, VisitsWereChosen, OneVisitPerOffer, ToldTheTruth
<1> QED
  BY <1>1, <1>4, <1>5 DEF IInv

-----------------------------------------------------------------------------
(* bookSlot. *)

\* It found the visit of an earlier attempt, or an offer that is no longer open.
LEMMA NotBookedKeeps == ASSUME IInv, Repeated \/ Expired \/ Refused PROVE IInv'
<1> USE DEF offer_vars, conversation_vars, turn_vars, message_vars, bounds
<1>1. turn \in Messages /\ said[turn] # Words /\ said[turn] # Nought /\ at' = "asked"
  BY DEF Repeated, Expired, Refused, Chosen, IInv, TurnKnows
<1>2. said[turn].offer \in Offers
  BY <1>1, ChoicesAreTyped DEF IInv
<1>3. /\ UNCHANGED <<visits, said, reply, turn>>
      /\ \A o \in Offers : offer'[o] = "booked" <=> offer[o] = "booked"
  <2>1. CASE Repeated \/ Refused
    BY <2>1 DEF Repeated, Refused
  <2>2. CASE Expired
    BY <1>2, <2>2 DEF Expired, IInv, AppointmentsTypeOK
  <2> QED
    BY <2>1, <2>2
<1>4. AppointmentsTypeOK'
  <2>1. CASE Repeated \/ Refused
    BY <2>1 DEF Repeated, Refused, IInv, AppointmentsTypeOK
  <2>2. CASE Expired
    BY <1>2, <2>2 DEF Expired, IInv, AppointmentsTypeOK
  <2> QED
    BY <2>1, <2>2
<1>5. (outcome' = "booked" /\ Booked(turn)) \/ (outcome' = "refused" /\ ~Booked(turn))
  <2>1. CASE Repeated
    BY <2>1 DEF Repeated
  <2>2. CASE Expired \/ Refused
    BY <2>2 DEF Expired, Refused
  <2> QED
    BY <2>1, <2>2
<1>6. TurnKnows'
  <2>1. at' = "asked" /\ turn' \in Messages /\ reply'[turn'] = "none"
        /\ said'[turn'] # Nought /\ said'[turn'] # Words
    BY <1>1, <1>3 DEF Repeated, Expired, Refused, IInv, TurnKnows
  <2>2. Booked(turn)' <=> Booked(turn)
    BY <1>3 DEF Booked
  <2> QED
    BY <1>5, <2>1, <2>2 DEF TurnKnows
<1>7. VisitsWereChosen' /\ OneVisitPerOffer' /\ ToldTheTruth'
  BY <1>3 DEF IInv, VisitsWereChosen, OneVisitPerOffer, ToldTheTruth
<1> QED
  BY <1>4, <1>6, <1>7 DEF IInv

\* The tapped slot of an open offer becomes a visit: the offer had none.
LEMMA BookKeeps == ASSUME IInv, Book PROVE IInv'
<1> DEFINE o == said[turn].offer
           new == [offer |-> o, start |-> said[turn].start, source |-> turn]
<1> USE DEF offer_vars, conversation_vars, turn_vars, message_vars, bounds
<1>1. turn \in Messages /\ said[turn] # Words /\ said[turn] # Nought /\ reply[turn] = "none"
  BY DEF Book, Chosen, IInv, TurnKnows
<1>2. o \in Offers /\ said[turn].start \in Days
  BY <1>1, ChoicesAreTyped DEF IInv
<1>3. /\ visits' = visits \cup {new} /\ offer' = [offer EXCEPT ![o] = "booked"]
      /\ offer[o] = "offered" /\ ~Booked(turn)
      /\ at' = "asked" /\ outcome' = "booked" /\ UNCHANGED <<said, reply, turn>>
  BY DEF Book
<1>4. AppointmentsTypeOK'
  <2>1. visits' \subseteq [offer : Offers, start : Days, source : Messages]
    BY <1>1, <1>2, <1>3 DEF IInv, AppointmentsTypeOK
  <2>2. offer' \in [Offers -> {"none", "offered", "booked", "expired", "cancelled"}]
    BY <1>2, <1>3 DEF IInv, AppointmentsTypeOK
  <2> QED
    BY <2>1, <2>2 DEF Book, IInv, AppointmentsTypeOK
<1>5. VisitsWereChosen'
  BY <1>1, <1>3 DEF IInv, VisitsWereChosen
<1>6. TurnKnows'
  <2>1. new \in visits' /\ new.source = turn
    BY <1>3
  <2>2. \E v \in visits' : v.source = turn'
    BY <1>3, <2>1
  <2> QED
    BY <1>1, <1>3, <2>2 DEF TurnKnows, Booked
<1>7. OneVisitPerOffer'
  <2>1. \A v \in visits : v.offer # o
    BY <1>2, <1>3 DEF IInv, OneVisitPerOffer
  <2>2. \A v, w \in visits' : v.offer = w.offer => v = w
    BY <1>3, <2>1 DEF IInv, OneVisitPerOffer
  <2>3. ASSUME NEW p \in Offers
        PROVE  offer'[p] = "booked" <=> \E v \in visits' : v.offer = p
    <3>1. CASE p = o
      <4>1. offer'[p] = "booked"
        BY <1>2, <1>3, <3>1 DEF IInv, AppointmentsTypeOK
      <4>2. new \in visits' /\ new.offer = p
        BY <1>3, <3>1
      <4> QED
        BY <4>1, <4>2
    <3>2. CASE p # o
      BY <1>2, <1>3, <3>2 DEF IInv, AppointmentsTypeOK, OneVisitPerOffer
    <3> QED
      BY <3>1, <3>2
  <2> QED
    BY <2>2, <2>3 DEF OneVisitPerOffer
<1>8. ToldTheTruth'
  BY <1>1, <1>3 DEF IInv, ToldTheTruth
<1> QED
  BY <1>4, <1>5, <1>6, <1>7, <1>8 DEF IInv

-----------------------------------------------------------------------------
LEMMA StutterKeeps == ASSUME IInv, UNCHANGED appointment_vars PROVE IInv'
BY DEF IInv, AppointmentsTypeOK, VisitsWereChosen, TurnKnows, OneVisitPerOffer, ToldTheTruth, Booked,
       appointment_vars, offer_vars, conversation_vars, turn_vars, message_vars, bounds

LEMMA NextKeeps == IInv /\ [Next]_appointment_vars => IInv'
<1> SUFFICES ASSUME IInv, [Next]_appointment_vars PROVE IInv'
  OBVIOUS
<1>1. CASE NextDay \/ Commit \/ (\E r \in Requests : Request(r)) \/ (\E o \in Offers : CancelOffer(o))
  BY <1>1, OutsideKeeps
<1>2. CASE \E m \in Messages : Write(m) \/ Begin(m)
  BY <1>2, WriteKeeps, BeginKeeps
<1>3. CASE Silence \/ Reprompt \/ Abandon \/ NoOffer \/ GiveUp \/ Confirm
  BY <1>3, DecideKeeps
<1>4. CASE Offer \/ Reoffer
  BY <1>4, OfferKeeps
<1>5. CASE TurnFails \/ Victim
  BY <1>5, RollBackKeeps
<1>6. CASE Repeated \/ Expired \/ Refused
  BY <1>6, NotBookedKeeps
<1>7. CASE Book
  BY <1>7, BookKeeps
<1>8. CASE UNCHANGED appointment_vars
  BY <1>8, StutterKeeps
<1> QED
  BY <1>1, <1>2, <1>3, <1>4, <1>5, <1>6, <1>7, <1>8 DEF Next, Decide, BookSlot, Conclude

\* What the following theorems rest on.
THEOREM AppointmentsInvariant == Spec => []IInv
BY InitIsGood, NextKeeps, PTL DEF Spec

\* Offers, visits, the conversation and the turn keep to their types.
THEOREM AppointmentsTyped == Spec => []AppointmentsTypeOK
<1>1. IInv => AppointmentsTypeOK
  BY DEF IInv
<1> QED
  BY <1>1, AppointmentsInvariant, PTL

\* However often a tap or a turn is repeated, an offer becomes one visit at most
\* (AppointmentService.bookSlot).
THEOREM OneVisitEach == Spec => []OneVisitPerOffer
<1>1. IInv => OneVisitPerOffer
  BY DEF IInv
<1> QED
  BY <1>1, AppointmentsInvariant, PTL

\* Though the visit outlives the turn that booked it, the lead is told of it, and is
\* not told that a day is taken by their own visit (resolveSlotReply).
THEOREM TheTruthIsTold == Spec => []ToldTheTruth
<1>1. IInv => ToldTheTruth
  BY DEF IInv
<1> QED
  BY <1>1, AppointmentsInvariant, PTL
=============================================================================
