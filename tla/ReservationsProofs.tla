------------------------- MODULE ReservationsProofs -------------------------
(***************************************************************************)
(* The safety properties of Reservations and of ReservationReminders, for   *)
(* any guests, slots, capacities, parties, workers, attempts and faults.    *)
(*                                                                          *)
(* NeverOversold is not inductive: that a booking fits is known only from   *)
(* what its turn counted earlier.  RoomIsThere says that the count stays    *)
(* true until the commit, because no other turn holds the slot's lock       *)
(* (LocksHeld) and because whatever the venue and the guests do without it  *)
(* takes covers back, and never takes one.  The same invariant shows that   *)
(* each step of Reservations is a step of Tables, or none: Implements.      *)
(*                                                                          *)
(* NobodyForgotten is not inductive either: a worker may come to a job's    *)
(* end long after it read the reservation.  EndsAreDue says that a worker   *)
(* completes a job only for a reason that has come to stay (Done);          *)
(* JobsComeLate and MarksHaveMessages, what the order of statements         *)
(* guarantees.  The lease is not needed: a worker whose fence fails changes *)
(* no job, and one whose fence holds by mistake would complete it for a     *)
(* good reason.  The last part shows that the lease keeps Leases all the    *)
(* same.                                                                    *)
(***************************************************************************)
EXTENDS Reservations, ReservationReminders, FiniteSetTheorems, TLAPS

\* A turn asks for something, in the name of its guest.
TurnsAsk ==
  \A g \in Guests : pc[g] # "idle" => want[g] \in Requests /\ want[g].guest = g

\* Past the lock, a turn holds it.
LocksHeld ==
  \A g \in Guests : pc[g] \in {"locked", "looked"} => lock[want[g].slot] = g

\* What a turn counted is still there.
RoomIsThere ==
  \A g \in Guests :
    pc[g] = "looked" /\ room[g] => Taken(want[g].slot) + want[g].party <= Capacity[want[g].slot]

\* A booking that was new when the turn looked is new.
NewIsNew ==
  \A g \in Guests : pc[g] = "looked" /\ seen[g] = "none" => status[want[g]] = "none"

\* A booking that was made when the turn looked is made.
KnownIsKnown ==
  \A g \in Guests : pc[g] = "looked" /\ seen[g] # "none" => status[want[g]] # "none"

\* No reminder without a reservation.
RemindersHaveTables ==
  \A r \in Requests : status[r] = "none" => reminder[r] = "none"

IInv ==
  /\ TypeOK
  /\ TurnsAsk
  /\ LocksHeld
  /\ RoomIsThere
  /\ NewIsNew
  /\ KnownIsKnown
  /\ RemindersHaveTables
  /\ NeverOversold
  /\ RemindersFollowTables

-----------------------------------------------------------------------------
(* The covers of a slot. *)

\* There are finitely many requests.
LEMMA RequestsFinite == IsFiniteSet(Requests)
<1> DEFINE Asked == [guest : Guests, slot : Slots, party : 1 .. MaxParty]
           T == (Guests \X Slots) \X (1 .. MaxParty)
           f == [r \in Asked |-> <<<<r.guest, r.slot>>, r.party>>]
<1>1. IsFiniteSet(T)
  <2>1. IsFiniteSet(1 .. MaxParty)
    BY FS_Interval, TablesAssumption
  <2>2. IsFiniteSet(Guests \X Slots)
    BY FS_Product, TablesAssumption
  <2> QED
    BY <2>1, <2>2, FS_Product
<1>2. f \in Injection(Asked, T)
  <2>1. f \in [Asked -> T]
    OBVIOUS
  <2>2. ASSUME NEW a \in Asked, NEW b \in Asked, f[a] = f[b]
        PROVE  a = b
    BY <2>2
  <2> QED
    BY <2>1, <2>2 DEF Injection, IsInjective
<1>3. IsFiniteSet(Asked)
  BY <1>1, <1>2, FS_Injection
<1> QED
  BY <1>3, TablesAssumption, FS_Subset

\* What is asked for names a guest, a slot and a party.
LEMMA RequestType ==
  ASSUME NEW r \in Requests
  PROVE  /\ r.guest \in Guests
         /\ r.slot \in Slots
         /\ r.party \in Nat /\ r.party <= MaxParty
BY TablesAssumption

\* A set of covers is finite.
LEMMA CoversFinite ==
  ASSUME NEW s
  PROVE  IsFiniteSet(Covers(s)) /\ Taken(s) \in Nat
<1>1. IsFiniteSet(Requests \X (1 .. MaxParty))
  <2>1. IsFiniteSet(1 .. MaxParty)
    BY FS_Interval, TablesAssumption
  <2> QED
    BY <2>1, RequestsFinite, FS_Product
<1>2. Covers(s) \in SUBSET (Requests \X (1 .. MaxParty))
  BY DEF Covers
<1>3. IsFiniteSet(Covers(s))
  BY <1>1, <1>2, FS_Subset
<1> QED
  BY <1>3, FS_CardinalityType DEF Taken

\* A step that takes no covers leaves as many free as there were.
LEMMA CoversShrink ==
  ASSUME NEW s,
         \A r \in Requests : status'[r] \in Holding => status[r] \in Holding
  PROVE  Taken(s)' <= Taken(s) /\ Taken(s)' \in Nat
<1>1. Covers(s)' \in SUBSET Covers(s)
  BY DEF Covers
<1>2. IsFiniteSet(Covers(s))
  BY CoversFinite
<1> QED
  BY <1>1, <1>2, FS_Subset, FS_CardinalityType DEF Taken

\* A booking takes as many covers as its party has, in its own slot.
LEMMA CoversOfBooking ==
  ASSUME TablesTypeOK, NEW r \in Requests, NEW x \in Statuses, NEW s,
         status' = [status EXCEPT ![r] = x]
  PROVE  /\ Taken(s)' \in Nat
         /\ s = r.slot => Taken(s)' <= Taken(s) + r.party
         /\ s # r.slot => Taken(s)' <= Taken(s)
<1> DEFINE New == {<<r, k>> : k \in 1 .. r.party}
<1>1. r.party \in Nat
  BY RequestType
<1>2. IsFiniteSet(New) /\ Cardinality(New) <= r.party
  <2> DEFINE f == [c \in New |-> c[2]]
  <2>1. f \in Injection(New, 1 .. r.party)
    BY DEF Injection, IsInjective
  <2>2. IsFiniteSet(1 .. r.party) /\ Cardinality(1 .. r.party) = r.party
    BY <1>1, FS_Interval
  <2> QED
    BY <2>1, <2>2, FS_Injection
<1>3. IsFiniteSet(Covers(s)) /\ Taken(s) \in Nat
  BY CoversFinite
<1>4. \A q \in Requests : status'[q] = IF q = r THEN x ELSE status[q]
  BY DEF TablesTypeOK
<1>5. CASE s = r.slot
  <2>1. Covers(s)' \in SUBSET (Covers(s) \cup New)
    BY <1>4, RequestType, TablesAssumption DEF Covers
  <2>2. /\ IsFiniteSet(Covers(s) \cup New)
        /\ Cardinality(Covers(s) \cup New) <= Taken(s) + r.party
    <3>1. /\ IsFiniteSet(Covers(s) \cup New)
          /\ Cardinality(Covers(s) \cup New)
               = Cardinality(Covers(s)) + Cardinality(New) - Cardinality(Covers(s) \cap New)
      BY <1>2, <1>3, FS_Union
    <3>2. Cardinality(Covers(s) \cap New) \in Nat
      <4>1. Covers(s) \cap New \in SUBSET New
        OBVIOUS
      <4> QED
        BY <4>1, <1>2, FS_Subset, FS_CardinalityType
    <3>3. Cardinality(New) \in Nat
      BY <1>2, FS_CardinalityType
    <3> QED
      BY <3>1, <3>2, <3>3, <1>1, <1>2, <1>3 DEF Taken
  <2>3. IsFiniteSet(Covers(s)') /\ Cardinality(Covers(s)') <= Cardinality(Covers(s) \cup New)
    BY <2>1, <2>2, FS_Subset
  <2>4. Cardinality(Covers(s)') \in Nat /\ Cardinality(Covers(s) \cup New) \in Nat
    BY <2>2, <2>3, FS_CardinalityType
  <2> QED
    BY <1>1, <1>3, <1>5, <2>2, <2>3, <2>4 DEF Taken
<1>6. CASE s # r.slot
  <2>1. Covers(s)' \in SUBSET Covers(s)
    BY <1>4, <1>6 DEF Covers
  <2> QED
    BY <2>1, <1>3, <1>6, FS_Subset, FS_CardinalityType DEF Taken
<1> QED
  BY <1>5, <1>6

-----------------------------------------------------------------------------
(* The types, and what the turns know without counting. *)

LEMMA TypeInit == Init => TypeOK
BY TablesAssumption DEF Init, InitTables, TypeOK, TablesTypeOK, Statuses, JobStatuses, Stages

LEMMA NewStatusType ==
  ASSUME NEW r
  PROVE  NewStatus(r) \in {"requested", "confirmed"}
BY DEF NewStatus

\* The job and the stage keep their types, whatever the step is.
LEMMA ScheduleType ==
  ASSUME TypeOK, NEW r \in Requests, Schedule(r) \/ Unschedule(r)
  PROVE  reminder' \in [Requests -> JobStatuses]
BY DEF TypeOK, TablesTypeOK, Schedule, Unschedule, JobStatuses

LEMMA StageType ==
  ASSUME TypeOK, NEW r \in Requests,
         StageAfterCancel(r) \/ (\E x : stage' = [stage EXCEPT ![r.guest] = StageOf(x)])
  PROVE  stage' \in [Guests -> Stages]
BY RequestType DEF TypeOK, TablesTypeOK, StageOf, StageAfterCancel, Stages

LEMMA EndTurnType ==
  ASSUME TypeOK, NEW g \in Guests, EndTurn(g)
  PROVE  /\ lock' \in [Slots -> Guests \cup {Nobody}]
         /\ pc' \in [Guests -> {"idle", "asked", "locked", "looked"}]
         /\ want' \in [Guests -> Requests \cup {Nothing}]
         /\ seen' \in [Guests -> Statuses]
         /\ room' \in [Guests -> BOOLEAN]
BY DEF TypeOK, TablesTypeOK, EndTurn, Statuses

LEMMA TypeStep ==
  ASSUME TypeOK, TurnsAsk, [Next]_reservation_vars
  PROVE  TypeOK' /\ TurnsAsk'
<1>1. CASE UNCHANGED reservation_vars
  BY <1>1 DEF TypeOK, TablesTypeOK, TurnsAsk, reservation_vars, table_vars, turn_vars
<1>2. ASSUME NEW g \in Guests, Ask(g)
      PROVE  TypeOK' /\ TurnsAsk'
  BY <1>2 DEF Ask, TypeOK, TablesTypeOK, TurnsAsk, table_vars
<1>3. ASSUME NEW g \in Guests, Lock(g)
      PROVE  TypeOK' /\ TurnsAsk'
  <2>1. want[g].slot \in Slots
    BY <1>3, RequestType DEF Lock, TurnsAsk
  <2> QED
    BY <1>3, <2>1 DEF Lock, TypeOK, TablesTypeOK, TurnsAsk, table_vars
<1>4. ASSUME NEW g \in Guests, Look(g)
      PROVE  TypeOK' /\ TurnsAsk'
  <2>1. want[g] \in Requests /\ want[g].slot \in Slots
    BY <1>4, RequestType DEF Look, TurnsAsk
  <2>2. status[want[g]] \in Statuses
    BY <2>1 DEF TypeOK, TablesTypeOK
  <2>3. (want[g].party <= Capacity[want[g].slot] - Taken(want[g].slot)) \in BOOLEAN
    OBVIOUS
  <2> QED
    BY <1>4, <2>1, <2>2, <2>3 DEF Look, TypeOK, TablesTypeOK, TurnsAsk, table_vars
<1>5. ASSUME NEW g \in Guests, Replay(g) \/ Refuse(g) \/ FailTurn(g)
      PROVE  TypeOK' /\ TurnsAsk'
  <2>1. EndTurn(g) /\ UNCHANGED <<status, reminder, when>>
    BY <1>5 DEF Replay, Refuse, FailTurn, table_vars
  <2>2. stage' \in [Guests -> Stages]
    <3>1. CASE Replay(g)
      BY <3>1 DEF Replay, StageOf, TypeOK, TablesTypeOK, Stages
    <3>2. CASE Refuse(g) \/ FailTurn(g)
      BY <3>2 DEF Refuse, FailTurn, table_vars, TypeOK, TablesTypeOK
    <3> QED
      BY <1>5, <3>1, <3>2
  <2> QED
    BY <2>1, <2>2, EndTurnType DEF TypeOK, TablesTypeOK, TurnsAsk, EndTurn
<1>6. ASSUME NEW g \in Guests, Book(g)
      PROVE  TypeOK' /\ TurnsAsk'
  <2>1. want[g] \in Requests
    BY <1>6 DEF Book, TurnsAsk
  <2>2. status' \in [Requests -> Statuses]
    BY <1>6, <2>1, NewStatusType DEF Book, Promise, TypeOK, TablesTypeOK, Statuses
  <2>3. reminder' \in [Requests -> JobStatuses] /\ stage' \in [Guests -> Stages]
    BY <1>6, <2>1, ScheduleType, StageType DEF Book, Promise
  <2>4. EndTurn(g) /\ UNCHANGED when
    BY <1>6 DEF Book, Promise
  <2> QED
    BY <2>2, <2>3, <2>4, EndTurnType DEF TypeOK, TablesTypeOK, TurnsAsk, EndTurn
<1>7. ASSUME NEW r \in Requests, UNCHANGED turn_vars,
             GuestCancels(r) \/ VenueCancels(r) \/ Confirm(r) \/ Door(r)
      PROVE  TypeOK' /\ TurnsAsk'
  <2>1. r.guest \in Guests
    BY RequestType
  <2>2. UNCHANGED when
    BY <1>7 DEF GuestCancels, VenueCancels, Confirm, Door
  <2>3. status' \in [Requests -> Statuses]
    BY <1>7 DEF GuestCancels, VenueCancels, Confirm, Door, TypeOK, TablesTypeOK, Statuses
  <2>4. reminder' \in [Requests -> JobStatuses]
    BY <1>7, ScheduleType DEF GuestCancels, VenueCancels, Confirm, Door
  <2>5. stage' \in [Guests -> Stages]
    <3>1. CASE GuestCancels(r) \/ VenueCancels(r)
      BY <3>1, <2>1, StageType DEF GuestCancels, VenueCancels
    <3>2. CASE Confirm(r) \/ Door(r)
      BY <3>2, <2>1 DEF Confirm, Door, StageOf, TypeOK, TablesTypeOK, Stages
    <3> QED
      BY <1>7, <3>1, <3>2
  <2> QED
    BY <1>7, <2>2, <2>3, <2>4, <2>5 DEF TypeOK, TablesTypeOK, TurnsAsk, turn_vars
<1>8. ASSUME NEW s \in Slots, TimePasses(s), UNCHANGED turn_vars
      PROVE  TypeOK' /\ TurnsAsk'
  <2>1. when' \in [Slots -> {"ahead", "soon", "started", "over"}]
    BY <1>8 DEF TimePasses, TypeOK, TablesTypeOK, Phases
  <2> QED
    BY <1>8, <2>1 DEF TimePasses, TypeOK, TablesTypeOK, TurnsAsk, table_vars, turn_vars
<1> QED
  BY <1>1, <1>2, <1>3, <1>4, <1>5, <1>6, <1>7, <1>8 DEF Next

-----------------------------------------------------------------------------
(* The locks: no turn looks at a slot while another one has its lock. *)

LEMMA LocksStep ==
  ASSUME TypeOK, TurnsAsk, LocksHeld, [Next]_reservation_vars
  PROVE  LocksHeld'
<1> USE TablesAssumption, TurnsAssumption
<1>1. CASE UNCHANGED reservation_vars
  BY <1>1 DEF LocksHeld, reservation_vars, turn_vars
<1>2. ASSUME NEW g \in Guests, Ask(g)
      PROVE  LocksHeld'
  BY <1>2 DEF Ask, TypeOK, TablesTypeOK, LocksHeld
<1>3. ASSUME NEW g \in Guests, Lock(g)
      PROVE  LocksHeld'
  BY <1>3, RequestType DEF Lock, TypeOK, TablesTypeOK, LocksHeld, TurnsAsk
<1>4. ASSUME NEW g \in Guests, Look(g)
      PROVE  LocksHeld'
  BY <1>4 DEF Look, TypeOK, TablesTypeOK, LocksHeld
<1>5. ASSUME NEW g \in Guests, EndTurn(g)
      PROVE  LocksHeld'
  BY <1>5, RequestType DEF EndTurn, TypeOK, TablesTypeOK, LocksHeld, TurnsAsk
<1>6. ASSUME UNCHANGED turn_vars
      PROVE  LocksHeld'
  BY <1>6 DEF LocksHeld, turn_vars
<1> QED
  BY <1>1, <1>2, <1>3, <1>4, <1>5, <1>6
  DEF Next, Replay, Refuse, Book, FailTurn

-----------------------------------------------------------------------------
(* Counting covers. *)

\* The turns that hold a lock on different slots, or are the same.
LEMMA OneTurnPerSlot ==
  ASSUME LocksHeld, NEW g \in Guests, NEW h \in Guests,
         pc[g] \in {"locked", "looked"}, pc[h] \in {"locked", "looked"},
         want[g].slot = want[h].slot
  PROVE  g = h
BY DEF LocksHeld

\* A step that takes no covers and lets no turn look keeps the count of every turn.
LEMMA RoomKept ==
  ASSUME TypeOK, TurnsAsk, RoomIsThere, NeverOversold,
         \A r \in Requests : status'[r] \in Holding => status[r] \in Holding,
         \A g \in Guests : pc'[g] = "looked" => pc[g] = "looked" /\ want'[g] = want[g] /\ room'[g] = room[g]
  PROVE  RoomIsThere' /\ NeverOversold'
<1> USE TablesAssumption
<1>1. \A s : Taken(s)' <= Taken(s) /\ Taken(s)' \in Nat /\ Taken(s) \in Nat
  BY CoversShrink, CoversFinite
<1>2. NeverOversold'
  BY <1>1 DEF NeverOversold
<1>3. ASSUME NEW g \in Guests, pc'[g] = "looked", room'[g]
      PROVE  Taken(want[g].slot)' + want[g].party <= Capacity[want[g].slot]
  <2>1. want[g].slot \in Slots /\ want[g].party \in Nat
    BY <1>3, RequestType DEF TurnsAsk
  <2>2. Taken(want[g].slot) + want[g].party <= Capacity[want[g].slot]
    BY <1>3 DEF RoomIsThere
  <2>3. Capacity[want[g].slot] \in Nat
    BY <2>1
  <2>4. want'[g] = want[g]
    BY <1>3
  <2>5. Taken(want[g].slot)' <= Taken(want'[g].slot)
    BY <1>1
  <2>6. Taken(want[g].slot)' \in Nat /\ Taken(want[g].slot) \in Nat
    BY <1>1
  <2> QED
    BY <2>1, <2>2, <2>3, <2>4, <2>5, <2>6
<1> QED
  BY <1>2, <1>3 DEF RoomIsThere

LEMMA RoomStep ==
  ASSUME TypeOK, TurnsAsk, LocksHeld, RoomIsThere, NeverOversold, [Next]_reservation_vars
  PROVE  RoomIsThere' /\ NeverOversold'
<1> USE TablesAssumption
<1>1. ASSUME UNCHANGED status, UNCHANGED <<pc, want, room>> \/ \E g \in Guests : Ask(g) \/ Lock(g) \/ EndTurn(g)
      PROVE  RoomIsThere' /\ NeverOversold'
  BY <1>1, RoomKept DEF Ask, Lock, EndTurn, TypeOK, TablesTypeOK
<1>2. ASSUME NEW g \in Guests, Look(g)
      PROVE  RoomIsThere' /\ NeverOversold'
  <2>1. UNCHANGED <<status, want>>
    BY <1>2 DEF Look, table_vars
  <2>2. \A s : Taken(s)' = Taken(s) /\ Taken(s) \in Nat
    BY <2>1, CoversFinite DEF Taken, Covers
  <2>3. NeverOversold'
    BY <2>2 DEF NeverOversold
  <2>4. want[g].party \in Nat /\ Capacity[want[g].slot] \in Nat
    BY <1>2, RequestType DEF Look, TurnsAsk
  <2>5. ASSUME NEW h \in Guests, pc'[h] = "looked", room'[h]
        PROVE  Taken(want[h].slot) + want[h].party <= Capacity[want[h].slot]
    <3>1. CASE h = g
      <4>1. want[g].party <= Capacity[want[g].slot] - Taken(want[g].slot)
        BY <1>2, <2>5, <3>1 DEF Look, TypeOK, TablesTypeOK
      <4>2. Taken(want[g].slot) \in Nat
        BY CoversFinite
      <4> QED
        BY <2>4, <3>1, <4>1, <4>2
    <3>2. CASE h # g
      BY <1>2, <2>5, <3>2 DEF Look, TypeOK, TablesTypeOK, RoomIsThere
    <3> QED
      BY <3>1, <3>2
  <2> QED
    BY <2>1, <2>2, <2>3, <2>5 DEF RoomIsThere
<1>3. ASSUME NEW g \in Guests, Book(g)
      PROVE  RoomIsThere' /\ NeverOversold'
  <2> DEFINE r == want[g]
  <2>1. r \in Requests /\ r.slot \in Slots /\ r.party \in Nat
    BY <1>3, RequestType DEF Book, TurnsAsk
  <2>2. Taken(r.slot) + r.party <= Capacity[r.slot]
    BY <1>3 DEF Book, RoomIsThere
  <2>3. ASSUME NEW s
        PROVE  /\ Taken(s)' \in Nat /\ Taken(s) \in Nat
               /\ s = r.slot => Taken(s)' <= Taken(s) + r.party
               /\ s # r.slot => Taken(s)' <= Taken(s)
    <3>1. NewStatus(r) \in Statuses
      BY NewStatusType DEF Statuses
    <3>2. status' = [status EXCEPT ![r] = NewStatus(r)]
      BY <1>3 DEF Book, Promise
    <3> QED
      BY <2>1, <3>1, <3>2, CoversOfBooking, CoversFinite DEF TypeOK
  <2>4. NeverOversold'
    BY <2>1, <2>2, <2>3 DEF NeverOversold
  <2>5. ASSUME NEW h \in Guests, pc'[h] = "looked", room'[h]
        PROVE  /\ want'[h] = want[h]
               /\ Taken(want[h].slot)' + want[h].party <= Capacity[want[h].slot]
    <3>1. h # g /\ pc[h] = "looked" /\ room[h] /\ want'[h] = want[h]
      BY <1>3, <2>5 DEF Book, EndTurn, TypeOK, TablesTypeOK
    <3>2. want[h].slot # r.slot
      BY <1>3, <3>1, OneTurnPerSlot DEF Book
    <3>3. Taken(want[h].slot) + want[h].party <= Capacity[want[h].slot]
      BY <3>1 DEF RoomIsThere
    <3>4. want[h].party \in Nat /\ Capacity[want[h].slot] \in Nat
      BY <3>1, RequestType DEF TurnsAsk
    <3> QED
      BY <2>3, <3>1, <3>2, <3>3, <3>4
  <2> QED
    BY <2>4, <2>5 DEF RoomIsThere
<1>4. ASSUME NEW r \in Requests, UNCHANGED turn_vars,
             GuestCancels(r) \/ VenueCancels(r) \/ Confirm(r) \/ Door(r)
      PROVE  RoomIsThere' /\ NeverOversold'
  <2>1. UNCHANGED <<pc, want, room>>
    BY <1>4 DEF turn_vars
  <2>2. \A q \in Requests : status'[q] \in Holding => status[q] \in Holding
    BY <1>4 DEF GuestCancels, VenueCancels, Confirm, Door, TypeOK, TablesTypeOK, Holding, Active
  <2> QED
    BY <2>1, <2>2, RoomKept
<1> QED
  BY <1>1, <1>2, <1>3, <1>4
  DEF Next, Ask, Lock, Replay, Refuse, FailTurn, TimePasses, reservation_vars, table_vars, turn_vars

-----------------------------------------------------------------------------
(* Reminders. *)

\* Only a guest's own turn makes its reservations.
LEMMA NewStep ==
  ASSUME TypeOK, TurnsAsk, NewIsNew, [Next]_reservation_vars
  PROVE  NewIsNew'
<1>1. ASSUME UNCHANGED status, UNCHANGED <<pc, want, seen>> \/ \E g \in Guests : Ask(g) \/ Lock(g) \/ EndTurn(g)
      PROVE  NewIsNew'
  BY <1>1 DEF Ask, Lock, EndTurn, TypeOK, TablesTypeOK, NewIsNew
<1>2. ASSUME NEW g \in Guests, Look(g)
      PROVE  NewIsNew'
  BY <1>2 DEF Look, TypeOK, TablesTypeOK, NewIsNew, table_vars
<1>3. ASSUME NEW g \in Guests, Book(g)
      PROVE  NewIsNew'
  <2> SUFFICES ASSUME NEW h \in Guests, pc'[h] = "looked", seen'[h] = "none"
               PROVE  status'[want'[h]] = "none"
    BY DEF NewIsNew
  <2>1. h # g /\ pc[h] = "looked" /\ seen[h] = "none" /\ want'[h] = want[h]
    BY <1>3 DEF Book, EndTurn, TypeOK, TablesTypeOK
  <2>2. want[h] \in Requests /\ want[g] \in Requests /\ want[h] # want[g]
    BY <1>3, <2>1 DEF Book, TurnsAsk
  <2> QED
    BY <1>3, <2>1, <2>2 DEF Book, Promise, NewIsNew, TypeOK, TablesTypeOK
<1>4. ASSUME NEW r \in Requests, UNCHANGED turn_vars,
             GuestCancels(r) \/ VenueCancels(r) \/ Confirm(r) \/ Door(r)
      PROVE  NewIsNew'
  <2>1. UNCHANGED <<pc, want, seen>>
    BY <1>4 DEF turn_vars
  <2>2. \A q \in Requests : status[q] = "none" => status'[q] = "none"
    BY <1>4 DEF GuestCancels, VenueCancels, Confirm, Door, TypeOK, TablesTypeOK, Active
  <2> QED
    BY <2>1, <2>2 DEF NewIsNew, TurnsAsk
<1> QED
  BY <1>1, <1>2, <1>3, <1>4
  DEF Next, Ask, Lock, Replay, Refuse, FailTurn, TimePasses, reservation_vars, table_vars, turn_vars

\* No reservation is ever unmade.
LEMMA KnownStep ==
  ASSUME TypeOK, TurnsAsk, KnownIsKnown, [Next]_reservation_vars
  PROVE  KnownIsKnown'
<1>1. ASSUME UNCHANGED status, UNCHANGED <<pc, want, seen>> \/ \E g \in Guests : Ask(g) \/ Lock(g) \/ EndTurn(g)
      PROVE  KnownIsKnown'
  BY <1>1 DEF Ask, Lock, EndTurn, TypeOK, KnownIsKnown
<1>2. ASSUME NEW g \in Guests, Look(g)
      PROVE  KnownIsKnown'
  BY <1>2 DEF Look, TypeOK, KnownIsKnown, table_vars
<1>3. ASSUME NEW g \in Guests, Book(g)
      PROVE  KnownIsKnown'
  <2> SUFFICES ASSUME NEW h \in Guests, pc'[h] = "looked", seen'[h] # "none"
               PROVE  status'[want'[h]] # "none"
    BY DEF KnownIsKnown
  <2>1. h # g /\ pc[h] = "looked" /\ seen[h] # "none" /\ want'[h] = want[h]
    BY <1>3 DEF Book, EndTurn, TypeOK
  <2>2. want[h] \in Requests /\ want[g] \in Requests /\ want[h] # want[g]
    BY <1>3, <2>1 DEF Book, TurnsAsk
  <2> QED
    BY <1>3, <2>1, <2>2 DEF Book, Promise, KnownIsKnown, TypeOK, TablesTypeOK
<1>4. ASSUME NEW r \in Requests, UNCHANGED turn_vars,
             GuestCancels(r) \/ VenueCancels(r) \/ Confirm(r) \/ Door(r)
      PROVE  KnownIsKnown'
  <2>1. UNCHANGED <<pc, want, seen>>
    BY <1>4 DEF turn_vars
  <2>2. \A q \in Requests : status[q] # "none" => status'[q] # "none"
    BY <1>4 DEF GuestCancels, VenueCancels, Confirm, Door, TypeOK, TablesTypeOK
  <2> QED
    BY <2>1, <2>2 DEF KnownIsKnown, TurnsAsk
<1> QED
  BY <1>1, <1>2, <1>3, <1>4
  DEF Next, Ask, Lock, Replay, Refuse, FailTurn, TimePasses, reservation_vars, table_vars, turn_vars

\* One reservation and its reminder: what booking, approval, cancellation and the
\* door leave behind.
LEMMA ReminderStep ==
  ASSUME TypeOK, TurnsAsk, NewIsNew, RemindersHaveTables, RemindersFollowTables, [Next]_reservation_vars
  PROVE  RemindersHaveTables' /\ RemindersFollowTables'
<1>1. ASSUME UNCHANGED <<status, reminder, when>>
      PROVE  RemindersHaveTables' /\ RemindersFollowTables'
  BY <1>1 DEF RemindersHaveTables, RemindersFollowTables, Active
<1>2. ASSUME NEW g \in Guests, Book(g)
      PROVE  RemindersHaveTables' /\ RemindersFollowTables'
  <2>1. want[g] \in Requests /\ status[want[g]] = "none" /\ reminder[want[g]] = "none"
    BY <1>2 DEF Book, TurnsAsk, NewIsNew, RemindersHaveTables
  <2>2. /\ status' = [status EXCEPT ![want[g]] = NewStatus(want[g])]
        /\ Schedule(want[g])
        /\ UNCHANGED when
    BY <1>2 DEF Book, Promise
  <2> QED
    BY <2>1, <2>2, NewStatusType
    DEF Schedule, TypeOK, TablesTypeOK, RemindersHaveTables, RemindersFollowTables
<1>3. ASSUME NEW r \in Requests, Confirm(r)
      PROVE  RemindersHaveTables' /\ RemindersFollowTables'
  BY <1>3 DEF Confirm, Schedule, TypeOK, TablesTypeOK, RemindersHaveTables, RemindersFollowTables
<1>4. ASSUME NEW r \in Requests, GuestCancels(r) \/ VenueCancels(r) \/ Door(r)
      PROVE  RemindersHaveTables' /\ RemindersFollowTables'
  <2>1. /\ \E x \in {"cancelled", "seated", "completed", "no_show"} : status' = [status EXCEPT ![r] = x]
        /\ Unschedule(r)
        /\ UNCHANGED when
        /\ status[r] # "none"
    BY <1>4 DEF GuestCancels, VenueCancels, Door, Active
  <2> QED
    BY <2>1 DEF Unschedule, TypeOK, TablesTypeOK, RemindersHaveTables, RemindersFollowTables
<1>5. ASSUME NEW s \in Slots, TimePasses(s)
      PROVE  RemindersHaveTables' /\ RemindersFollowTables'
  <2>1. UNCHANGED <<status, reminder>>
    BY <1>5 DEF TimePasses, table_vars
  <2>2. \A u \in Slots : when'[u] = "ahead" => when[u] = "ahead"
    BY <1>5 DEF TimePasses, Phases, TypeOK, TablesTypeOK
  <2> QED
    BY <2>1, <2>2, RequestType DEF RemindersHaveTables, RemindersFollowTables
<1> QED
  BY <1>1, <1>2, <1>3, <1>4, <1>5
  DEF Next, Ask, Lock, Look, Replay, Refuse, FailTurn, reservation_vars, table_vars

-----------------------------------------------------------------------------
(* The theorems. *)

LEMMA IInvInit == Init => IInv
<1> SUFFICES ASSUME Init
             PROVE  IInv
  OBVIOUS
<1> USE TablesAssumption
<1>1. TypeOK
  BY TypeInit
<1>2. TurnsAsk /\ LocksHeld /\ RoomIsThere /\ NewIsNew /\ KnownIsKnown
  BY DEF Init, InitTables, TurnsAsk, LocksHeld, RoomIsThere, NewIsNew, KnownIsKnown
<1>3. RemindersHaveTables /\ RemindersFollowTables
  BY DEF Init, InitTables, RemindersHaveTables, RemindersFollowTables
<1>4. NeverOversold
  <2>1. \A s : Covers(s) = {}
    BY DEF Init, InitTables, Covers, Holding
  <2>2. \A s : Taken(s) = 0
    BY <2>1, FS_EmptySet DEF Taken
  <2> QED
    BY <2>2 DEF NeverOversold
<1> QED
  BY <1>1, <1>2, <1>3, <1>4 DEF IInv

\* The inductive invariant: turns past the lock hold it, what they counted is still
\* there, what was new is new, and reminders follow the tables.
THEOREM TablesInvariant == Spec => []IInv
<1>1. IInv /\ [Next]_reservation_vars => IInv'
  BY TypeStep, LocksStep, RoomStep, NewStep, KnownStep, ReminderStep DEF IInv
<1> QED
  BY <1>1, IInvInit, PTL DEF Spec

\* Tables, turns and locks keep their types.
THEOREM TablesTyped == Spec => []TypeOK
<1>1. IInv => TypeOK
  BY DEF IInv
<1> QED
  BY <1>1, TablesInvariant, PTL

\* No slot is ever oversold: any guests, capacities, parties and cancellations
\* (kadensio-floor-plan.ts:16-82).
THEOREM NoTableSoldTwice == Spec => []NeverOversold
<1>1. IInv => NeverOversold
  BY DEF IInv
<1> QED
  BY <1>1, TablesInvariant, PTL

\* A reminder waits exactly for the confirmed tables (reservation-service.ts:163-166,
\* dashboard/reservation-service.ts:212, 241, 281).
THEOREM RemindersFaithful == Spec => []RemindersFollowTables
<1>1. IInv => RemindersFollowTables
  BY DEF IInv
<1> QED
  BY <1>1, TablesInvariant, PTL

-----------------------------------------------------------------------------
(* The refinement. *)

\* Every step of the code's booking is a step of Tables, or changes no table.
LEMMA StepImplements ==
  ASSUME IInv, [Next]_reservation_vars
  PROVE  [TablesNext]_table_vars
<1> USE DEF TablesNext
<1>1. ASSUME UNCHANGED table_vars
      PROVE  [TablesNext]_table_vars
  BY <1>1
<1>2. ASSUME NEW g \in Guests, Book(g)
      PROVE  [TablesNext]_table_vars
  <2> DEFINE r == want[g]
  <2>1. r \in Requests
    BY <1>2 DEF Book, IInv, TurnsAsk
  <2>2. status[r] = "none"
    BY <1>2 DEF Book, IInv, NewIsNew
  <2>3. Taken(r.slot) + r.party <= Capacity[r.slot]
    BY <1>2 DEF Book, IInv, RoomIsThere
  <2>4. Promise(r)
    BY <1>2 DEF Book
  <2>5. BookTable(r)
    BY <2>2, <2>3, <2>4 DEF BookTable
  <2> QED
    BY <2>1, <2>5
<1>3. ASSUME NEW g \in Guests, Replay(g)
      PROVE  [TablesNext]_table_vars
  <2> DEFINE r == want[g]
  <2>1. r \in Requests /\ r.guest = g
    BY <1>3 DEF Replay, IInv, TurnsAsk
  <2>2. status[r] # "none"
    BY <1>3 DEF Replay, IInv, KnownIsKnown
  <2>3. \E s \in {"in_progress", "site_visit_scheduled"} : stage' = [stage EXCEPT ![r.guest] = s]
    <3>1. StageOf(Answer(g)) \in {"in_progress", "site_visit_scheduled"}
      BY DEF StageOf
    <3> QED
      BY <1>3, <2>1, <3>1 DEF Replay
  <2>4. RepeatBooking(r)
    BY <1>3, <2>2, <2>3 DEF Replay, RepeatBooking
  <2> QED
    BY <2>1, <2>4
<1>4. ASSUME NEW g \in Guests, Ask(g) \/ Lock(g) \/ Look(g) \/ Refuse(g) \/ FailTurn(g)
      PROVE  UNCHANGED table_vars
  BY <1>4 DEF Ask, Lock, Look, Refuse, FailTurn, table_vars
<1> QED
  BY <1>1, <1>2, <1>3, <1>4 DEF Next, reservation_vars

\* However turns and the venue interleave, a table is promised in one step, while
\* there is room for it (kadensio-floor-plan.ts:16-82).
THEOREM Implements == Spec => ImplementsTables
<1>1. Init => InitTables
  BY DEF Init
<1>2. IInv /\ [Next]_reservation_vars => [TablesNext]_table_vars
  BY StepImplements
<1> QED
  BY <1>1, <1>2, TablesInvariant, PTL DEF Spec, ImplementsTables, TablesSpec

-----------------------------------------------------------------------------
(* What becomes of the reminders. *)


\* A reason not to remind of a table that does not go away.
Done(r) ==
  \/ marked[r]
  \/ status[r] \notin {"none", "requested", "confirmed"}
  \/ ~Upcoming(r.slot)

\* A worker at work has a job.
WorkersHaveJobs == \A w \in Workers : at[w] # "idle" => job[w] \in Requests

\* A job that is claimed, or was ever scheduled, is of a table confirmed once.
JobsComeLate ==
  /\ \A r \in Requests : reminder[r] # "none" => status[r] \notin {"none", "requested"}
  /\ \A w \in Workers : at[w] # "idle" => reminder[job[w]] # "none"

\* A worker completes a job only when its table is done with.
EndsAreDue == \A w \in Workers : at[w] = "completed" => Done(job[w])

\* What is marked as sent was asked for, and so is what is about to be marked.
MarksHaveMessages ==
  /\ \A r \in Requests : marked[r] => sent[r] # {}
  /\ \A w \in Workers : at[w] = "mark" => sent[job[w]] # {}

RemindersIInv ==
  /\ TablesTypeOK
  /\ RemindersTypeOK
  /\ WorkersHaveJobs
  /\ JobsComeLate
  /\ EndsAreDue
  /\ MarksHaveMessages
  /\ NobodyForgotten

\* The transactions on a reservation.
TableStep(r) ==
  BookTable(r) \/ RepeatBooking(r) \/ GuestCancels(r) \/ VenueCancels(r) \/ Confirm(r) \/ Door(r)

-----------------------------------------------------------------------------
(* What the transactions on tables do to a reservation and its job. *)

LEMMA TableStepType ==
  ASSUME TablesTypeOK, NEW r \in Requests, TableStep(r)
  PROVE  TablesTypeOK' /\ UNCHANGED when
<1> USE RequestType DEF TablesTypeOK
<1>1. CASE BookTable(r)
  BY <1>1 DEF BookTable, Promise, Schedule, NewStatus, StageOf, Statuses, JobStatuses, Stages
<1>2. CASE RepeatBooking(r)
  BY <1>2 DEF RepeatBooking, Stages
<1>3. CASE GuestCancels(r) \/ VenueCancels(r)
  BY <1>3 DEF GuestCancels, VenueCancels, Unschedule, StageAfterCancel, Statuses, JobStatuses, Stages
<1>4. CASE Confirm(r)
  BY <1>4 DEF Confirm, Schedule, StageOf, Statuses, JobStatuses, Stages
<1>5. CASE Door(r)
  <2>1. status' \in [Requests -> Statuses] /\ UNCHANGED when
    BY <1>5 DEF Door, Statuses
  <2>2. reminder' \in [Requests -> JobStatuses]
    BY <1>5 DEF Door, Unschedule, JobStatuses
  <2>3. stage' \in [Guests -> Stages]
    BY <1>5 DEF Door, Stages
  <2> QED
    BY <2>1, <2>2, <2>3
<1> QED
  BY <1>1, <1>2, <1>3, <1>4, <1>5 DEF TableStep

\* A table that becomes confirmed has no job yet, and gets one if it is far ahead;
\* a table that is cancelled or taken loses the one that waits.
LEMMA TableStepEffect ==
  ASSUME TablesTypeOK, JobsComeLate, NEW r \in Requests, TableStep(r), NEW q \in Requests
  PROVE  /\ status[q] \notin {"none", "requested"} /\ status'[q] = "confirmed" => status[q] = "confirmed"
         /\ status[q] \notin {"none", "requested"} => status'[q] \notin {"none", "requested"}
         /\ reminder[q] # "none" => reminder'[q] # "none"
         /\ reminder'[q] # "none" => status'[q] \notin {"none", "requested"}
         /\ status'[q] = "confirmed" /\ status[q] = "confirmed" => reminder'[q] = reminder[q]
         /\ status'[q] = "confirmed" /\ status[q] # "confirmed" =>
              reminder'[q] = IF when[q.slot] = "ahead" THEN "pending" ELSE "none"
<1> USE DEF TablesTypeOK
<1>1. CASE q # r
  <2>1. status'[q] = status[q] /\ reminder'[q] = reminder[q]
    <3>1. CASE BookTable(r) \/ Confirm(r)
      BY <1>1, <3>1 DEF BookTable, Promise, Confirm, Schedule
    <3>2. CASE RepeatBooking(r)
      BY <3>2 DEF RepeatBooking
    <3>3. CASE GuestCancels(r) \/ VenueCancels(r) \/ Door(r)
      BY <1>1, <3>3 DEF GuestCancels, VenueCancels, Door, Unschedule
    <3> QED
      BY <3>1, <3>2, <3>3 DEF TableStep
  <2> QED
    BY <2>1 DEF JobsComeLate
<1>2. CASE q = r
  <2>1. CASE BookTable(r)
    BY <1>2, <2>1 DEF BookTable, Promise, NewStatus, Schedule, JobsComeLate
  <2>2. CASE RepeatBooking(r)
    BY <2>2 DEF RepeatBooking, JobsComeLate
  <2>3. CASE GuestCancels(r) \/ VenueCancels(r)
    BY <1>2, <2>3 DEF GuestCancels, VenueCancels, Active, Unschedule, JobsComeLate
  <2>4. CASE Confirm(r)
    BY <1>2, <2>4 DEF Confirm, Schedule, JobsComeLate
  <2>5. CASE Door(r)
    <3>1. PICK s \in {"seated", "completed", "no_show"} : status' = [status EXCEPT ![r] = s]
      BY <2>5 DEF Door
    <3>2. status[r] \in {"seated", "confirmed"} /\ Unschedule(r)
      BY <2>5 DEF Door
    <3> QED
      BY <1>2, <3>1, <3>2 DEF Unschedule, JobsComeLate
  <2> QED
    BY <1>2, <2>1, <2>2, <2>3, <2>4, <2>5 DEF TableStep
<1> QED
  BY <1>1, <1>2

\* They keep the invariant: they know nothing of messages and workers.
LEMMA TableStepKeeps ==
  ASSUME RemindersIInv, NEW r \in Requests, TableStep(r),
         window' \in [Guests -> BOOLEAN],
         UNCHANGED <<approved, sent, marked, lease_vars, run_vars, faults>>
  PROVE  RemindersIInv'
<1>1. TablesTypeOK' /\ UNCHANGED when
  BY TableStepType DEF RemindersIInv
<1>2. RemindersTypeOK'
  BY DEF RemindersIInv, RemindersTypeOK, lease_vars, run_vars
<1>3. WorkersHaveJobs' /\ MarksHaveMessages'
  BY DEF RemindersIInv, WorkersHaveJobs, MarksHaveMessages, run_vars
<1> DEFINE Effect(q) ==
       /\ status[q] \notin {"none", "requested"} /\ status'[q] = "confirmed" => status[q] = "confirmed"
       /\ status[q] \notin {"none", "requested"} => status'[q] \notin {"none", "requested"}
       /\ reminder[q] # "none" => reminder'[q] # "none"
       /\ reminder'[q] # "none" => status'[q] \notin {"none", "requested"}
       /\ status'[q] = "confirmed" /\ status[q] = "confirmed" => reminder'[q] = reminder[q]
       /\ status'[q] = "confirmed" /\ status[q] # "confirmed" =>
            reminder'[q] = IF when[q.slot] = "ahead" THEN "pending" ELSE "none"
<1>4. \A q \in Requests : Effect(q)
  BY TableStepEffect DEF RemindersIInv
<1>5. JobsComeLate'
  BY <1>4 DEF RemindersIInv, JobsComeLate, WorkersHaveJobs, run_vars
<1>6. EndsAreDue'
  BY <1>1, <1>4 DEF RemindersIInv, EndsAreDue, Done, Upcoming, WorkersHaveJobs, run_vars
<1>7. NobodyForgotten'
  <2> SUFFICES ASSUME NEW q \in Requests, status'[q] = "confirmed", Upcoming(q.slot)
               PROVE  IF marked[q] THEN sent[q] # {}
                      ELSE \/ reminder'[q] \in {"pending", "processing", "dead_lettered"}
                           \/ reminder'[q] = "none" /\ when[q.slot] = "soon"
    BY <1>1 DEF NobodyForgotten, Upcoming
  <2>1. CASE status[q] = "confirmed"
    BY <1>4, <2>1 DEF RemindersIInv, NobodyForgotten
  <2>2. CASE status[q] # "confirmed"
    BY <1>4, <2>2 DEF RemindersIInv, MarksHaveMessages, Upcoming
  <2> QED
    BY <2>1, <2>2
<1> QED
  BY <1>1, <1>2, <1>3, <1>5, <1>6, <1>7 DEF RemindersIInv

-----------------------------------------------------------------------------
(* The worker, the window and time. *)

\* A claim gives the worker a job that was scheduled, and nothing else.
LEMMA ClaimKeeps ==
  ASSUME RemindersIInv, NEW w \in Workers, NEW r \in Requests, Claim(w, r)
  PROVE  RemindersIInv'
<1> USE DEF Claim, OnlyJob
<1>1. TablesTypeOK'
  BY DEF RemindersIInv, TablesTypeOK, JobStatuses
<1>2. RemindersTypeOK'
  BY DEF RemindersIInv, RemindersTypeOK, sending_vars
<1>3. WorkersHaveJobs' /\ EndsAreDue' /\ MarksHaveMessages'
  BY DEF RemindersIInv, RemindersTypeOK, WorkersHaveJobs, EndsAreDue, Done, Upcoming, MarksHaveMessages, sending_vars
<1>4. JobsComeLate'
  BY DEF RemindersIInv, TablesTypeOK, RemindersTypeOK, WorkersHaveJobs, JobsComeLate
<1>5. NobodyForgotten'
  BY DEF RemindersIInv, TablesTypeOK, NobodyForgotten, Upcoming, sending_vars
<1> QED
  BY <1>1, <1>2, <1>3, <1>4, <1>5 DEF RemindersIInv

LEMMA ReadKeeps ==
  ASSUME RemindersIInv, NEW w \in Workers, Read(w)
  PROVE  RemindersIInv'
<1> USE DEF Read, OnlyJob
<1>1. TablesTypeOK' /\ JobsComeLate' /\ NobodyForgotten'
  BY DEF RemindersIInv, TablesTypeOK, RemindersTypeOK, JobsComeLate, NobodyForgotten, Upcoming, sending_vars
<1>2. RemindersTypeOK'
  <2>1. at' \in [Workers -> {"idle", "read", "send", "mark", "completed", "retryable"}]
    BY DEF RemindersIInv, RemindersTypeOK
  <2>2. kind' \in [Workers -> {"none", "text", "template", "late"}]
    BY DEF RemindersIInv, RemindersTypeOK
  <2> QED
    BY <2>1, <2>2 DEF RemindersIInv, RemindersTypeOK, sending_vars, lease_vars
<1>3. WorkersHaveJobs' /\ MarksHaveMessages'
  BY DEF RemindersIInv, RemindersTypeOK, WorkersHaveJobs, MarksHaveMessages, sending_vars
<1>4. EndsAreDue'
  <2>1. Skip(job[w]) => Done(job[w])
    BY DEF Skip, Done, RemindersIInv, WorkersHaveJobs, JobsComeLate
  <2> QED
    BY <2>1 DEF RemindersIInv, RemindersTypeOK, EndsAreDue, Done, Upcoming, sending_vars
<1> QED
  BY <1>1, <1>2, <1>3, <1>4 DEF RemindersIInv

LEMMA SendKeeps ==
  ASSUME RemindersIInv, NEW w \in Workers, Send(w)
  PROVE  RemindersIInv'
<1> USE DEF Send, OnlyJob
<1>1. job[w] \in Requests
  BY DEF RemindersIInv, WorkersHaveJobs
<1>2. /\ sent' \in [Requests -> SUBSET {"text", "template"}]
      /\ \A r \in Requests : sent[r] # {} => sent'[r] # {}
      /\ at'[w] = "mark" => sent'[job[w]] # {}
  <2> DEFINE r == job[w]
             new == sent[r] \cup {kind[w]}
  <2>1. CASE kind[w] \in {"text", "template"} /\ sent' = [sent EXCEPT ![r] = new]
    <3>1. new \in SUBSET {"text", "template"} /\ new # {}
      BY <1>1, <2>1 DEF RemindersIInv, RemindersTypeOK
    <3> HIDE DEF new
    <3> QED
      BY <1>1, <2>1, <3>1 DEF RemindersIInv, RemindersTypeOK
  <2>2. CASE sent' = sent /\ at'[w] = "retryable"
    BY <2>2 DEF RemindersIInv, RemindersTypeOK
  <2>3. at \in [Workers -> {"idle", "read", "send", "mark", "completed", "retryable"}]
    BY DEF RemindersIInv, RemindersTypeOK
  <2> QED
    BY <2>1, <2>2, <2>3
<1>3. at' \in [Workers -> {"idle", "read", "send", "mark", "completed", "retryable"}]
  BY DEF RemindersIInv, RemindersTypeOK
<1>4. \A v \in Workers : v # w => at'[v] = at[v]
  BY DEF RemindersIInv, RemindersTypeOK
<1>5. at'[w] \in {"mark", "retryable"}
  BY DEF RemindersIInv, RemindersTypeOK
<1>6. TablesTypeOK' /\ RemindersTypeOK'
  BY <1>2, <1>3 DEF RemindersIInv, TablesTypeOK, RemindersTypeOK, lease_vars
<1>7. WorkersHaveJobs' /\ JobsComeLate' /\ EndsAreDue'
  BY <1>4, <1>5 DEF RemindersIInv, WorkersHaveJobs, JobsComeLate, EndsAreDue, Done, Upcoming
<1>8. MarksHaveMessages'
  BY <1>2, <1>4 DEF RemindersIInv, MarksHaveMessages, WorkersHaveJobs
<1>9. NobodyForgotten'
  BY <1>2 DEF RemindersIInv, NobodyForgotten, Upcoming
<1> QED
  BY <1>6, <1>7, <1>8, <1>9 DEF RemindersIInv

LEMMA MarkKeeps ==
  ASSUME RemindersIInv, NEW w \in Workers, Mark(w)
  PROVE  RemindersIInv'
<1> USE DEF Mark, OnlyJob
<1>1. job[w] \in Requests /\ sent[job[w]] # {}
  BY DEF RemindersIInv, WorkersHaveJobs, MarksHaveMessages
<1>2. TablesTypeOK' /\ RemindersTypeOK'
  BY DEF RemindersIInv, TablesTypeOK, RemindersTypeOK, lease_vars
<1>3. WorkersHaveJobs' /\ JobsComeLate'
  BY DEF RemindersIInv, RemindersTypeOK, WorkersHaveJobs, JobsComeLate
<1>4. EndsAreDue'
  BY <1>1 DEF RemindersIInv, RemindersTypeOK, WorkersHaveJobs, EndsAreDue, Done, Upcoming
<1>5. MarksHaveMessages' /\ NobodyForgotten'
  BY <1>1 DEF RemindersIInv, RemindersTypeOK, MarksHaveMessages, NobodyForgotten, Upcoming
<1> QED
  BY <1>2, <1>3, <1>4, <1>5 DEF RemindersIInv

\* The end of an attempt: whoever passes the fence completes for a good reason.
LEMMA FinishKeeps ==
  ASSUME RemindersIInv, NEW w \in Workers, Finish(w)
  PROVE  RemindersIInv'
<1> USE DEF Finish, OnlyJob
<1>1. job[w] \in Requests /\ reminder[job[w]] # "none"
  BY DEF RemindersIInv, WorkersHaveJobs, JobsComeLate
<1>2. Outcome(w) \in {"completed", "pending", "dead_lettered"}
  BY DEF Outcome
<1>3. Outcome(w) = "completed" => Done(job[w])
  BY DEF Outcome, RemindersIInv, EndsAreDue
<1>4. /\ reminder' \in [Requests -> JobStatuses]
      /\ \A r \in Requests : \/ reminder'[r] = reminder[r]
                             \/ reminder[r] # "none" /\ reminder'[r] \in {"pending", "dead_lettered"}
                             \/ reminder[r] # "none" /\ reminder'[r] = "completed" /\ Done(r)
  BY <1>1, <1>2, <1>3 DEF RemindersIInv, TablesTypeOK, JobStatuses
<1>5. TablesTypeOK'
  BY <1>4 DEF RemindersIInv, TablesTypeOK
<1>6. RemindersTypeOK'
  BY DEF RemindersIInv, RemindersTypeOK, sending_vars
<1>7. WorkersHaveJobs' /\ EndsAreDue' /\ MarksHaveMessages'
  BY DEF RemindersIInv, RemindersTypeOK, WorkersHaveJobs, EndsAreDue, Done, Upcoming, MarksHaveMessages, sending_vars
<1>8. JobsComeLate'
  BY <1>4 DEF RemindersIInv, RemindersTypeOK, WorkersHaveJobs, JobsComeLate
<1>9. NobodyForgotten'
  BY <1>4 DEF RemindersIInv, NobodyForgotten, Done, Upcoming, sending_vars
<1> QED
  BY <1>5, <1>6, <1>7, <1>8, <1>9 DEF RemindersIInv

\* A worker that fails or dies, a lease that lapses, the window: no job changes.
LEMMA FaultKeeps ==
  ASSUME RemindersIInv,
         (\E w \in Workers : StatementFails(w) \/ Crash(w))
           \/ (\E r \in Requests : Lapse(r))
           \/ (\E g \in Guests : GuestWrites(g) \/ WindowCloses(g))
  PROVE  RemindersIInv'
<1>1. UNCHANGED <<table_vars, approved, sent, marked>>
  BY DEF StatementFails, Crash, Lapse, GuestWrites, WindowCloses, OnlyJob, table_vars, sending_vars
<1>2. RemindersTypeOK'
  <2>1. CASE \E w \in Workers : StatementFails(w) \/ Crash(w)
    BY <2>1, RemindersAssumption DEF RemindersIInv, RemindersTypeOK, StatementFails, Crash, sending_vars, lease_vars
  <2>2. CASE \E r \in Requests : Lapse(r)
    BY <2>2, RemindersAssumption DEF RemindersIInv, RemindersTypeOK, Lapse, sending_vars, run_vars
  <2>3. CASE \E g \in Guests : GuestWrites(g)
    BY <2>3 DEF RemindersIInv, RemindersTypeOK, GuestWrites, Opens, lease_vars, run_vars
  <2>4. CASE \E g \in Guests : WindowCloses(g)
    BY <2>4 DEF RemindersIInv, RemindersTypeOK, WindowCloses, lease_vars
  <2> QED
    BY <2>1, <2>2, <2>3, <2>4
<1>3. \A w \in Workers :
        \/ at'[w] = at[w] /\ job'[w] = job[w]
        \/ at'[w] = "retryable" /\ at[w] # "idle" /\ job'[w] = job[w]
        \/ at'[w] = "idle"
  BY DEF RemindersIInv, RemindersTypeOK, StatementFails, Crash, Lapse, GuestWrites, WindowCloses, run_vars
<1>4. TablesTypeOK' /\ NobodyForgotten'
  BY <1>1 DEF RemindersIInv, TablesTypeOK, NobodyForgotten, Upcoming, table_vars
<1>5. WorkersHaveJobs' /\ JobsComeLate' /\ EndsAreDue' /\ MarksHaveMessages'
  BY <1>1, <1>3
  DEF RemindersIInv, WorkersHaveJobs, JobsComeLate, EndsAreDue, MarksHaveMessages, Done, Upcoming, table_vars
<1> QED
  BY <1>2, <1>4, <1>5 DEF RemindersIInv

LEMMA TimeKeeps ==
  ASSUME RemindersIInv, NEW s \in Slots, TimePasses(s), Unreminded
  PROVE  RemindersIInv'
<1> USE DEF TimePasses, Unreminded, reminder_vars, sending_vars, lease_vars, run_vars
<1>1. /\ when' \in [Slots -> {"ahead", "soon", "started", "over"}]
      /\ \A u \in Slots : when'[u] \in {"ahead", "soon"} => when[u] \in {"ahead", "soon"}
      /\ \A u \in Slots : when'[u] # when[u] => when'[u] # "ahead"
      /\ \A u \in Slots : when[u] = "soon" /\ when'[u] \in {"ahead", "soon"} => when'[u] = "soon"
  BY DEF RemindersIInv, TablesTypeOK, Phases
<1>2. TablesTypeOK' /\ RemindersTypeOK'
  BY <1>1 DEF RemindersIInv, TablesTypeOK, RemindersTypeOK
<1>3. WorkersHaveJobs' /\ JobsComeLate' /\ MarksHaveMessages'
  BY DEF RemindersIInv, WorkersHaveJobs, JobsComeLate, MarksHaveMessages
<1>4. EndsAreDue'
  BY <1>1, RequestType DEF RemindersIInv, WorkersHaveJobs, EndsAreDue, Done, Upcoming
<1>5. NobodyForgotten'
  BY <1>1, RequestType DEF RemindersIInv, NobodyForgotten, Upcoming
<1> QED
  BY <1>2, <1>3, <1>4, <1>5 DEF RemindersIInv

-----------------------------------------------------------------------------
(* The theorems. *)

LEMMA RemindersIInvInit == RemindersInit => RemindersIInv
<1> SUFFICES ASSUME RemindersInit
             PROVE  RemindersIInv
  OBVIOUS
<1> USE DEF RemindersInit, InitTables
<1>1. TablesTypeOK
  BY DEF TablesTypeOK, Statuses, JobStatuses, Stages
<1>2. RemindersTypeOK
  BY RemindersAssumption DEF RemindersTypeOK
<1>3. WorkersHaveJobs /\ JobsComeLate /\ EndsAreDue /\ MarksHaveMessages /\ NobodyForgotten
  BY DEF WorkersHaveJobs, JobsComeLate, EndsAreDue, MarksHaveMessages, NobodyForgotten
<1> QED
  BY <1>1, <1>2, <1>3 DEF RemindersIInv

\* The inductive invariant: a worker at the end of a job has a reason that stays, a
\* mark has its message, and no confirmed table to come is without one or a job.
THEOREM RemindersInvariant == RemindersSpec => []RemindersIInv
<1>1. RemindersIInv /\ [RemindersNext]_all_vars => RemindersIInv'
  <2> SUFFICES ASSUME RemindersIInv, [RemindersNext]_all_vars
               PROVE  RemindersIInv'
    OBVIOUS
  <2>1. CASE UNCHANGED all_vars
    BY <2>1
    DEF RemindersIInv, TablesTypeOK, RemindersTypeOK, WorkersHaveJobs, JobsComeLate, EndsAreDue, MarksHaveMessages,
        NobodyForgotten, Done, Upcoming, all_vars, table_vars, reminder_vars, sending_vars, lease_vars, run_vars
  <2>2. ASSUME NEW r \in Requests, TableStep(r), Inbound(r.guest) \/ Unreminded
        PROVE  RemindersIInv'
    <3>1. UNCHANGED <<approved, sent, marked, lease_vars, run_vars, faults>>
      BY <2>2 DEF Inbound, Unreminded, reminder_vars, sending_vars
    <3>2. window' \in [Guests -> BOOLEAN]
      BY <2>2 DEF Inbound, Opens, Unreminded, reminder_vars, sending_vars, RemindersIInv, RemindersTypeOK
    <3> QED
      BY <2>2, <3>1, <3>2, TableStepKeeps
  <2>3. ASSUME NEW w \in Workers,
               (\E r \in Requests : Claim(w, r)) \/ Read(w) \/ Send(w) \/ Mark(w) \/ Finish(w)
        PROVE  RemindersIInv'
    BY <2>3, ClaimKeeps, ReadKeeps, SendKeeps, MarkKeeps, FinishKeeps
  <2> QED
    BY <2>1, <2>2, <2>3, FaultKeeps, TimeKeeps DEF RemindersNext, TableStep
<1> QED
  BY <1>1, RemindersIInvInit, PTL DEF RemindersSpec

\* Messages, leases and workers keep their types.
THEOREM RemindersTyped == RemindersSpec => []RemindersTypeOK
<1>1. RemindersIInv => RemindersTypeOK
  BY DEF RemindersIInv
<1> QED
  BY <1>1, RemindersInvariant, PTL

\* Whatever fails, dies, lapses, closes or is cancelled meanwhile, a confirmed table
\* to come has been reminded of, will be, or is a dead letter
\* (reservation-reminder-service.ts:86-215).
THEOREM NobodyIsForgotten == RemindersSpec => []NobodyForgotten
<1>1. RemindersIInv => NobodyForgotten
  BY DEF RemindersIInv
<1> QED
  BY <1>1, RemindersInvariant, PTL

-----------------------------------------------------------------------------
(* The covers of Tables, whoever else takes part. *)

\* A transaction of Tables on a reservation sells no more than there is.
LEMMA TableStepSells ==
  ASSUME TablesTypeOK, NeverOversold, NEW r \in Requests, TableStep(r)
  PROVE  NeverOversold'
<1> USE TablesAssumption
<1>1. CASE BookTable(r)
  <2>1. /\ NewStatus(r) \in Statuses
        /\ status' = [status EXCEPT ![r] = NewStatus(r)]
        /\ Taken(r.slot) + r.party <= Capacity[r.slot]
    BY <1>1, NewStatusType DEF BookTable, Promise, Statuses
  <2>2. r.slot \in Slots /\ r.party \in Nat
    BY RequestType
  <2>3. ASSUME NEW s \in Slots
        PROVE  /\ Taken(s)' \in Nat /\ Taken(s) \in Nat
               /\ s = r.slot => Taken(s)' <= Taken(s) + r.party
               /\ s # r.slot => Taken(s)' <= Taken(s)
    BY <2>1, CoversOfBooking, CoversFinite
  <2> QED
    BY <2>1, <2>2, <2>3 DEF NeverOversold
<1>2. CASE ~BookTable(r)
  <2>1. \A q \in Requests : status'[q] \in Holding => status[q] \in Holding
    BY <1>2 DEF TableStep, RepeatBooking, GuestCancels, VenueCancels, Confirm, Door, TablesTypeOK, Holding, Active
  <2>2. \A s : Taken(s)' <= Taken(s) /\ Taken(s)' \in Nat /\ Taken(s) \in Nat
    BY <2>1, CoversShrink, CoversFinite
  <2> QED
    BY <2>2 DEF NeverOversold
<1> QED
  BY <1>1, <1>2

\* No status changes, no cover is sold.
LEMMA SameStatusSells ==
  ASSUME NeverOversold, UNCHANGED status
  PROVE  NeverOversold'
BY DEF NeverOversold, Taken, Covers

LEMMA NothingSoldYet == InitTables => TablesTypeOK /\ NeverOversold
<1> SUFFICES ASSUME InitTables
             PROVE  TablesTypeOK /\ NeverOversold
  OBVIOUS
<1>1. \A s : Covers(s) = {}
  BY DEF InitTables, Covers, Holding
<1>2. \A s : Taken(s) = 0
  BY <1>1, FS_EmptySet DEF Taken
<1> QED
  BY <1>2, TablesAssumption DEF InitTables, TablesTypeOK, NeverOversold, Statuses, JobStatuses, Stages

\* What Tables promises by itself, to whoever implements it.
THEOREM TablesNeverOversell == TablesSpec => []NeverOversold
<1> DEFINE Sold == TablesTypeOK /\ NeverOversold
<1>1. Sold /\ [TablesNext]_table_vars => Sold'
  <2> SUFFICES ASSUME Sold, [TablesNext]_table_vars
               PROVE  Sold'
    OBVIOUS
  <2>1. CASE \E r \in Requests : TableStep(r)
    BY <2>1, TableStepType, TableStepSells
  <2>2. CASE \E s \in Slots : TimePasses(s)
    <3>1. TablesTypeOK'
      BY <2>2 DEF TimePasses, TablesTypeOK, Phases
    <3> QED
      BY <2>2, <3>1, SameStatusSells DEF TimePasses
  <2>3. CASE UNCHANGED table_vars
    <3>1. TablesTypeOK'
      BY <2>3 DEF table_vars, TablesTypeOK
    <3> QED
      BY <2>3, <3>1, SameStatusSells DEF table_vars
  <2> QED
    BY <2>1, <2>2, <2>3 DEF TablesNext, TableStep
<1>2. InitTables => Sold
  BY NothingSoldYet
<1>3. Sold => NeverOversold
  OBVIOUS
<1> QED
  BY <1>1, <1>2, <1>3, PTL DEF TablesSpec

\* Nor is a table sold twice while workers remind of the others: no step of theirs
\* touches a reservation's status (reservation-reminder-service.ts:124-215).
THEOREM NoTableSoldWhileReminding == RemindersSpec => []NeverOversold
<1>1. RemindersIInv /\ NeverOversold /\ [RemindersNext]_all_vars => NeverOversold'
  <2> SUFFICES ASSUME RemindersIInv, NeverOversold, [RemindersNext]_all_vars
               PROVE  NeverOversold'
    OBVIOUS
  <2>1. CASE \E r \in Requests : TableStep(r)
    BY <2>1, TableStepSells DEF RemindersIInv
  <2>2. CASE UNCHANGED status
    BY <2>2, SameStatusSells
  <2>3. (\E r \in Requests : TableStep(r)) \/ UNCHANGED status
    BY DEF RemindersNext, TableStep, TimePasses, GuestWrites, WindowCloses, Lapse, Claim, Read, Send, Mark,
           Finish, StatementFails, Crash, OnlyJob, table_vars, all_vars
  <2> QED
    BY <2>1, <2>2, <2>3
<1>2. RemindersInit => NeverOversold
  BY NothingSoldYet DEF RemindersInit
<1> QED
  BY <1>1, <1>2, RemindersInvariant, PTL DEF RemindersSpec

-----------------------------------------------------------------------------
(* The queue that this model has implements Leases. *)

IdleHaveNoJob == \A w \in Workers : at[w] = "idle" => job[w] = NoJob

\* The worker passes the fence of the job.
HoldsJob(w, r) == job[w] = r /\ lease[r] = w /\ reminder[r] = "processing"

LEMMA IdleStep ==
  ASSUME RemindersIInv, IdleHaveNoJob, [RemindersNext]_all_vars
  PROVE  IdleHaveNoJob'
<1> USE DEF RemindersIInv, RemindersTypeOK, IdleHaveNoJob, WorkersHaveJobs
<1>1. CASE UNCHANGED run_vars
  BY <1>1 DEF run_vars
<1>2. ASSUME NEW w \in Workers,
             \/ \E r \in Requests : Claim(w, r)
             \/ Read(w) \/ Send(w) \/ Mark(w) \/ Finish(w) \/ StatementFails(w) \/ Crash(w)
      PROVE  IdleHaveNoJob'
  BY <1>2 DEF Claim, Read, Send, Mark, Finish, StatementFails, Crash
<1>3. ASSUME NEW g \in Guests, WindowCloses(g) PROVE IdleHaveNoJob'
  BY <1>3 DEF WindowCloses
<1>4. CASE \/ \E g \in Guests : GuestWrites(g)
           \/ \E r \in Requests : Lapse(r) \/ Inbound(r.guest)
           \/ Unreminded \/ UNCHANGED all_vars
  BY <1>1, <1>4 DEF GuestWrites, Lapse, Inbound, Unreminded, all_vars, reminder_vars
<1> QED
  BY <1>2, <1>3, <1>4 DEF RemindersNext

LEMMA StartsAsLeases == RemindersInit => ReminderLeases!LeasesInit
<1> SUFFICES ASSUME RemindersInit PROVE ReminderLeases!LeasesInit
  OBVIOUS
<1>1. \A w \in Workers, r \in Requests : job[w] # r
  BY RemindersAssumption DEF RemindersInit
<1>2. \A r \in Requests : ReminderState(r) = "new"
  BY DEF RemindersInit, InitTables, ReminderState
<1>3. tries = [r \in Requests |-> 0]
  BY DEF RemindersInit
<1> QED
  BY <1>1, <1>2, <1>3 DEF ReminderLeases!LeasesInit

\* A step that is not about jobs and who has them.
LEMMA NoLease ==
  ASSUME UNCHANGED <<reminder, tries, lease, job>>
  PROVE  UNCHANGED ReminderLeases!lease_vars
<1>1. \A r \in Requests : ReminderState(r)' = ReminderState(r)
  BY DEF ReminderState
<1> QED
  BY <1>1 DEF ReminderLeases!lease_vars

\* What the transactions on a table do to its reminder's job.
LEMMA TablesOrder ==
  ASSUME RemindersIInv, NEW r \in Requests, TableStep(r), UNCHANGED <<tries, lease, job>>
  PROVE  [ReminderLeases!LeasesNext]_(ReminderLeases!lease_vars)
<1> USE DEF RemindersIInv, RemindersTypeOK, TablesTypeOK
<1>1. \/ UNCHANGED reminder
      \/ reminder[r] = "none" /\ reminder' = [reminder EXCEPT ![r] = "pending"]
      \/ reminder[r] = "pending" /\ reminder' = [reminder EXCEPT ![r] = "cancelled"]
  <2>1. Schedule(r) \/ Unschedule(r) \/ UNCHANGED reminder
    BY DEF TableStep, BookTable, Promise, RepeatBooking, GuestCancels, VenueCancels, Confirm, Door
  <2> QED
    BY <2>1 DEF Schedule, Unschedule
<1>2. CASE UNCHANGED reminder
  BY <1>2, NoLease
<1>3. CASE \/ reminder[r] = "none" /\ reminder' = [reminder EXCEPT ![r] = "pending"]
           \/ reminder[r] = "pending" /\ reminder' = [reminder EXCEPT ![r] = "cancelled"]
  <2>1. <<ReminderState(r), ReminderState(r)'>> \in ReminderLeases!Orders(r)
        /\ ReminderState(r)' # ReminderState(r)
    BY <1>3 DEF ReminderState, ReminderLeases!Orders
  <2>2. \A q \in Requests \ {r} : ReminderState(q)' = ReminderState(q)
    BY <1>3 DEF ReminderState
  <2>3. \A q \in Requests : ReminderState(q)' \in {"new", "open", "over", "withdrawn"}
    BY DEF ReminderState
  <2>4. \A w \in Workers, q \in Requests :
          (HoldsJob(w, q)' <=> HoldsJob(w, q)) /\ (HoldsJob(w, q) => q # r)
    BY <1>3 DEF HoldsJob
  <2>5. ReminderLeases!Order
    BY <2>1, <2>2, <2>3, <2>4 DEF ReminderLeases!Order, HoldsJob
  <2> QED
    BY <2>5 DEF ReminderLeases!LeasesNext
<1> QED
  BY <1>1, <1>2, <1>3

\* A function that differs from another at one place.
LEMMA DiffersAtOne ==
  ASSUME NEW S, NEW w \in S, NEW f, NEW g, NEW x, f = [v \in S |-> f[v]], g = [v \in S |-> g[v]],
         \A v \in S \ {w} : g[v] = f[v], g[w] = x
  PROVE  g = [f EXCEPT ![w] = x]
OBVIOUS

\* A worker that claims a job.
LEMMA ClaimsAreTaken ==
  ASSUME RemindersIInv, IdleHaveNoJob, NEW w \in Workers, NEW c \in Requests, Claim(w, c)
  PROVE  ReminderLeases!Take(w, {c})
<1> USE DEF RemindersIInv, RemindersTypeOK, TablesTypeOK
<1>1. /\ reminder' = [reminder EXCEPT ![c] = "processing"] /\ reminder[c] \in {"pending", "processing"}
      /\ tries' = [tries EXCEPT ![c] = @ + 1] /\ lease' = [lease EXCEPT ![c] = w]
      /\ job' = [job EXCEPT ![w] = c] /\ job[w] = NoJob
  BY DEF Claim, IdleHaveNoJob
<1>2. \A r \in Requests : ReminderState(r)' = ReminderState(r)
  BY <1>1 DEF ReminderState
<1>3. ReminderState(c) = "open"
  BY <1>1 DEF ReminderState
<1>4. \A r \in Requests : job[w] # r /\ (job'[w] = r <=> r = c)
  BY <1>1, RemindersAssumption
<1>5. HoldsJob(w, c)'
  BY <1>1 DEF HoldsJob
<1>6. \A v \in Workers, r \in Requests : v # w => (HoldsJob(v, r)' <=> HoldsJob(v, r) /\ r # c)
  BY <1>1 DEF HoldsJob
<1>7. \A v \in Workers : v # w => job'[v] = job[v]
  BY <1>1
<1>8. tries' = [r \in Requests |-> IF r \in {c} THEN tries[r] + 1 ELSE tries[r]]
  BY <1>1
<1> DEFINE has == [v \in Workers |-> {r \in Requests : job[v] = r}]
           holds == [v \in Workers |-> {r \in Requests : HoldsJob(v, r)}]
<1>9. has[w] = {} /\ has' = [has EXCEPT ![w] = {c}]
  <2>1. has[w] = {} /\ has'[w] = {c} /\ \A v \in Workers \ {w} : has'[v] = has[v]
    BY <1>4, <1>7
  <2>2. has = [v \in Workers |-> has[v]] /\ has' = [v \in Workers |-> has'[v]]
    OBVIOUS
  <2> HIDE DEF has
  <2> QED
    BY <2>1, <2>2, DiffersAtOne
<1>10. holds' = [v \in Workers |-> IF v = w THEN {c} ELSE holds[v] \ {c}]
  <2>1. holds'[w] = {c}
    <3>1. \A r \in Requests : HoldsJob(w, r)' => r = c
      BY <1>4 DEF HoldsJob
    <3> QED
      BY <1>5, <3>1
  <2>2. ASSUME NEW v \in Workers, v # w PROVE holds'[v] = holds[v] \ {c}
    BY <2>2, <1>6
  <2> QED
    BY <2>1, <2>2
<1>11. [r \in Requests |-> ReminderState(r)]' = [r \in Requests |-> ReminderState(r)]
  BY <1>2
<1>12. \A r \in {c} : [q \in Requests |-> ReminderState(q)][r] = "open"
  BY <1>3
<1> QED
  BY <1>8, <1>9, <1>10, <1>11, <1>12 DEF ReminderLeases!Take, HoldsJob

\* A worker that leaves its job.
LEMMA LeavingKeepsLeases ==
  ASSUME RemindersIInv, NEW w \in Workers, UNCHANGED tries,
         job[w] \in Requests, job' = [job EXCEPT ![w] = NoJob],
         \A v \in Workers \ {w}, r \in Requests : HoldsJob(v, r)' = HoldsJob(v, r),
         \A r \in Requests : ReminderState(r)' # ReminderState(r) =>
            HoldsJob(w, r) /\ ReminderState(r)' = "over"
  PROVE  ReminderLeases!Leave(w)
<1> USE RemindersAssumption DEF RemindersIInv, RemindersTypeOK
<1> DEFINE state == [r \in Requests |-> ReminderState(r)]
           has == [v \in Workers |-> {r \in Requests : job[v] = r}]
           holds == [v \in Workers |-> {r \in Requests : HoldsJob(v, r)}]
<1>1. has'[w] = {} /\ holds'[w] = {}
  BY DEF HoldsJob
<1>2. has' = [has EXCEPT ![w] = has'[w]]
  <2>1. /\ \A v \in Workers \ {w} : has'[v] = has[v]
        /\ has = [v \in Workers |-> has[v]] /\ has' = [v \in Workers |-> has'[v]]
    OBVIOUS
  <2> HIDE DEF has
  <2> QED
    BY <2>1, DiffersAtOne
<1>3. holds' = [holds EXCEPT ![w] = holds'[w]]
  <2>1. \A v \in Workers \ {w} : holds'[v] = holds[v]
    OBVIOUS
  <2>2. holds = [v \in Workers |-> holds[v]] /\ holds' = [v \in Workers |-> holds'[v]]
    OBVIOUS
  <2> HIDE DEF holds
  <2> QED
    BY <2>1, <2>2, DiffersAtOne
<1>4. state' = [r \in Requests |-> IF r \in holds[w] \ holds'[w] /\ state'[r] # state[r]
                                   THEN "over" ELSE state[r]]
  <2>1. \A r \in Requests : state'[r] # state[r] => r \in holds[w] /\ state'[r] = "over"
    OBVIOUS
  <2>2. state' = [r \in Requests |-> state'[r]]
    OBVIOUS
  <2> HIDE DEF state
  <2> QED
    BY <1>1, <2>1, <2>2
<1> QED
  BY <1>1, <1>2, <1>3, <1>4 DEF ReminderLeases!Leave, HoldsJob

LEMMA FinishLeaves ==
  ASSUME RemindersIInv, NEW w \in Workers, Finish(w) \/ Crash(w)
  PROVE  ReminderLeases!Leave(w)
<1> USE RemindersAssumption DEF RemindersIInv, RemindersTypeOK, TablesTypeOK
<1> DEFINE c == job[w]
<1>1. c \in Requests /\ UNCHANGED tries /\ job' = [job EXCEPT ![w] = NoJob]
  BY DEF Finish, Crash, WorkersHaveJobs, lease_vars
<1>2. CASE UNCHANGED <<reminder, lease>>
  <2>1. \A v \in Workers \ {w}, r \in Requests : HoldsJob(v, r)' = HoldsJob(v, r)
    BY <1>1, <1>2 DEF HoldsJob
  <2>2. \A r \in Requests : ReminderState(r)' = ReminderState(r)
    BY <1>2 DEF ReminderState
  <2> QED
    BY <1>1, <2>1, <2>2, LeavingKeepsLeases
<1>3. CASE /\ HoldsJob(w, c) /\ lease' = [lease EXCEPT ![c] = NoWorker]
           /\ reminder' = [reminder EXCEPT ![c] = Outcome(w)]
  <2>1. Outcome(w) \in {"completed", "pending", "dead_lettered"}
    BY DEF Outcome
  <2>2. ASSUME NEW v \in Workers \ {w}, NEW r \in Requests PROVE HoldsJob(v, r)' = HoldsJob(v, r)
    <3>1. CASE r = c
      BY <1>3, <3>1 DEF HoldsJob
    <3>2. CASE r # c
      BY <1>1, <1>3, <3>2 DEF HoldsJob
    <3> QED
      BY <3>1, <3>2
  <2>3. \A r \in Requests : ReminderState(r)' # ReminderState(r) => r = c /\ ReminderState(r)' = "over"
    BY <1>1, <1>3, <2>1 DEF ReminderState, HoldsJob
  <2> QED
    BY <1>1, <1>3, <2>2, <2>3, LeavingKeepsLeases
<1> QED
  BY <1>1, <1>2, <1>3 DEF Finish, Crash, HoldsJob, lease_vars

LEMMA StepKeepsLeases ==
  ASSUME RemindersIInv, IdleHaveNoJob, [RemindersNext]_all_vars
  PROVE  [ReminderLeases!LeasesNext]_(ReminderLeases!lease_vars)
<1> USE DEF lease_vars, run_vars
<1>1. CASE UNCHANGED <<reminder, tries, lease, job>>
  BY <1>1, NoLease
<1>2. ASSUME NEW r \in Requests, TableStep(r), Inbound(r.guest) \/ Unreminded
      PROVE  [ReminderLeases!LeasesNext]_(ReminderLeases!lease_vars)
  BY <1>2, TablesOrder DEF Inbound, Unreminded, reminder_vars
<1>3. ASSUME NEW w \in Workers, NEW r \in Requests, Claim(w, r)
      PROVE  ReminderLeases!LeasesNext
  <2>1. ReminderLeases!Take(w, {r}) /\ {r} \in SUBSET Requests
    BY <1>3, ClaimsAreTaken
  <2> QED
    BY <2>1 DEF ReminderLeases!LeasesNext
<1>4. ASSUME NEW w \in Workers, Finish(w) \/ Crash(w)
      PROVE  ReminderLeases!LeasesNext
  BY <1>4, FinishLeaves DEF ReminderLeases!LeasesNext
<1>5. ASSUME NEW w \in Workers, Read(w) \/ Send(w) \/ Mark(w) \/ StatementFails(w)
      PROVE  UNCHANGED <<reminder, tries, lease, job>>
  BY <1>5 DEF Read, Send, Mark, StatementFails
<1>6. CASE \/ \E g \in Guests : GuestWrites(g) \/ WindowCloses(g)
           \/ \E r \in Requests : Lapse(r)
           \/ \E s \in Slots : TimePasses(s) /\ Unreminded
           \/ UNCHANGED all_vars
  BY <1>1, <1>6
  DEF GuestWrites, WindowCloses, Lapse, TimePasses, Unreminded, reminder_vars, table_vars, all_vars
<1> QED
  BY <1>1, <1>2, <1>3, <1>4, <1>5, <1>6 DEF RemindersNext, TableStep

\* The reminders' jobs are taken, held and settled as Leases says, so as the queue that
\* they are really in does it.
THEOREM RemindersKeepLeases == RemindersSpec => KeepsLeases
<1>1. RemindersInit => ReminderLeases!LeasesInit
  BY StartsAsLeases
<1>2. RemindersIInv /\ IdleHaveNoJob /\ [RemindersNext]_all_vars
        => [ReminderLeases!LeasesNext]_(ReminderLeases!lease_vars)
  BY StepKeepsLeases
<1>3. RemindersInit => IdleHaveNoJob
  BY DEF RemindersInit, IdleHaveNoJob
<1>4. RemindersIInv /\ IdleHaveNoJob /\ [RemindersNext]_all_vars => IdleHaveNoJob'
  BY IdleStep
<1> QED
  BY <1>1, <1>2, <1>3, <1>4, RemindersInvariant, PTL
  DEF RemindersSpec, KeepsLeases, ReminderLeases!LeasesSpec
=============================================================================
