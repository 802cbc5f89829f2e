------------------------------ MODULE Delivery ------------------------------
(***************************************************************************)
(* What becomes of a command of the outbox: a message for WhatsApp, or the  *)
(* calendar's event for an appointment.  A worker asks the provider, hears  *)
(* an answer or none, and records it behind its lease.  Later the provider  *)
(* reports what became of a message, by the id it gave it, in any order     *)
(* and as often as it likes.                                                *)
(*                                                                          *)
(* The lease is simpler than that of RuntimeQueue: a worker passes the      *)
(* fence while nobody else has claimed the command.  Leases says what the   *)
(* two have in common.                                                      *)
(***************************************************************************)
EXTENDS Integers, FiniteSets

CONSTANTS
  Texts, Visits,    \* commands: whatsapp.send_message, calendar.create_event
  Workers,
  Nobody,
  SameTime(_, _),   \* the appointments of two calendar commands overlap
  Told,             \* the statuses that the provider's are mapped to
  MaxAttempts,      \* runtime.outbox_commands.max_attempts
  MaxFaults         \* bound: crashes, failed statements, lapsed leases, answers that mislead

Commands == Texts \cup Visits

\* mapMessageState: a status it does not know becomes 'delivery_unknown'.
Statuses == {"delivery_unknown", "sent", "delivered", "read", "failed"}

ASSUME DeliveryAssumption ==
  /\ Texts \cap Visits = {}
  /\ IsFiniteSet(Workers) /\ Nobody \notin Workers \cup Commands
  /\ \A c \in Visits : SameTime(c, c)
  /\ Told \subseteq Statuses
  /\ MaxAttempts \in Nat \ {0} /\ MaxFaults \in Nat

\* deliveryStateRank; one that has no rank gives way to any.
Rank(s) ==
  CASE s = "sent" -> 1 [] s = "delivered" -> 2 [] s = "read" -> 3 [] s = "failed" -> 4 [] OTHER -> 0

VARIABLES
  state,            \* outbox_commands.state, "none" before it is asked for
  tries,            \* its attempt_count
  lease,            \* the worker that passes its fence
  given,            \* outbox_commands.provider_message_id; 0 for none
  shown,            \* messages.state; appointments.status
  runs, at,         \* the command a worker has, and where it is in it
  answer, id,       \* what the provider answered it
  notice,           \* by message: how far the dashboard is with asking for it
  ahead,            \* by message: the end of the session window that it read lies ahead
  accepted,         \* how often the provider accepted the command: its ids are 1, 2, ...
  reports,          \* status events in the inbox, dead letters left out
  applied,          \* those whose processing committed
  faults

command_vars == <<state, tries, lease>>
worker_vars == <<runs, at, answer, id>>
report_vars == <<reports, applied>>
notice_vars == <<notice, ahead>>
delivery_vars == <<command_vars, given, shown, worker_vars, accepted, report_vars, faults, notice_vars>>

Settled == {"delivered", "delivery_unknown", "permanently_failed", "dead_lettered"}
Reports == [command : Texts, id : Nat, status : Statuses]

DeliveryTypeOK ==
  /\ state \in [Commands -> {"none", "pending", "retryable", "processing"} \cup Settled]
  /\ tries \in [Commands -> Nat] /\ lease \in [Commands -> Workers \cup {Nobody}]
  /\ given \in [Commands -> Nat] /\ accepted \in [Commands -> Nat]
  /\ shown \in [Commands -> {"none", "queued", "accepted", "booked", "confirmed"} \cup Statuses]
  /\ runs \in [Workers -> Commands \cup {Nobody}]
  /\ at \in [Workers -> {"idle", "check", "send", "record"}]
  /\ answer \in [Workers -> {"none", "delivered", "retryable", "unknown", "refused"}]
  /\ id \in [Workers -> Nat]
  /\ reports \subseteq Reports /\ applied \subseteq reports
  /\ notice \in [Texts -> {"idle", "asked", "checked", "refused"}] /\ ahead \in [Texts -> BOOLEAN]
  /\ faults \in 0 .. MaxFaults

Init ==
  /\ state = [c \in Commands |-> "none"] /\ tries = [c \in Commands |-> 0]
  /\ lease = [c \in Commands |-> Nobody] /\ given = [c \in Commands |-> 0]
  /\ shown = [c \in Commands |-> "none"] /\ accepted = [c \in Commands |-> 0]
  /\ runs = [w \in Workers |-> Nobody] /\ at = [w \in Workers |-> "idle"]
  /\ answer = [w \in Workers |-> "none"] /\ id = [w \in Workers |-> 0]
  /\ reports = {} /\ applied = {}
  /\ notice = [c \in Texts |-> "idle"] /\ ahead = [c \in Texts |-> FALSE]
  /\ faults = 0

-----------------------------------------------------------------------------
(* The outbox. *)

\* requestWhatsAppSend, bookSlot: the row and its command, once for each key.
Request(c) ==
  /\ state[c] = "none"
  /\ state' = [state EXCEPT ![c] = "pending"]
  /\ shown' = [shown EXCEPT ![c] = IF c \in Texts THEN "queued" ELSE "booked"]

Enqueue(c) ==
  /\ c \in Texts => notice[c] = "idle"
  /\ Request(c)
  /\ UNCHANGED <<tries, lease, given, worker_vars, accepted, report_vars, faults, notice_vars>>

\* A user of the dashboard replies, or the venue's decision is committed and its guest
\* is to be told: the lead is read, and the end of its session window.
Reply(c) ==
  /\ state[c] = "none" /\ notice[c] = "idle"
  /\ notice' = [notice EXCEPT ![c] = "asked"]
  /\ \E b \in BOOLEAN : ahead' = [ahead EXCEPT ![c] = b]
  /\ UNCHANGED <<command_vars, given, shown, worker_vars, accepted, report_vars, faults>>

\* Free text is refused outside of the window,
CheckWindow(c) ==
  /\ notice[c] = "asked"
  /\ notice' = [notice EXCEPT ![c] = IF ahead[c] THEN "checked" ELSE "refused"]
  /\ UNCHANGED <<command_vars, given, shown, worker_vars, accepted, report_vars, faults, ahead>>

Done(c) == notice' = [notice EXCEPT ![c] = "idle"] /\ ahead' = [ahead EXCEPT ![c] = FALSE]

\* and again by the service: validatePolicy.
SendText(c) ==
  /\ notice[c] = "checked"
  /\ IF ahead[c] THEN Request(c) /\ Done(c)
     ELSE notice' = [notice EXCEPT ![c] = "refused"] /\ UNCHANGED <<state, shown, ahead>>
  /\ UNCHANGED <<tries, lease, given, worker_vars, accepted, report_vars, faults>>

\* Then a template is sent, if there is one that is approved.
SendTemplate(c) ==
  /\ notice[c] = "refused"
  /\ Request(c) \/ UNCHANGED <<state, shown>>
  /\ Done(c)
  /\ UNCHANGED <<tries, lease, given, worker_vars, accepted, report_vars, faults>>

\* The window ends meanwhile; or the process does, and nobody tells the guest.
WindowEnds(c) ==
  /\ ahead[c] /\ ahead' = [ahead EXCEPT ![c] = FALSE]
  /\ UNCHANGED <<command_vars, given, shown, worker_vars, accepted, report_vars, faults, notice>>

Forget(c) ==
  /\ notice[c] # "idle" /\ Done(c)
  /\ UNCHANGED <<command_vars, given, shown, worker_vars, accepted, report_vars, faults>>

\* Mistake: what failed once is not claimed again.
ClaimPending(w, c) ==
  /\ at[w] = "idle" /\ state[c] = "pending"
  /\ state' = [state EXCEPT ![c] = "processing"]
  /\ tries' = [tries EXCEPT ![c] = @ + 1]
  /\ lease' = [lease EXCEPT ![c] = w]
  /\ runs' = [runs EXCEPT ![w] = c]
  /\ at' = [at EXCEPT ![w] = IF c \in Texts THEN "send" ELSE "check"]
  /\ UNCHANGED <<given, shown, answer, id, accepted, report_vars, faults, notice_vars>>

\* RuntimeOutboxRepository.claim; a calendar's command is checked first.
Claim(w, c) ==
  /\ at[w] = "idle" /\ state[c] \in {"pending", "retryable"}
  /\ state' = [state EXCEPT ![c] = "processing"]
  /\ tries' = [tries EXCEPT ![c] = @ + 1]
  /\ lease' = [lease EXCEPT ![c] = w]
  /\ runs' = [runs EXCEPT ![w] = c]
  /\ at' = [at EXCEPT ![w] = IF c \in Texts THEN "send" ELSE "check"]
  /\ UNCHANGED <<given, shown, answer, id, accepted, report_vars, faults, notice_vars>>

\* Mistake: the fence does not ask whose lease it is.
FencedByState(w) == state[runs[w]] = "processing"

\* The fence of the finalizers.
Fenced(w) == lease[runs[w]] = w /\ state[runs[w]] = "processing"

-----------------------------------------------------------------------------
(* The provider. *)

Hears(w, a) ==
  /\ answer' = [answer EXCEPT ![w] = a]
  /\ at' = [at EXCEPT ![w] = "record"]

\* freeBusy: the command's own event makes the calendar busy, as any other does.
Busy(c) == \E d \in Visits : SameTime(c, d) /\ accepted[d] > 0

Check(w) ==
  /\ at[w] = "check"
  /\ \/ /\ ~Busy(runs[w])
        /\ at' = [at EXCEPT ![w] = "send"]
        /\ UNCHANGED answer
     \/ Busy(runs[w]) /\ Hears(w, "refused")
     \/ \E a \in {"retryable", "refused"} : Hears(w, a)
  /\ UNCHANGED <<command_vars, given, shown, runs, id, accepted, report_vars, faults, notice_vars>>

Accepts(c) == accepted' = [accepted EXCEPT ![c] = @ + 1]

\* The provider accepts, and says so.
Succeed(w) ==
  /\ at[w] = "send"
  /\ Accepts(runs[w])
  /\ id' = [id EXCEPT ![w] = accepted[runs[w]] + 1]
  /\ Hears(w, "delivered")
  /\ UNCHANGED <<command_vars, given, shown, runs, report_vars, faults, notice_vars>>

\* Mistake: a call without an answer is repeated.
LostRepeated(w) ==
  /\ at[w] = "send"
  /\ Accepts(runs[w]) \/ UNCHANGED accepted
  /\ Hears(w, "retryable")
  /\ UNCHANGED <<command_vars, given, shown, runs, id, report_vars, faults, notice_vars>>

\* The call ends without an answer: it may have been accepted or not.
Lost(w) ==
  /\ at[w] = "send"
  /\ Accepts(runs[w]) \/ UNCHANGED accepted
  /\ Hears(w, "unknown")
  /\ UNCHANGED <<command_vars, given, shown, runs, id, report_vars, faults, notice_vars>>

\* It does not accept: for now, or for good.
Reject(w) ==
  /\ at[w] = "send"
  /\ \E a \in {"retryable", "refused"} : Hears(w, a)
  /\ UNCHANGED <<command_vars, given, shown, runs, id, accepted, report_vars, faults, notice_vars>>

\* It accepts and answers that it did not, or without an id.
Mislead(w) ==
  /\ at[w] = "send" /\ faults < MaxFaults
  /\ Accepts(runs[w])
  /\ \E a \in {"retryable", IF runs[w] \in Texts THEN "refused" ELSE "unknown"} : Hears(w, a)
  /\ faults' = faults + 1
  /\ UNCHANGED <<command_vars, given, shown, runs, id, report_vars, notice_vars>>

-----------------------------------------------------------------------------
(* The worker records the answer. *)

Leaves(w) ==
  /\ runs' = [runs EXCEPT ![w] = Nobody] /\ at' = [at EXCEPT ![w] = "idle"]
  /\ answer' = [answer EXCEPT ![w] = "none"] /\ id' = [id EXCEPT ![w] = 0]

\* The state that a finalizer writes.
Outcome(w) ==
  CASE answer[w] = "delivered" -> "delivered"
    [] answer[w] = "unknown" -> "delivery_unknown"
    [] answer[w] = "refused" -> "permanently_failed"
    [] OTHER -> IF tries[runs[w]] < MaxAttempts THEN "retryable" ELSE "dead_lettered"

\* markDelivered: the command, and the message or the appointment it is about.
MarkDelivered(c, n) ==
  /\ given' = [given EXCEPT ![c] = n]
  /\ shown' = [shown EXCEPT ![c] = IF c \in Texts THEN "accepted" ELSE "confirmed"]

\* Mistake: what a worker has heard is true, whoever has the lease now.
RecordUnfenced(w) ==
  LET c == runs[w]
  IN /\ at[w] = "record"
     /\ IF Fenced(w)
        THEN state' = [state EXCEPT ![c] = Outcome(w)] ELSE UNCHANGED state
     /\ IF answer[w] = "delivered"
        THEN MarkDelivered(c, id[w]) ELSE UNCHANGED <<given, shown>>
     /\ Leaves(w)
     /\ UNCHANGED <<tries, lease, accepted, report_vars, faults, notice_vars>>

\* The finalizers, behind their fence.
Record(w) ==
  LET c == runs[w]
  IN /\ at[w] = "record"
     /\ IF Fenced(w)
        THEN state' = [state EXCEPT ![c] = Outcome(w)] ELSE UNCHANGED state
     /\ IF Fenced(w) /\ answer[w] = "delivered"
        THEN MarkDelivered(c, id[w]) ELSE UNCHANGED <<given, shown>>
     /\ Leaves(w)
     /\ UNCHANGED <<tries, lease, accepted, report_vars, faults, notice_vars>>

\* The finalizer fails before it commits, and the catch branch tries again later.
RecordFails(w) ==
  /\ at[w] = "record" /\ answer[w] # "retryable" /\ faults < MaxFaults
  /\ answer' = [answer EXCEPT ![w] = "retryable"]
  /\ faults' = faults + 1
  /\ UNCHANGED <<command_vars, given, shown, runs, at, id, accepted, report_vars, notice_vars>>

Crash(w) ==
  /\ at[w] # "idle" /\ faults < MaxFaults
  /\ Leaves(w)
  /\ faults' = faults + 1
  /\ UNCHANGED <<command_vars, given, shown, accepted, report_vars, notice_vars>>

\* The lease of a worker that is gone expires,
Expire(c) ==
  /\ state[c] = "processing" /\ \A w \in Workers : runs[w] # c
  /\ state' = [state EXCEPT ![c] = "retryable"] /\ lease' = [lease EXCEPT ![c] = Nobody]
  /\ UNCHANGED <<tries, given, shown, worker_vars, accepted, report_vars, faults, notice_vars>>

\* or that of one who is slow.
Lapse(w) ==
  /\ at[w] # "idle" /\ Fenced(w) /\ faults < MaxFaults
  /\ state' = [state EXCEPT ![runs[w]] = "retryable"]
  /\ lease' = [lease EXCEPT ![runs[w]] = Nobody]
  /\ faults' = faults + 1
  /\ UNCHANGED <<tries, given, shown, worker_vars, accepted, report_vars, notice_vars>>

\* An operator looks into the calendar: confirmCreated, markCreateFailed.
Reconcile(c) ==
  /\ c \in Visits /\ state[c] = "delivery_unknown"
  /\ \/ \E n \in 1 .. accepted[c] :
          /\ state' = [state EXCEPT ![c] = "delivered"]
          /\ MarkDelivered(c, n)
     \/ /\ accepted[c] = 0
        /\ state' = [state EXCEPT ![c] = "permanently_failed"]
        /\ UNCHANGED <<given, shown>>
  /\ UNCHANGED <<tries, lease, worker_vars, accepted, report_vars, faults, notice_vars>>

-----------------------------------------------------------------------------
(* Reports. *)

\* The provider reports what became of a message, early or late, in any order.
Report(c, s) ==
  /\ \E n \in 1 .. accepted[c] :
       reports' = reports \cup {[command |-> c, id |-> n, status |-> s]}
  /\ UNCHANGED <<command_vars, given, shown, worker_vars, accepted, applied, faults, notice_vars>>

\* Mistake: the report that comes last is right.
AppliedLast(r) == shown' = [shown EXCEPT ![r.command] = r.status]

\* shouldAdvanceMessageState.
Applied(r) ==
  shown' = IF Rank(r.status) >= Rank(shown[r.command])
           THEN [shown EXCEPT ![r.command] = r.status] ELSE shown

\* The processor finds the message by the provider's id; it may do so twice.
Apply(r) ==
  /\ r \in reports /\ given[r.command] = r.id
  /\ Applied(r)
  /\ applied' = applied \cup {r}
  /\ UNCHANGED <<command_vars, given, worker_vars, accepted, reports, faults, notice_vars>>

\* Mistake: an event is given up whatever it names.
BuryAny(r) ==
  /\ r \in reports \ applied
  /\ reports' = reports \ {r}
  /\ UNCHANGED <<command_vars, given, shown, worker_vars, accepted, applied, faults, notice_vars>>

\* It does not find it, time after time: the event goes to the dead letters, from
\* where an operator may put it back (Report).
Bury(r) ==
  /\ r \in reports \ applied /\ given[r.command] # r.id
  /\ reports' = reports \ {r}
  /\ UNCHANGED <<command_vars, given, shown, worker_vars, accepted, applied, faults, notice_vars>>

-----------------------------------------------------------------------------
WorkerStep(w) ==
  Check(w) \/ Succeed(w) \/ Lost(w) \/ Reject(w) \/ Mislead(w) \/ Record(w)

Next ==
  \/ \E c \in Texts :
       Reply(c) \/ CheckWindow(c) \/ SendText(c) \/ SendTemplate(c) \/ WindowEnds(c) \/ Forget(c)
  \/ \E c \in Commands : Enqueue(c) \/ Expire(c) \/ Reconcile(c)
  \/ \E w \in Workers :
       \/ WorkerStep(w) \/ RecordFails(w) \/ Crash(w) \/ Lapse(w)
       \/ \E c \in Commands : Claim(w, c)
  \/ \E c \in Texts, s \in Told : Report(c, s)
  \/ \E r \in reports : Apply(r) \/ Bury(r)

Spec == Init /\ [][Next]_delivery_vars

\* Workers go on, commands and reports are claimed until they are settled.
FairSpec ==
  /\ Spec
  /\ \A w \in Workers :
       /\ WF_delivery_vars(WorkerStep(w))
       /\ WF_delivery_vars(\E c \in Commands : Claim(w, c))
  /\ \A c \in Commands : WF_delivery_vars(Expire(c))
  /\ WF_delivery_vars(\E r \in reports \ applied : Apply(r))

-----------------------------------------------------------------------------
(* Properties. *)

\* A message shows the furthest of the reports that were processed, in whatever
\* order and however often they came (shouldAdvanceMessageState).
FurthestReportStands == \A c \in Texts :
  LET heard == {r.status : r \in {a \in applied : a.command = c}}
  IN IF heard = {}
     THEN shown[c] = IF state[c] = "none" THEN "none"
                     ELSE IF given[c] = 0 THEN "queued" ELSE "accepted"
     ELSE shown[c] \in heard /\ \A s \in heard : Rank(s) <= Rank(shown[c])

\* A command is 'delivered' exactly when it has the provider's id of something that the
\* provider accepted, and an appointment is confirmed exactly then (markDelivered,
\* confirmCreated).
ConfirmedExists == \A c \in Commands :
  /\ state[c] = "delivered" <=> given[c] # 0
  /\ given[c] <= accepted[c]
  /\ c \in Visits => (shown[c] = "confirmed" <=> given[c] # 0)

\* A command is accepted once, but for the faults: no call without an answer is
\* repeated (MetaWhatsAppAdapter.send, GoogleCalendarAdapter.createEvent).
AcceptedOnce == \A c \in Commands : accepted[c] <= 1 + faults

\* What is asked for comes to an end.
EveryCommandSettles == \A c \in Commands : state[c] # "none" ~> state[c] \in Settled

\* A report that names the id a message has is processed in the end, unless it
\* arrived too early too often.
EveryReportCounts == \A c \in Texts, s \in Told :
  (\E r \in reports : r.command = c /\ r.id = given[c] /\ r.status = s)
    ~> Rank(shown[c]) >= Rank(s)

\* Where a command stands, for Leases.
CommandState(c) ==
  CASE state[c] = "none" -> "new"
    [] state[c] \in {"pending", "retryable", "processing"} -> "open"
    [] OTHER -> "over"

CommandLeases == INSTANCE Leases
  WITH Jobs <- Commands, Withdrawable <- {}, Replayable <- {},
       state <- [c \in Commands |-> CommandState(c)],
       attempt <- tries,
       has <- [w \in Workers |-> {c \in Commands : runs[w] = c}],
       holds <- [w \in Workers |-> {c \in Commands : runs[w] = c /\ Fenced(w)}]

\* A command is taken, held and settled as the queue promises, whatever becomes of the
\* call to the provider: what a worker heard counts only while the command is its own,
\* and what was settled is not sent again (runtime.ts:39-63).
KeepsLeases == CommandLeases!LeasesSpec
=============================================================================
