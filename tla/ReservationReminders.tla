------------------------ MODULE ReservationReminders ------------------------
(***************************************************************************)
(* What becomes of the reminder jobs of Tables.  A worker that claims       *)
(* one reads the reservation, asks for a WhatsApp message, marks the        *)
(* reservation and finishes the job: four statements with nothing to hold   *)
(* them together.  Between them tables are cancelled, the guest's 24-hour   *)
(* window opens and closes, leases lapse and processes die.                 *)
(*                                                                          *)
(* A message asked for is an outbox command, one for each idempotency key;  *)
(* the key has a hash of the payload, so a text and a template are two.     *)
(* A lease here is what RuntimeQueue promises of it (Leases): one worker    *)
(* at most passes the fence of a job, and a lapsed one is claimed again.    *)
(***************************************************************************)
EXTENDS Tables

CONSTANTS
  Workers,        \* processes that run jobs
  NoWorker,       \* no worker
  NoJob,          \* no job
  TemplateIs,     \* {TRUE} or {FALSE} or both: is the template approved?
  MaxAttempts,    \* runtime.scheduled_jobs.max_attempts
  MaxFaults       \* bound: crashes, failed statements and leases that lapse under a worker

ASSUME RemindersAssumption ==
  /\ TemplateIs \subseteq BOOLEAN /\ TemplateIs # {}
  /\ MaxAttempts \in Nat \ {0}
  /\ MaxFaults \in Nat
  /\ NoWorker \notin Workers /\ NoJob \notin Requests

VARIABLES
  approved,     \* the reservation_reminder template is on the approved list
  window,       \* the guest's 24-hour window is open
  sent,         \* the kinds of message asked for, one outbox command each
  marked,       \* reservations.reminder_sent_at
  tries,        \* attempt_count of the job
  lease,        \* the worker whose lease passes the fence of the job
  lapsed,       \* the lease has expired
  job,          \* the job a worker runs
  at,           \* where the worker is in it
  kind,         \* the message it composed; "late" when its window has closed since
  faults

sending_vars == <<approved, window, sent, marked>>
lease_vars == <<tries, lease, lapsed>>
run_vars == <<job, at, kind>>
reminder_vars == <<sending_vars, lease_vars, run_vars, faults>>
all_vars == <<table_vars, reminder_vars>>

\* A worker only changes the job among the variables of Tables.
OnlyJob == UNCHANGED <<status, stage, when>>

RemindersInit ==
  /\ InitTables
  /\ approved \in TemplateIs
  /\ window = [g \in Guests |-> FALSE]
  /\ sent = [r \in Requests |-> {}]
  /\ marked = [r \in Requests |-> FALSE]
  /\ tries = [r \in Requests |-> 0]
  /\ lease = [r \in Requests |-> NoWorker]
  /\ lapsed = [r \in Requests |-> FALSE]
  /\ job = [w \in Workers |-> NoJob]
  /\ at = [w \in Workers |-> "idle"]
  /\ kind = [w \in Workers |-> "none"]
  /\ faults = 0

-----------------------------------------------------------------------------
(* One attempt of a job. *)

\* Mistake: a job whose worker died is nobody's.
ClaimWaiting(w, r) ==
  /\ at[w] = "idle"
  /\ reminder[r] = "pending"
  /\ reminder' = [reminder EXCEPT ![r] = "processing"]
  /\ tries' = [tries EXCEPT ![r] = @ + 1]
  /\ lease' = [lease EXCEPT ![r] = w]
  /\ lapsed' = [lapsed EXCEPT ![r] = FALSE]
  /\ job' = [job EXCEPT ![w] = r]
  /\ at' = [at EXCEPT ![w] = "read"]
  /\ UNCHANGED <<kind, sending_vars, faults>>
  /\ OnlyJob

\* JobRepository.claim: a waiting job, or one whose lease has expired.
Claim(w, r) ==
  /\ at[w] = "idle"
  /\ reminder[r] = "pending" \/ (reminder[r] = "processing" /\ lapsed[r])
  /\ reminder' = [reminder EXCEPT ![r] = "processing"]
  /\ tries' = [tries EXCEPT ![r] = @ + 1]
  /\ lease' = [lease EXCEPT ![r] = w]
  /\ lapsed' = [lapsed EXCEPT ![r] = FALSE]
  /\ job' = [job EXCEPT ![w] = r]
  /\ at' = [at EXCEPT ![w] = "read"]
  /\ UNCHANGED <<kind, sending_vars, faults>>
  /\ OnlyJob

\* The reservation needs no reminder any more.
Skip(r) == status[r] # "confirmed" \/ ~Upcoming(r.slot) \/ marked[r]

\* The worker reads the reservation and composes the message.
Read(w) ==
  /\ at[w] = "read"
  /\ at' = [at EXCEPT ![w] = IF Skip(job[w]) THEN "completed" ELSE "send"]
  /\ kind' = [kind EXCEPT ![w] = CASE Skip(job[w]) -> "none"
                                   [] ~Skip(job[w]) /\ window[job[w].guest] -> "text"
                                   [] OTHER -> "template"]
  /\ UNCHANGED <<job, sending_vars, lease_vars, faults, reminder>>
  /\ OnlyJob

\* Mistake: a message that cannot go out is not worth another attempt.
SendOrForget(w) ==
  /\ at[w] = "send"
  /\ IF kind[w] = "text" \/ (kind[w] = "template" /\ approved)
     THEN /\ sent' = [sent EXCEPT ![job[w]] = @ \cup {kind[w]}]
          /\ at' = [at EXCEPT ![w] = "mark"]
     ELSE /\ at' = [at EXCEPT ![w] = "completed"]
          /\ UNCHANGED sent
  /\ UNCHANGED <<job, kind, approved, window, marked, lease_vars, faults, reminder>>
  /\ OnlyJob

\* requestWhatsAppSend: a template must be approved, a text have its window.
Send(w) ==
  /\ at[w] = "send"
  /\ IF kind[w] = "text" \/ (kind[w] = "template" /\ approved)
     THEN /\ sent' = [sent EXCEPT ![job[w]] = @ \cup {kind[w]}]
          /\ at' = [at EXCEPT ![w] = "mark"]
     ELSE /\ at' = [at EXCEPT ![w] = "retryable"]
          /\ UNCHANGED sent
  /\ UNCHANGED <<job, kind, approved, window, marked, lease_vars, faults, reminder>>
  /\ OnlyJob

\* reminder_sent_at, the first time.
Mark(w) ==
  /\ at[w] = "mark"
  /\ marked' = [marked EXCEPT ![job[w]] = TRUE]
  /\ at' = [at EXCEPT ![w] = "completed"]
  /\ UNCHANGED <<job, kind, approved, window, sent, lease_vars, faults, reminder>>
  /\ OnlyJob

\* What becomes of a job: the budget decides on another attempt.
Outcome(w) ==
  CASE at[w] = "completed" -> "completed"
    [] at[w] # "completed" /\ tries[job[w]] < MaxAttempts -> "pending"
    [] OTHER -> "dead_lettered"

\* Mistake: the job is finished whoever has the lease, and though it was cancelled.
FinishUnfenced(w) ==
  /\ at[w] \in {"completed", "retryable"}
  /\ reminder' = [reminder EXCEPT ![job[w]] = Outcome(w)]
  /\ lease' = [lease EXCEPT ![job[w]] = NoWorker]
  /\ lapsed' = [lapsed EXCEPT ![job[w]] = FALSE]
  /\ job' = [job EXCEPT ![w] = NoJob]
  /\ at' = [at EXCEPT ![w] = "idle"]
  /\ kind' = [kind EXCEPT ![w] = "none"]
  /\ UNCHANGED <<tries, sending_vars, faults>>
  /\ OnlyJob

\* complete() and retry(), which write nothing without the lease.
Finish(w) ==
  /\ at[w] \in {"completed", "retryable"}
  /\ IF lease[job[w]] = w /\ reminder[job[w]] = "processing"
     THEN /\ reminder' = [reminder EXCEPT ![job[w]] = Outcome(w)]
          /\ lease' = [lease EXCEPT ![job[w]] = NoWorker]
          /\ lapsed' = [lapsed EXCEPT ![job[w]] = FALSE]
     ELSE UNCHANGED <<reminder, lease, lapsed>>
  /\ job' = [job EXCEPT ![w] = NoJob]
  /\ at' = [at EXCEPT ![w] = "idle"]
  /\ kind' = [kind EXCEPT ![w] = "none"]
  /\ UNCHANGED <<tries, sending_vars, faults>>
  /\ OnlyJob

\* A statement fails: the worker's catch branch asks for another attempt.
StatementFails(w) ==
  /\ at[w] \in {"read", "send", "mark", "completed"}
  /\ faults < MaxFaults
  /\ faults' = faults + 1
  /\ at' = [at EXCEPT ![w] = "retryable"]
  /\ UNCHANGED <<job, kind, sending_vars, lease_vars, reminder>>
  /\ OnlyJob

\* The process dies; its lease lives on.
Crash(w) ==
  /\ at[w] # "idle"
  /\ faults < MaxFaults
  /\ faults' = faults + 1
  /\ job' = [job EXCEPT ![w] = NoJob]
  /\ at' = [at EXCEPT ![w] = "idle"]
  /\ kind' = [kind EXCEPT ![w] = "none"]
  /\ UNCHANGED <<sending_vars, lease_vars, reminder>>
  /\ OnlyJob

\* A lease expires: at some time when nobody finishes the job, or, a fault, before
\* its worker has come to the end.
Lapse(r) ==
  /\ reminder[r] = "processing" /\ ~lapsed[r]
  /\ IF \E w \in Workers : job[w] = r /\ lease[r] = w
     THEN faults < MaxFaults /\ faults' = faults + 1
     ELSE UNCHANGED faults
  /\ lapsed' = [lapsed EXCEPT ![r] = TRUE]
  /\ UNCHANGED <<tries, lease, sending_vars, run_vars, reminder>>
  /\ OnlyJob

-----------------------------------------------------------------------------
(* The guest's window. *)

\* Any message of the guest opens it, those of a booking turn or a cancellation
\* when their transaction commits.
Opens(g) == window' = [window EXCEPT ![g] = TRUE]

GuestWrites(g) ==
  /\ ~window[g]
  /\ Opens(g)
  /\ UNCHANGED <<table_vars, approved, sent, marked, lease_vars, run_vars, faults>>

\* 24 hours later a message that was composed for the window cannot go out.
WindowCloses(g) ==
  /\ window[g]
  /\ window' = [window EXCEPT ![g] = FALSE]
  /\ kind' = [w \in Workers |-> IF kind[w] = "text" /\ job[w].guest = g /\ at[w] = "send"
                                THEN "late" ELSE kind[w]]
  /\ UNCHANGED <<table_vars, approved, sent, marked, lease_vars, job, at, faults>>

Unreminded == UNCHANGED reminder_vars
Inbound(g) == Opens(g) /\ UNCHANGED <<approved, sent, marked, lease_vars, run_vars, faults>>

Step(w) == (\E r \in Requests : Claim(w, r)) \/ Read(w) \/ Send(w) \/ Mark(w) \/ Finish(w)

RemindersNext ==
  \/ \E g \in Guests : GuestWrites(g) \/ WindowCloses(g)
  \/ \E r \in Requests :
       \/ BookTable(r) /\ Inbound(r.guest)
       \/ RepeatBooking(r) /\ Inbound(r.guest)
       \/ GuestCancels(r) /\ Inbound(r.guest)
       \/ VenueCancels(r) /\ Unreminded
       \/ Confirm(r) /\ Unreminded
       \/ Door(r) /\ Unreminded
       \/ Lapse(r)
  \/ \E s \in Slots : TimePasses(s) /\ Unreminded
  \/ \E w \in Workers :
       \/ \E r \in Requests : Claim(w, r)
       \/ Read(w)
       \/ Send(w)
       \/ Mark(w)
       \/ Finish(w)
       \/ StatementFails(w)
       \/ Crash(w)

RemindersSpec == RemindersInit /\ [][RemindersNext]_all_vars

\* The worker loop goes on; a job becomes due; a lease nobody holds expires.
RemindersFairSpec ==
  /\ RemindersSpec
  /\ \A w \in Workers : WF_all_vars(Step(w))
  /\ \A r \in Requests : WF_all_vars(Lapse(r))

-----------------------------------------------------------------------------
(* Properties. *)

RemindersTypeOK ==
  /\ approved \in BOOLEAN
  /\ window \in [Guests -> BOOLEAN]
  /\ sent \in [Requests -> SUBSET {"text", "template"}]
  /\ marked \in [Requests -> BOOLEAN]
  /\ tries \in [Requests -> Nat]
  /\ lease \in [Requests -> Workers \cup {NoWorker}]
  /\ lapsed \in [Requests -> BOOLEAN]
  /\ job \in [Workers -> Requests \cup {NoJob}]
  /\ at \in [Workers -> {"idle", "read", "send", "mark", "completed", "retryable"}]
  /\ kind \in [Workers -> {"none", "text", "template", "late"}]
  /\ faults \in 0 .. MaxFaults

\* Nobody is forgotten: a confirmed table that is still to come has been reminded
\* of, or will be, or is on the list of dead letters; unless it was confirmed too
\* late for a reminder (reservation-reminder-service.ts:93-97).
NobodyForgotten ==
  \A r \in Requests :
    status[r] = "confirmed" /\ Upcoming(r.slot) =>
      IF marked[r] THEN sent[r] # {}
      ELSE \/ reminder[r] \in {"pending", "processing", "dead_lettered"}
           \/ reminder[r] = "none" /\ when[r.slot] = "soon"

\* Every reminder job comes to an end, whatever happens to its table, its worker,
\* the window and the template in the meantime.
JobsSettle ==
  \A r \in Requests :
    reminder[r] = "pending" ~> reminder[r] \in {"completed", "cancelled", "dead_lettered"}

\* migrations/031_reservation_reminders.sql:5-6: reminder_sent_at records "whether
\* a reminder already went out (so a retried job never sends twice)".
SentOnce == \A r \in Requests : sent[r] # {"text", "template"}

\* docs/owner-actions/08-hospitality-onboarding.md:12: "nothing is sent for a table
\* that was cancelled, moved or has started".
NothingForCancelled ==
  [][\A r \in Requests : sent'[r] # sent[r] => status[r] # "cancelled"]_all_vars

\* Where a reminder's job stands, for Leases.
ReminderState(r) ==
  CASE reminder[r] = "none" -> "new"
    [] reminder[r] \in {"pending", "processing"} -> "open"
    [] reminder[r] = "cancelled" -> "withdrawn"
    [] OTHER -> "over"

ReminderLeases == INSTANCE Leases
  WITH Jobs <- Requests, Withdrawable <- Requests, Replayable <- {},
       state <- [r \in Requests |-> ReminderState(r)],
       attempt <- tries,
       has <- [w \in Workers |-> {r \in Requests : job[w] = r}],
       holds <- [w \in Workers |-> {r \in Requests : job[w] = r /\ lease[r] = w
                                                     /\ reminder[r] = "processing"}]

\* A reminder's job is taken, held and finished as the queue promises, while tables are
\* cancelled under the worker: a worker whose job was cancelled, or claimed again by
\* another, changes nothing of it (reservation-service.ts:195-219; runtime.ts:39-63).
KeepsLeases == ReminderLeases!LeasesSpec
=============================================================================
