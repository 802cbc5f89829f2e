------------------------------- MODULE Reports -------------------------------
(***************************************************************************)
(* The manager's daily report.  Each report is a row and a job of its own;  *)
(* the transaction that sends one schedules the next, at the same time of   *)
(* day in the client's time zone.  Its command becomes a notice (Notices).    *)
(*                                                                          *)
(* Whoever schedules locks the client and then the report; the job's        *)
(* transaction holds its report and then wants the client and the next      *)
(* report, which another worker may be at.  A job that is tried again is    *)
(* due when its delay is over, and the next report is reckoned from there.  *)
(***************************************************************************)
EXTENDS LocalTime

CONSTANTS
  Last,             \* bound: the dates are 1 .. Last
  Hour,             \* the hour an operator asks for
  Workers, Nobody,
  Start, Horizon,   \* bound: the instants looked at
  RetryDelay,       \* retryDelaySeconds
  MaxAttempts,      \* runtime.scheduled_jobs.max_attempts
  MaxFaults,        \* bound: crashes, failed statements, leases that lapse
  AppointmentHours_, Taken  \* slots: the client's hours, slots excluded

Dates == 1 .. Last

ASSUME ReportsAssumption ==
  /\ Last \in Nat
  /\ Nobody \notin Workers
  /\ RetryDelay \in Nat \ {0} /\ MaxAttempts \in Nat \ {0} /\ MaxFaults \in Nat

VARIABLES
  now,
  active, phone,    \* clients.active; it has a manager_phone_e164
  report,           \* daily_reports.status
  job, due,         \* scheduled_jobs.status and due_at of its job
  tries, lease,     \* its attempt_count, the worker that passes its fence
  runs, at,         \* the report a worker has, and where it is
  dueSeen,          \* due_at as the worker's transaction read it
  caller,           \* the date an operator's transaction schedules, while it holds the client
  command,          \* the state of the report's outbox command
  listed,           \* app.notifications: rows of the command
  faults

client_vars == <<active, phone>>
job_vars == <<job, due, tries, lease>>
worker_vars == <<runs, at, dueSeen>>
outbox_vars == <<command, listed>>
vars == <<now, client_vars, report, job_vars, worker_vars, caller, outbox_vars, faults>>

ReportsTypeOK ==
  /\ now \in Start .. Horizon
  /\ active \in BOOLEAN /\ phone \in BOOLEAN
  /\ report \in [Dates -> {"none", "scheduled", "sent", "cancelled"}]
  /\ job \in [Dates -> {"none", "pending", "processing", "completed", "cancelled", "dead_lettered"}]
  /\ due \in [Dates -> Int] /\ tries \in [Dates -> Nat]
  /\ lease \in [Dates -> Workers \cup {Nobody}]
  /\ runs \in [Workers -> Dates \cup {0}] /\ dueSeen \in [Workers -> Int]
  /\ at \in [Workers -> {"idle", "claimed", "sending", "chaining", "completed", "retry"}]
  /\ caller \in Dates \cup {0}
  /\ command \in [Dates -> {"none", "pending", "delivered"}] /\ listed \in [Dates -> Nat]
  /\ faults \in 0 .. MaxFaults

Init ==
  /\ now = Start /\ active = TRUE /\ phone \in BOOLEAN
  /\ report = [d \in Dates |-> "none"] /\ command = [d \in Dates |-> "none"]
  /\ listed = [d \in Dates |-> 0]
  /\ job = [d \in Dates |-> "none"] /\ due = [d \in Dates |-> 0]
  /\ tries = [d \in Dates |-> 0] /\ lease = [d \in Dates |-> Nobody]
  /\ runs = [w \in Workers |-> 0] /\ at = [w \in Workers |-> "idle"] /\ dueSeen = [w \in Workers |-> 0]
  /\ caller = 0 /\ faults = 0

\* A worker's transaction holds the row of the report.
ReportLocked(d) == \E w \in Workers : at[w] \in {"sending", "chaining"} /\ runs[w] = d
ClientLocked == caller # 0 \/ \E w \in Workers : at[w] = "chaining"

Fails == faults < MaxFaults /\ faults' = faults + 1

-----------------------------------------------------------------------------
(* Scheduling and cancelling. *)

\* scheduleDailyReport: a report and its job, unless the date has one already, in
\* whatever status.
Schedule(d, t) ==
  IF report[d] = "none"
  THEN /\ report' = [report EXCEPT ![d] = "scheduled"]
       /\ job' = [job EXCEPT ![d] = "pending"]
       /\ due' = [due EXCEPT ![d] = t]
  ELSE UNCHANGED <<report, job, due>>

\* The caller locks the client; an inactive one is skipped.
Ask(d) ==
  /\ ~ClientLocked /\ active
  /\ caller' = d
  /\ UNCHANGED <<now, client_vars, report, job_vars, worker_vars, outbox_vars, faults>>

\* Due at the hour that is asked for.
Plan ==
  /\ caller # 0 /\ ~ReportLocked(caller)
  /\ Schedule(caller, Instant(Reading(caller, Hour)))
  /\ caller' = 0
  /\ UNCHANGED <<now, client_vars, tries, lease, worker_vars, outbox_vars, faults>>

\* Mistake: a report that was sent can be cancelled too.
CancelSent(d) ==
  /\ report[d] \in {"scheduled", "sent"} /\ ~ReportLocked(d)
  /\ report' = [report EXCEPT ![d] = "cancelled"]
  /\ job' = [job EXCEPT ![d] = IF @ = "completed" THEN @ ELSE "cancelled"]
  /\ UNCHANGED <<now, client_vars, due, tries, lease, worker_vars, caller, outbox_vars, faults>>

\* cancelDailyReport: the report that is still scheduled, and its job.  A worker that
\* has the job is not told.
CancelDailyReport(d) ==
  /\ report[d] = "scheduled" /\ ~ReportLocked(d)
  /\ report' = [report EXCEPT ![d] = "cancelled"]
  /\ job' = [job EXCEPT ![d] = IF @ = "completed" THEN @ ELSE "cancelled"]
  /\ UNCHANGED <<now, client_vars, due, tries, lease, worker_vars, caller, outbox_vars, faults>>

\* The client leaves.
Deactivate ==
  /\ ~ClientLocked /\ active
  /\ active' = FALSE
  /\ UNCHANGED <<now, phone, report, job_vars, worker_vars, caller, outbox_vars, faults>>

-----------------------------------------------------------------------------
(* The job. *)

\* JobRepository.claim: a job that is due, or one whose lease has lapsed.
Claim(w, d) ==
  /\ at[w] = "idle" /\ due[d] <= now
  /\ \/ job[d] = "pending" /\ UNCHANGED faults
     \/ job[d] = "processing" /\ IF runs[lease[d]] = d THEN Fails ELSE UNCHANGED faults
  /\ job' = [job EXCEPT ![d] = "processing"]
  /\ tries' = [tries EXCEPT ![d] = @ + 1]
  /\ lease' = [lease EXCEPT ![d] = w]
  /\ runs' = [runs EXCEPT ![w] = d]
  /\ at' = [at EXCEPT ![w] = "claimed"]
  /\ UNCHANGED <<now, client_vars, report, due, dueSeen, caller, outbox_vars>>

Comes(w, outcome) ==
  /\ at' = [at EXCEPT ![w] = outcome]
  /\ dueSeen' = [dueSeen EXCEPT ![w] = 0]

\* The report is locked: it is not to be sent any more,
NotScheduled(w) ==
  /\ at[w] = "claimed" /\ ~ReportLocked(runs[w])
  /\ report[runs[w]] # "scheduled"
  /\ Comes(w, "completed")
  /\ UNCHANGED <<now, client_vars, report, job_vars, runs, caller, outbox_vars, faults>>

\* cancelMissingDestination: or there is nobody to send it to, and the chain ends,
MissingDestination(w) ==
  /\ at[w] = "claimed" /\ ~ReportLocked(runs[w])
  /\ report[runs[w]] = "scheduled" /\ ~phone
  /\ report' = [report EXCEPT ![runs[w]] = "cancelled"]
  /\ Comes(w, "completed")
  /\ UNCHANGED <<now, client_vars, job_vars, runs, caller, outbox_vars, faults>>

\* or the summary is made and its command enqueued.
Summarise(w) ==
  /\ at[w] = "claimed" /\ ~ReportLocked(runs[w])
  /\ report[runs[w]] = "scheduled" /\ phone
  /\ at' = [at EXCEPT ![w] = "sending"]
  /\ dueSeen' = [dueSeen EXCEPT ![w] = due[runs[w]]]
  /\ UNCHANGED <<now, client_vars, report, job_vars, runs, caller, outbox_vars, faults>>

\* scheduleDailyReport has the client and waits for the report of the next date.
WaitForNext(w) ==
  /\ at[w] = "sending" /\ ~ClientLocked
  /\ active /\ runs[w] < Last /\ ReportLocked(runs[w] + 1)
  /\ at' = [at EXCEPT ![w] = "chaining"]
  /\ UNCHANGED <<now, client_vars, report, job_vars, runs, dueSeen, caller, outbox_vars, faults>>

HasClient(w) == at[w] = "chaining" \/ (at[w] = "sending" /\ ~ClientLocked)

\* Mistake: the next report waits for an operator.
SendAlone(w) ==
  LET d == runs[w]
  IN /\ HasClient(w)
     /\ report' = [report EXCEPT ![d] = "sent"]
     /\ command' = [command EXCEPT ![d] = "pending"]
     /\ Comes(w, "completed")
     /\ UNCHANGED <<now, client_vars, job_vars, runs, caller, listed, faults>>

\* The report is sent and the next one scheduled, in one transaction, once the client
\* and the next report are free.
SendAndChain(w) ==
  LET d == runs[w]
  IN /\ HasClient(w)
     /\ IF active /\ d < Last
        THEN /\ ~ReportLocked(d + 1)
             /\ IF report[d + 1] = "none"
                THEN /\ report' = [report EXCEPT ![d] = "sent", ![d + 1] = "scheduled"]
                     /\ job' = [job EXCEPT ![d + 1] = "pending"]
                     /\ due' = [due EXCEPT ![d + 1] = NextOccurrence(d, dueSeen[w])]
                ELSE /\ report' = [report EXCEPT ![d] = "sent"]
                     /\ UNCHANGED <<job, due>>
        ELSE /\ report' = [report EXCEPT ![d] = "sent"]
             /\ UNCHANGED <<job, due>>
     /\ command' = [command EXCEPT ![d] = "pending"]
     /\ Comes(w, "completed")
     /\ UNCHANGED <<now, client_vars, tries, lease, runs, caller, listed, faults>>

\* The transaction fails and leaves nothing,
Throws(w) ==
  /\ at[w] \in {"claimed", "sending", "chaining"} /\ Fails
  /\ Comes(w, "retry")
  /\ UNCHANGED <<now, client_vars, report, job_vars, runs, caller, outbox_vars>>

\* or waits for the client of one who waits for the report, an operator or the worker of
\* the date before: one of the two is aborted.
Chains(v, d) == at[v] = "chaining" /\ runs[v] + 1 = d
Cycle(w) ==
  /\ at[w] = "sending"
  /\ caller = runs[w] \/ \E v \in Workers : Chains(v, runs[w])

VictimWorker(w) ==
  /\ Cycle(w)
  /\ Comes(w, "retry")
  /\ UNCHANGED <<now, client_vars, report, job_vars, runs, caller, outbox_vars, faults>>

VictimCaller(w) ==
  /\ at[w] = "sending" /\ caller = runs[w]
  /\ caller' = 0
  /\ UNCHANGED <<now, client_vars, report, job_vars, worker_vars, outbox_vars, faults>>

VictimChain(v) ==
  /\ \E w \in Workers : at[w] = "sending" /\ Chains(v, runs[w])
  /\ Comes(v, "retry")
  /\ UNCHANGED <<now, client_vars, report, job_vars, runs, caller, outbox_vars, faults>>

Crash(w) ==
  /\ at[w] # "idle" /\ Fails
  /\ Comes(w, "idle") /\ runs' = [runs EXCEPT ![w] = 0]
  /\ UNCHANGED <<now, client_vars, report, job_vars, caller, outbox_vars>>

Fenced(w) == job[runs[w]] = "processing" /\ lease[runs[w]] = w

\* complete; retry, due after a delay; deadLetter.  Without the lease, nothing.
Settle(w) ==
  LET d == runs[w]
      ends == CASE at[w] = "completed" -> "completed"
                [] at[w] = "retry" /\ tries[d] >= MaxAttempts -> "dead_lettered"
                [] OTHER -> "pending"
  IN /\ at[w] \in {"completed", "retry"}
     /\ IF Fenced(w)
        THEN /\ job' = [job EXCEPT ![d] = ends]
             /\ due' = [due EXCEPT ![d] = IF ends = "pending" THEN now + RetryDelay ELSE @]
             /\ lease' = [lease EXCEPT ![d] = Nobody]
        ELSE UNCHANGED <<job, due, lease>>
     /\ Comes(w, "idle") /\ runs' = [runs EXCEPT ![w] = 0]
     /\ UNCHANGED <<now, client_vars, report, tries, caller, outbox_vars, faults>>

-----------------------------------------------------------------------------
(* The command. *)

Dispatched(d) ==
  /\ \/ command' = [command EXCEPT ![d] = "delivered"] /\ UNCHANGED faults
     \/ Fails /\ UNCHANGED command
  /\ UNCHANGED <<now, client_vars, report, job_vars, worker_vars, caller>>

\* Mistake: the command is not looked for among the notices.
DispatchAfresh(d) ==
  /\ command[d] = "pending"
  /\ listed' = [listed EXCEPT ![d] = @ + 1]
  /\ Dispatched(d)

\* The notice is written, once for each command; whether the outbox learns of it is
\* another matter.
Dispatch(d) ==
  /\ command[d] = "pending"
  /\ listed' = [listed EXCEPT ![d] = 1]
  /\ Dispatched(d)

Tick ==
  /\ now < Horizon
  /\ now' = now + 1
  /\ UNCHANGED <<client_vars, report, job_vars, worker_vars, caller, outbox_vars, faults>>

-----------------------------------------------------------------------------

WorkerStep(w) ==
  \/ \E d \in Dates : Claim(w, d)
  \/ NotScheduled(w) \/ MissingDestination(w) \/ Summarise(w) \/ WaitForNext(w) \/ SendAndChain(w)
  \/ Throws(w) \/ VictimWorker(w) \/ VictimCaller(w) \/ VictimChain(w) \/ Crash(w) \/ Settle(w)

DeskStep ==
  \/ Plan
  \/ \E d \in Dates : Ask(d) \/ CancelDailyReport(d)
  \/ Deactivate

Next ==
  \/ \E w \in Workers : WorkerStep(w)
  \/ DeskStep
  \/ \E d \in Dates : Dispatch(d)
  \/ Tick

Spec == Init /\ [][Next]_vars

\* The worker's loop goes on; PostgreSQL lets those that wait for a row have it in
\* turn, and breaks a cycle after deadlock_timeout.
Fairness ==
  /\ WF_vars(Tick) /\ WF_vars(Plan)
  /\ \A d \in Dates : WF_vars(Dispatch(d)) /\ WF_vars(\E w \in Workers : Claim(w, d))
  /\ \A w \in Workers :
       /\ SF_vars(NotScheduled(w) \/ MissingDestination(w) \/ Summarise(w) \/ WaitForNext(w) \/ SendAndChain(w))
       /\ WF_vars(VictimWorker(w) \/ VictimCaller(w) \/ VictimChain(w)) /\ WF_vars(Settle(w))

FairSpec == Spec /\ Fairness

-----------------------------------------------------------------------------

\* A report is announced once at most, and only one that was sent and stays so: not
\* after a cancellation, whatever order cancelDailyReport, the job, its repetition and
\* the dispatcher come in.
AnnouncedOnce ==
  \A d \in Dates : listed[d] <= 1 /\ (listed[d] > 0 => report[d] = "sent" /\ command[d] # "none")

\* The chain goes on while the client is active: a report that is scheduled is
\* cancelled, or its job given up, or it is announced with the next one scheduled (or
\* it is due when the model's clock has stopped).
ReportsGoOn ==
  \A d \in Dates : report[d] = "scheduled" ~>
    \/ report[d] = "cancelled" \/ job[d] = "dead_lettered" \/ due[d] > Horizon
    \/ listed[d] > 0 /\ (d = Last \/ report[d + 1] # "none" \/ ~active)

\* Whenever the slots for a visit are drawn up, they are in the future, in order, at
\* the client's hours by its own clock on days that are open, none that is excluded,
\* and none of the first days' hours is missing unless the list is full
\* (generateAppointmentSlots; the hours are ones that every day has).
SlotsRight ==
  [][now' # now =>
     \A slots \in {GenerateAppointmentSlots(now', AppointmentHours_, Taken)} :
       /\ \A i \in 1 .. Len(slots) :
            /\ slots[i] > now' /\ slots[i] \notin Taken
            /\ LocalHour(slots[i]) \in AppointmentHours_ /\ ~Blackout(LocalDate(slots[i]))
            /\ i > 1 => slots[i - 1] < slots[i]
       /\ Len(slots) = MaxSlots \/
          \A days \in {OfferedDays(now')} : \A i \in 1 .. Len(days), h \in AppointmentHours_ :
            \E t \in Taken \cup {slots[j] : j \in 1 .. Len(slots)} :
              LocalDate(t) = days[i] /\ LocalHour(t) = h]_vars

\* Where a report's job stands, for Leases.
JobState(d) ==
  CASE job[d] = "none" -> "new"
    [] job[d] \in {"pending", "processing"} -> "open"
    [] job[d] = "cancelled" -> "withdrawn"
    [] OTHER -> "over"

ReportLeases == INSTANCE Leases
  WITH Jobs <- Dates, Withdrawable <- Dates, Replayable <- {},
       state <- [d \in Dates |-> JobState(d)],
       attempt <- tries,
       has <- [w \in Workers |-> {d \in Dates : runs[w] = d}],
       holds <- [w \in Workers |-> {d \in Dates : runs[w] = d /\ Fenced(w)}]

\* A report's job is taken, held and finished as the queue promises, though its last
\* transaction schedules another job, and an operator cancels jobs that run.
KeepsLeases == ReportLeases!LeasesSpec
=============================================================================
