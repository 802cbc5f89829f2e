---------------------------- MODULE RuntimeQueue ----------------------------
(***************************************************************************)
(* The lease protocol by which the runtime worker drains the three durable *)
(* queues of the service: runtime.inbox_events, runtime.outbox_commands    *)
(* and runtime.scheduled_jobs.                                             *)
(*                                                                         *)
(* A worker process claims a batch of rows of one queue, runs the queue's  *)
(* handler on each and records the outcome with a finalizer whose UPDATE   *)
(* is fenced by the lease (worker name, attempt number).  Leases lapse     *)
(* while they are held, processes crash and come back under the same name, *)
(* statements fail before or after they commit, operators replay inbox     *)
(* events and jobs are cancelled under a worker's feet.                    *)
(*                                                                         *)
(* Time is abstracted to the two comparisons the code makes with now():    *)
(* due[r] for available_at / due_at and lapsed[r] for lock_expires_at.     *)
(***************************************************************************)
EXTENDS Integers, FiniteSets, Sequences

CONSTANTS
  Rows,            \* the rows the three tables may come to hold
  Table,           \* the table each row belongs to
  Workers,         \* worker processes
  Names,           \* worker names, as stored in locked_by / lock_owner
  NameOf,          \* WORKER_NAME, or kind-hostname-pid: two processes may share it
  NoName,          \* the empty locked_by
  BatchSize,       \* RuntimeWorkerOptions.batchSize
  MaxAttempts,     \* the rows' max_attempts
  MaxFaults        \* bound: crashes, failed statements, lapses under a live holder, replays

Tables == {"inbox", "outbox", "jobs"}

ASSUME QueueAssumption ==
  /\ Table \in [Rows -> Tables]
  /\ NameOf \in [Workers -> Names]
  /\ NoName \notin Names
  /\ BatchSize \in Nat \ {0}
  /\ MaxAttempts \in Nat \ {0}
  /\ MaxFaults \in Nat

VARIABLES
  status,          \* status / state column; "absent" before the row is inserted
  attempt_count,
  locked_by,       \* locked_by / lock_owner
  due,             \* available_at / due_at <= now()
  lapsed,          \* lock_expires_at <= now()
  attempts,        \* the attempt ledger: attempt_no -> worker, outcome
  dead_letters,    \* runtime.dead_letters rows written for each row
  phase,           \* the queue a worker's tick is at
  batch,           \* the leases of a worker's batch not dealt with yet
  pc,              \* where a worker's loop is
  current,         \* the lease being dealt with, when pc is not "poll" or "next"
  result,          \* what the handler returned, then what retry() decided
  caught,          \* the worker is in the catch branch
  faults           \* faults so far

row_vars == <<status, attempt_count, locked_by, due, lapsed, attempts, dead_letters>>
worker_vars == <<phase, batch, pc, current, result, caught>>
vars == <<row_vars, worker_vars, faults>>

Lease == [row : Rows, attempt : Nat]
Idle == [row |-> "none", attempt |-> 0]      \* no lease is being dealt with

\* What a handler of each queue can return, besides throwing.
HandlerOutcomes(t) ==
  CASE t = "inbox" -> {"processed", "ignored", "retryable", "dead_lettered"}
    [] t = "outbox" -> {"delivered", "retryable", "permanently_failed", "delivery_unknown"}
    [] t = "jobs" -> {"completed", "retryable", "dead_lettered"}

\* The statuses no claim leaves.
Settled(t) == (HandlerOutcomes(t) \ {"retryable"})
              \cup {"dead_lettered"}
              \cup (IF t = "jobs" THEN {"cancelled"} ELSE {})

\* The outcomes that also write runtime.dead_letters.
Buried == {"dead_lettered", "permanently_failed"}

Outcomes == UNION {HandlerOutcomes(t) : t \in Tables}
Statuses == {"absent", "pending", "processing", "cancelled"} \cup Outcomes

NextPhase(t) == CASE t = "inbox" -> "outbox" [] t = "outbox" -> "jobs" [] t = "jobs" -> "inbox"

-----------------------------------------------------------------------------

Init ==
  /\ status = [r \in Rows |-> "absent"]
  /\ attempt_count = [r \in Rows |-> 0]
  /\ locked_by = [r \in Rows |-> NoName]
  /\ due = [r \in Rows |-> FALSE]
  /\ lapsed = [r \in Rows |-> FALSE]
  /\ attempts = [r \in Rows |-> <<>>]
  /\ dead_letters = [r \in Rows |-> 0]
  /\ phase = [w \in Workers |-> "inbox"]
  /\ batch = [w \in Workers |-> {}]
  /\ pc = [w \in Workers |-> "poll"]
  /\ current = [w \in Workers |-> Idle]
  /\ result = [w \in Workers |-> "none"]
  /\ caught = [w \in Workers |-> FALSE]
  /\ faults = 0

\* receive, enqueue and schedule insert the row; only a job may be due later.
\* A second call with the same key changes nothing.
Insert(r) ==
  /\ status[r] = "absent"
  /\ status' = [status EXCEPT ![r] = "pending"]
  /\ due' = [due EXCEPT ![r] = Table[r] # "jobs"]
  /\ UNCHANGED <<attempt_count, locked_by, lapsed, attempts, dead_letters, worker_vars, faults>>

\* The row's available_at / due_at comes round.
BecomeDue(r) ==
  /\ status[r] \in {"pending", "retryable"}
  /\ ~due[r]
  /\ due' = [due EXCEPT ![r] = TRUE]
  /\ UNCHANGED <<status, attempt_count, locked_by, lapsed, attempts, dead_letters, worker_vars, faults>>

-----------------------------------------------------------------------------
(* The worker's loop. *)

\* Mistake: rows whose lease lapsed are not claimed again.
ClaimableWaiting(r) == status[r] \in {"pending", "retryable"} /\ due[r]

Claimable(r) ==
  \/ status[r] \in {"pending", "retryable"} /\ due[r]
  \/ status[r] = "processing" /\ lapsed[r]

ClaimableOf(t) == {r \in Rows : Table[r] = t /\ Claimable(r)}

\* attempt_no is unique per row and the insert says ON CONFLICT DO NOTHING.
OpenAttempt(ledger, no, name) ==
  IF no \in DOMAIN ledger THEN ledger ELSE Append(ledger, [worker |-> name, outcome |-> "claimed"])

\* claim(): SKIP LOCKED may leave any of the claimable rows to a concurrent claim.
Claim(w) ==
  /\ pc[w] = "poll"
  /\ \E S \in SUBSET ClaimableOf(phase[w]) :
       /\ S # {} /\ Cardinality(S) <= BatchSize
       /\ status' = [r \in Rows |-> IF r \in S THEN "processing" ELSE status[r]]
       /\ attempt_count' = [r \in Rows |-> IF r \in S THEN attempt_count[r] + 1 ELSE attempt_count[r]]
       /\ locked_by' = [r \in Rows |-> IF r \in S THEN NameOf[w] ELSE locked_by[r]]
       /\ lapsed' = [r \in Rows |-> IF r \in S THEN FALSE ELSE lapsed[r]]
       /\ attempts' = [r \in Rows |-> IF r \in S
                                      THEN OpenAttempt(attempts[r], attempt_count'[r], NameOf[w])
                                      ELSE attempts[r]]
       /\ batch' = [batch EXCEPT ![w] = {[row |-> r, attempt |-> attempt_count'[r]] : r \in S}]
  /\ pc' = [pc EXCEPT ![w] = "next"]
  /\ UNCHANGED <<due, dead_letters, phase, current, result, caught, faults>>

\* claim() returns no row: the tick goes on to the next queue.
EmptyClaim(w) ==
  /\ pc[w] = "poll"
  /\ ClaimableOf(phase[w]) = {}
  /\ phase' = [phase EXCEPT ![w] = NextPhase(@)]
  /\ UNCHANGED <<row_vars, batch, pc, current, result, caught, faults>>

\* The handler runs on the next row of the batch and returns, or throws.
Handle(w) ==
  /\ pc[w] = "next"
  /\ \E l \in batch[w] : \E o \in {"throws"} \cup HandlerOutcomes(Table[l.row]) :
       /\ current' = [current EXCEPT ![w] = l]
       /\ result' = [result EXCEPT ![w] = o]
       /\ pc' = [pc EXCEPT ![w] = IF o \in {"throws", "retryable"} THEN "read" ELSE "record"]
       /\ caught' = [caught EXCEPT ![w] = o = "throws"]
  /\ UNCHANGED <<row_vars, phase, batch, faults>>

\* Mistake: the fence without the attempt number.
HoldsByName(w, l) == status[l.row] = "processing" /\ locked_by[l.row] = NameOf[w]

\* Mistake: the fence without the status.
HoldsByAttempt(w, l) == locked_by[l.row] = NameOf[w] /\ attempt_count[l.row] = l.attempt

\* leaseFence: what a finalizer's WHERE clause checks.
Holds(w, l) ==
  /\ status[l.row] = "processing"
  /\ locked_by[l.row] = NameOf[w]
  /\ attempt_count[l.row] = l.attempt

\* Mistake: the attempt row is not updated with the outcome.
FinalizeRowOnly(w, l, s) ==
  IF Holds(w, l)
  THEN /\ status' = [status EXCEPT ![l.row] = s]
       /\ locked_by' = [locked_by EXCEPT ![l.row] = NoName]
       /\ UNCHANGED <<attempt_count, due, lapsed, attempts, dead_letters>>
  ELSE UNCHANGED row_vars

\* One fenced finalizer: complete, ignore, retry, deadLetter, markDelivered,
\* markRetryable, terminate, markDeliveryUnknown.
Finalize(w, l, s) ==
  IF Holds(w, l)
  THEN LET r == l.row IN
       /\ status' = [status EXCEPT ![r] = s]
       /\ locked_by' = [locked_by EXCEPT ![r] = NoName]
       /\ lapsed' = [lapsed EXCEPT ![r] = FALSE]
       /\ due' = [due EXCEPT ![r] = @ /\ s # "retryable"]
       /\ attempts' = [attempts EXCEPT ![r][attempt_count[r]].outcome = s]
       /\ dead_letters' = [dead_letters EXCEPT ![r] = @ + IF s \in Buried THEN 1 ELSE 0]
       /\ UNCHANGED attempt_count
  ELSE UNCHANGED row_vars

\* The loop goes on with the next row, or the tick with the next queue.
Proceed(w) ==
  /\ batch' = [batch EXCEPT ![w] = @ \ {current[w]}]
  /\ pc' = [pc EXCEPT ![w] = IF batch'[w] = {} THEN "poll" ELSE "next"]
  /\ phase' = [phase EXCEPT ![w] = IF batch'[w] = {} THEN NextPhase(@) ELSE @]
  /\ current' = [current EXCEPT ![w] = Idle]
  /\ result' = [result EXCEPT ![w] = "none"]
  /\ caught' = [caught EXCEPT ![w] = FALSE]

\* The tick is over: its error reaches runLoop, or the process is gone.  The
\* leases it still had are forgotten, not released.
Abandon(w) ==
  /\ batch' = [batch EXCEPT ![w] = {}]
  /\ pc' = [pc EXCEPT ![w] = "poll"]
  /\ phase' = [phase EXCEPT ![w] = "inbox"]
  /\ current' = [current EXCEPT ![w] = Idle]
  /\ result' = [result EXCEPT ![w] = "none"]
  /\ caught' = [caught EXCEPT ![w] = FALSE]

\* A result other than retryable is recorded in one statement.
Record(w) ==
  /\ pc[w] = "record"
  /\ Finalize(w, current[w], result[w])
  /\ Proceed(w)
  /\ UNCHANGED faults

\* Mistake: an attempt past max_attempts is granted.
ReadAttemptsLenient(w) ==
  /\ pc[w] = "read"
  /\ result' = [result EXCEPT ![w] =
                  IF attempt_count[current[w].row] > MaxAttempts THEN "dead_lettered" ELSE "retryable"]
  /\ pc' = [pc EXCEPT ![w] = "write"]
  /\ UNCHANGED <<row_vars, phase, batch, current, caught, faults>>

\* retry() first reads the counters, in a statement of its own ...
ReadAttempts(w) ==
  /\ pc[w] = "read"
  /\ result' = [result EXCEPT ![w] =
                  IF attempt_count[current[w].row] >= MaxAttempts THEN "dead_lettered" ELSE "retryable"]
  /\ pc' = [pc EXCEPT ![w] = "write"]
  /\ UNCHANGED <<row_vars, phase, batch, current, caught, faults>>

\* ... and then retries or dead-letters the row on the strength of that read.
WriteRetry(w) ==
  /\ pc[w] = "write"
  /\ Finalize(w, current[w], result[w])
  /\ Proceed(w)
  /\ UNCHANGED faults

\* A statement fails, before or after it took effect.  Inside the try block
\* the catch branch retries the row; in the catch branch the tick fails.
StatementFails(w) ==
  /\ pc[w] \in {"record", "read", "write"}
  /\ faults < MaxFaults
  /\ faults' = faults + 1
  /\ \/ UNCHANGED row_vars
     \/ pc[w] # "read" /\ Finalize(w, current[w], result[w])
  /\ IF caught[w]
     THEN Abandon(w)
     ELSE /\ caught' = [caught EXCEPT ![w] = TRUE]
          /\ pc' = [pc EXCEPT ![w] = "read"]
          /\ UNCHANGED <<phase, batch, current, result>>

\* The process dies and its supervisor starts it again, under the same name.
Crash(w) ==
  /\ faults < MaxFaults
  /\ faults' = faults + 1
  /\ Abandon(w)
  /\ UNCHANGED row_vars

-----------------------------------------------------------------------------
(* What else touches the rows. *)

\* Somebody still means to finalize the row under its present lease.
Attended(r) == \E w \in Workers : \E l \in batch[w] : l.row = r /\ Holds(w, l)

\* lock_expires_at passes; under a live holder that is a fault.
Lapse(r) ==
  /\ status[r] = "processing"
  /\ ~lapsed[r]
  /\ lapsed' = [lapsed EXCEPT ![r] = TRUE]
  /\ \/ ~Attended(r) /\ UNCHANGED faults
     \/ Attended(r) /\ faults < MaxFaults /\ faults' = faults + 1
  /\ UNCHANGED <<status, attempt_count, locked_by, due, attempts, dead_letters, worker_vars>>

\* Mistake: a replay starts the attempts over.
ReplayAfresh(r) ==
  /\ Table[r] = "inbox"
  /\ status[r] # "absent"
  /\ faults < MaxFaults
  /\ faults' = faults + 1
  /\ status' = [status EXCEPT ![r] = "pending"]
  /\ attempt_count' = [attempt_count EXCEPT ![r] = 0]
  /\ locked_by' = [locked_by EXCEPT ![r] = NoName]
  /\ lapsed' = [lapsed EXCEPT ![r] = FALSE]
  /\ due' = [due EXCEPT ![r] = TRUE]
  /\ UNCHANGED <<attempts, dead_letters, worker_vars>>

\* InboxRepository.replay: an operator puts the event back, whatever its status.
Replay(r) ==
  /\ Table[r] = "inbox"
  /\ status[r] # "absent"
  /\ faults < MaxFaults
  /\ faults' = faults + 1
  /\ status' = [status EXCEPT ![r] = "pending"]
  /\ locked_by' = [locked_by EXCEPT ![r] = NoName]
  /\ lapsed' = [lapsed EXCEPT ![r] = FALSE]
  /\ due' = [due EXCEPT ![r] = TRUE]
  /\ UNCHANGED <<attempt_count, attempts, dead_letters, worker_vars>>

\* JobRepository.cancel, and the same UPDATE in cancelForLead of follow-ups and
\* SLAs: the lock columns stay.
Cancel(r) ==
  /\ Table[r] = "jobs"
  /\ status[r] \notin {"absent", "completed", "cancelled"}
  /\ status' = [status EXCEPT ![r] = "cancelled"]
  /\ UNCHANGED <<attempt_count, locked_by, due, lapsed, attempts, dead_letters, worker_vars, faults>>

\* Mistake: the operator does not wait until the outcome is unknown.
ReconcileEarly(r) ==
  /\ Table[r] = "outbox"
  /\ status[r] \in {"processing", "delivery_unknown"}
  /\ \E s \in {"delivered", "permanently_failed"} :
       /\ status' = [status EXCEPT ![r] = s]
       /\ dead_letters' = [dead_letters EXCEPT ![r] = @ + IF s \in Buried THEN 1 ELSE 0]
  /\ locked_by' = [locked_by EXCEPT ![r] = NoName]
  /\ lapsed' = [lapsed EXCEPT ![r] = FALSE]
  /\ UNCHANGED <<attempt_count, due, attempts, worker_vars, faults>>

\* Mistake: a creation the operator calls failed leaves no dead letter.
ReconcileSilently(r) ==
  /\ Table[r] = "outbox"
  /\ status[r] = "delivery_unknown"
  /\ \E s \in {"delivered", "permanently_failed"} : status' = [status EXCEPT ![r] = s]
  /\ locked_by' = [locked_by EXCEPT ![r] = NoName]
  /\ lapsed' = [lapsed EXCEPT ![r] = FALSE]
  /\ UNCHANGED <<attempt_count, due, attempts, dead_letters, worker_vars, faults>>

\* confirmCreated and markCreateFailed: an operator who looked the calendar event
\* up says what became of the command.  The attempt keeps its outcome.
Reconcile(r) ==
  /\ Table[r] = "outbox"
  /\ status[r] = "delivery_unknown"
  /\ \E s \in {"delivered", "permanently_failed"} :
       /\ status' = [status EXCEPT ![r] = s]
       /\ dead_letters' = [dead_letters EXCEPT ![r] = @ + IF s \in Buried THEN 1 ELSE 0]
  /\ locked_by' = [locked_by EXCEPT ![r] = NoName]
  /\ lapsed' = [lapsed EXCEPT ![r] = FALSE]
  /\ UNCHANGED <<attempt_count, due, attempts, worker_vars, faults>>

WorkerStep(w) ==
  \/ Claim(w) \/ EmptyClaim(w) \/ Handle(w) \/ Record(w) \/ ReadAttempts(w) \/ WriteRetry(w)

Next ==
  \/ \E w \in Workers :
       \/ Claim(w)
       \/ EmptyClaim(w)
       \/ Handle(w)
       \/ Record(w)
       \/ ReadAttempts(w)
       \/ WriteRetry(w)
       \/ StatementFails(w)
       \/ Crash(w)
  \/ \E r \in Rows :
       \/ Insert(r)
       \/ BecomeDue(r)
       \/ Lapse(r)
       \/ Replay(r)
       \/ Cancel(r)
       \/ Reconcile(r)

Spec == Init /\ [][Next]_vars

\* A running worker keeps looping, time passes, and a lease that nobody attends
\* to lapses.  Nothing is assumed of crashes, failures, replays or cancellations.
FairSpec ==
  /\ Spec
  /\ \A w \in Workers : WF_vars(WorkerStep(w))
  /\ \A r \in Rows : WF_vars(BecomeDue(r)) /\ WF_vars(~Attended(r) /\ Lapse(r))

-----------------------------------------------------------------------------
(* Properties. *)

\* Every variable ranges over what its column or field can hold.
TypeOK ==
  /\ status \in [Rows -> Statuses]
  /\ attempt_count \in [Rows -> Nat]
  /\ locked_by \in [Rows -> Names \cup {NoName}]
  /\ due \in [Rows -> BOOLEAN]
  /\ lapsed \in [Rows -> BOOLEAN]
  /\ attempts \in [Rows -> Seq([worker : Names, outcome : Outcomes \cup {"claimed"}])]
  /\ dead_letters \in [Rows -> Nat]
  /\ phase \in [Workers -> Tables]
  /\ batch \in [Workers -> SUBSET Lease]
  /\ pc \in [Workers -> {"poll", "next", "record", "read", "write"}]
  /\ current \in [Workers -> Lease \cup {Idle}]
  /\ result \in [Workers -> Outcomes \cup {"none", "throws"}]
  /\ caught \in [Workers -> BOOLEAN]
  /\ faults \in Nat

\* At most one process can still finalize a row: however leases lapse, rows are
\* reclaimed and replayed, and even when two processes run under one WORKER_NAME,
\* a lease that passes leaseFence is the only one that does (runtime.ts:39-63).
ExclusiveLease ==
  \A v, w \in Workers : \A k \in batch[v], l \in batch[w] :
    k.row = l.row /\ Holds(v, k) /\ Holds(w, l) => v = w /\ k = l

\* An operator settled the command after its last attempt could not tell.
Reconciled(r) ==
  /\ Table[r] = "outbox"
  /\ status[r] \in {"delivered", "permanently_failed"}
  /\ attempts[r][attempt_count[r]].outcome = "delivery_unknown"

\* A row's status and its attempt ledger tell one story: the ledger has exactly
\* the attempts counted, the last of them is open while the row is processing and
\* says how the row left processing once it did, unless an operator replayed the
\* event or reconciled the command, or the job was cancelled meanwhile.
LedgerTellsStatus ==
  \A r \in Rows :
    /\ Len(attempts[r]) = attempt_count[r]
    /\ status[r] = "absent" => attempt_count[r] = 0
    /\ status[r] = "processing" => /\ attempt_count[r] > 0
                                   /\ attempts[r][attempt_count[r]].outcome = "claimed"
    /\ status[r] \in Outcomes => /\ attempt_count[r] > 0
                                 /\ \/ attempts[r][attempt_count[r]].outcome = status[r]
                                    \/ Reconciled(r)

\* retry() decides between another attempt and a dead letter on counters it read
\* in an earlier statement; whenever its write still passes the fence, a read at
\* that moment would decide the same (runtime.ts:242-270, 502-545, 739-777).
RetryDecisionCurrent ==
  \A w \in Workers :
    pc[w] = "write" /\ Holds(w, current[w]) =>
      (result[w] = "dead_lettered" <=> attempt_count[current[w].row] >= MaxAttempts)

BuriedAttempts(r) == {n \in DOMAIN attempts[r] : attempts[r][n].outcome \in Buried}

\* No attempt past max_attempts is ever followed by another one that retry()
\* granted, and no dead letter is written without the attempt, or the operator,
\* that gave the row up, or twice for one attempt.
RetriesWithinBudget ==
  \A r \in Rows :
    /\ \A n \in DOMAIN attempts[r] : attempts[r][n].outcome = "retryable" => n < MaxAttempts
    /\ dead_letters[r] = Cardinality(BuriedAttempts(r))
                         + IF status[r] = "permanently_failed" /\ Reconciled(r) THEN 1 ELSE 0

\* An attempt is finished at most once, whoever finishes it and however often the
\* statement is repeated after a lost acknowledgement; a settled row is left only
\* by an operator's replay (inbox) or reconciliation (outbox), or by a
\* cancellation (jobs).
HistoryIsFinal ==
  [][\A r \in Rows :
       /\ \A n \in DOMAIN attempts[r] :
            /\ n \in DOMAIN attempts'[r]
            /\ attempts[r][n].outcome # "claimed" => attempts'[r][n] = attempts[r][n]
       /\ status[r] \in Settled(Table[r]) /\ status'[r] # status[r] =>
            \/ Table[r] = "inbox" /\ status'[r] = "pending"
            \/ Table[r] = "outbox" /\ status[r] = "delivery_unknown" /\ status'[r] \in Settled("outbox")
            \/ Table[r] = "jobs" /\ status[r] # "completed" /\ status'[r] = "cancelled"]_vars

\* Every row inserted is settled in the end: crashes, lost acknowledgements and
\* forgotten leases delay it, and a handler that never stops asking for a retry is
\* cut off at max_attempts.
EventuallySettled ==
  \A r \in Rows : status[r] = "pending" ~> status[r] \in Settled(Table[r])

\* docs/plans/2026-10-04-backend-overhaul.md:12 says "retries are bounded and
\* dead-lettered": no row is given to a handler more than max_attempts times.
AttemptsBounded == \A r \in Rows : attempt_count[r] <= MaxAttempts

\* Where a row stands, for Leases.
RowState(r) ==
  CASE status[r] = "absent" -> "new"
    [] status[r] \in {"pending", "retryable", "processing"} -> "open"
    [] status[r] = "cancelled" -> "withdrawn"
    [] OTHER -> "over"

RowLeases == INSTANCE Leases
  WITH Jobs <- Rows,
       Withdrawable <- {r \in Rows : Table[r] = "jobs"},
       Replayable <- {r \in Rows : Table[r] = "inbox"},
       state <- [r \in Rows |-> RowState(r)],
       attempt <- attempt_count,
       has <- [w \in Workers |-> {l.row : l \in batch[w]}],
       holds <- [w \in Workers |-> {l.row : l \in {k \in batch[w] : Holds(w, k)}}]

\* Whatever lapses, fails or is replayed, and though workers take rows by the batch and
\* may share a name: of an open row only the worker that holds it says that it is over,
\* one at most holds it, and what is over is opened by a replay alone.  Leases is what
\* the other components know of the queue (runtime.ts:39-63).
KeepsLeases == RowLeases!LeasesSpec
=============================================================================
