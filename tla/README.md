# A specification of lead-conversion-core

The repository is the back end of a lead-conversion product: WhatsApp
conversations with guests and buyers, the tables and visits they book, the
salespeople they are routed to, and a durable queue through which everything that
leaves the service goes. These TLA+ modules model the parts of it whose correctness
depends on what runs at the same time and on what fails half way. TLC checks them on
small instances; TLAPS proves the safety of nine of them for every size, and that the
queues of four components keep the same promise as the queue that the code has.

Contents: [inventory](#inventory), [modules](#modules), [runs](#runs),
[fairness](#fairness), [proofs](#proofs), [where code and documents
disagree](#where-code-and-documents-disagree), [not
modelled](#what-is-not-modelled), [plan](#plan).

## Inventory

Back end, `src/src`: routes hand requests to services, services write PostgreSQL
in transactions, and a worker process (there may be several) drains three tables
of the `runtime` schema. Interaction is through the database: rows, row locks,
advisory locks, the three queues, and `LISTEN`/`NOTIFY` for the dashboard.

| component | state it keeps | operations | what is hard | what makes it correct |
|---|---|---|---|---|
| **Runtime queue** `infrastructure/runtime.ts` | `inbox_events`, `outbox_commands`, `scheduled_jobs`, attempts, `dead_letters` | receive/enqueue/schedule, claim, complete/retry/dead-letter, replay, cancel | leases that lapse while held, processes with one name, a finalizer that committed and reported failure | one lease at most writes a row; row, ledger and dead letters agree; every row settles |
| **Worker** `worker/runtime-worker.ts` | the batch of a tick | claim a batch, handle, finalize | dies anywhere; one lease covers a batch | as above |
| **Inbound turn** `services/edge-inbound-message-processor.ts`, `repositories/conversation-repository.ts`, `services/inbound-lead-capture-service.ts` | `edge_conversations`, `edge_lead_controls`, processed messages | one transaction per message | duplicates, an unknown number, a takeover, stop or form at the same moment, cycles of locks | one effect per message; silence after a takeover or an opt-out; everybody ends |
| **Engine** `domain/engine.ts`, `domain/industries/` | (pure) | stage, answer and next stage | the order of its checks | with the turn |
| **Operators** `services/dashboard/lead-action-service.ts`, `services/salesperson-command-processor.ts`, `routes/internal.ts` | the control of a number, the lead | take over, release, stop, close, acknowledge, reply | lock lead, control, conversation while turns go the other way | what an operator decides stands |
| **Intake and activation** `services/lead-intake-service.ts`, `conversation-activation-service.ts` | leads, contacts | a form, and the conversation it begins | the same number writes meanwhile | with the turn |
| **Appointments** `services/appointment-*.ts` | offers, `appointments` | offer, choose, withdraw | the choice commits apart from its turn | one visit per offer; the lead is told the truth |
| **Slots** `domain/appointment-slots.ts` | (pure) | readings of a clock to instants | hours that are skipped or repeated | agreement with a definition |
| **Table reservations** `services/reservation-service.ts`, `integrations/reservations/`, `services/dashboard/reservation-service.ts` | `reservations`, the lead's stage, the reminder job | book in a turn, cancel, confirm, door | two guests and the last table; the venue acts without the slot's lock | never oversold; reminder and table agree |
| **Reservation reminders** `services/reservation-reminder-service.ts` | `reminder_sent_at`, the job | schedule, cancel, process | read, send, mark and finish are four transactions | nobody forgotten |
| **Requests, delivery, calendar** `services/message-request-service.ts`, `worker/*-outbox-dispatcher.ts`, `integrations/`, `services/meta-status-webhook-service.ts`, `worker/calendar-reconciliation.ts` | `messages`, commands, status events | request, deliver, reconcile, report | answers lost or misleading; reports early, twice, out of order | accepted once but for a fault; what is confirmed exists; the furthest report stands |
| **Service levels, follow-ups, assignment** `services/sla-service.ts`, `followup-*.ts`, `lead-routing-service.ts` | `sla_jobs`, `followups`, `lead_assignments` | arm, cancel, run, route | judged on a snapshot older than the lock | rings once and for a cause; no assigned lead forgotten |
| **Reporting** `services/reporting-service.ts` | report rows, jobs | schedule, cancel, send and chain | cancel against send; cycles of locks | announced once; the chain goes on |
| **Notices** `worker/notification-outbox-dispatcher.ts`, `services/dashboard/stream-service.ts`, `dashboard/app/notifications.tsx`, `dashboard/src/query/client.ts` | notices, streams, the cached list of a page | insert, listen, reconnect, refresh, try again | events between a read and its display, while nothing listens; requests that fail | what is heard is shown |
| **Configuration, scoring, directory** `configuration/`, `services/lead-scoring-service.ts`, `services/dashboard/directory-service.ts` | versions, staff, sets of a project | publish, activate, score, hire, replace a set | edits while a turn scores and routes | whole sets; no lead for the absent; one version from the first question to the score |
| **Waitlist, sessions, lists, sites** | rows of their own | a transaction per request | little | |

`PROJECT.json` names the files of each, says how far each is modelled, and lists
under `hazards` the lines where the code can go wrong in a way a test would
hardly meet, with the properties that watch over them.

## Modules

Each module `M` that is checked has an instance for TLC, `MCM`. Its proofs are in
`MProofs`; those of Tables and ReservationReminders are in `ReservationsProofs`, those of
LocalTime in `ReportsProofs`.

```
RuntimeQueue * => Leases              the queue every worker below relies on
   |  and so do ReservationReminders, Delivery, ServiceLevels, Reports => Leases
Conversations *                       a number: turns, forms, operators
   |  ends where a lead is qualified
   +-- Appointments *  -- LocalTime   visits
   +-- Tables <= Reservations *       tables (Reservations implements Tables)
   |      +-- ReservationReminders *
   +-- Qualification *                versions, score, staff
   +-- ServiceLevels * => Alarms      timers (ServiceLevels implements Alarms)
Delivery *                            commands, providers, status reports
Reports *  -- LocalTime * ;  Notices  daily report, dashboard
                                      (* proved, => implements)
```

**RuntimeQueue.** The lease protocol: `Claim`, `Handle`, `Record` (a finalizer in one
statement, fenced by `Holds`), `ReadAttempts`/`WriteRetry` (the two statements of
`retry()`), `StatementFails` (before or after it commits), `Crash`, `Lapse`, and the
operator's `Replay`, `Cancel`, `Reconcile`. The names processes give themselves are a
constant, since nothing keeps two from sharing a `WORKER_NAME`.

**Leases.** What RuntimeQueue promises, without names, batches, ledgers and failing
statements: jobs are `new`, `open`, `over` or `withdrawn`; many workers may believe to
have a job, one at most holds it, and only the one that holds an open job says that it is
over. `Order` is everybody else (scheduling, cancelling, an operator's replay), after
which nobody holds the job, though whoever had it is not told; `Take` is a claim; `Leave`
a worker that finishes, dies or loses leases. Four components have a small queue of their
own, since with the whole of RuntimeQueue in each their states would be too many: who has
claimed last passes the fence. `KeepsLeases` of RuntimeQueue and of each of the four is
the refinement of Leases: the simple queues do nothing to a job that the abstraction of
the real one would not allow. It does not say the converse, that they do all that the
real one may. What they have of it: in all four a process may crash, a statement fail, and
a lease lapse under a live worker, so that another claims the job (in Reports the lapse is
part of `Claim`); jobs are cancelled while they run, but not commands. They leave out
shared names, batches and replays.

**Conversations.** One number and one client. A turn, a form and one operator's request
run as transactions that take the rows `number`, `contact`, leads, `control`,
`conversation` one at a time in the orders of the code (`Gets`, `Wanted`); a lock has a
mode, since a foreign key's share lock passes where an update waits. `Cycle` is a set of
transactions that wait for each other, of which `Victim` aborts one. A turn reads the
conversation when it has locked it (`Find`), captures an unknown number within its limit
(`RateLimited`, `NewWindow`, `Capture`, `Activate`), decides (`Decision`: the engine),
writes the projection that dashboards read (`Project`) and commits (`Answer`). A form
goes `Submit`, `WriteLead`, `LockNumber`, `Intake`, and merges into a conversation
(`Merged`). `Switch` is the internal interface's hold. There is one operator's request at
a time. `takenOver` is a history variable, which no guard reads: an operator's or the
interface's takeover has reached the conversation and nobody has released it since. A
takeover that missed the conversation being made is not one of these (`ControlIsInherited`
is about it), nor is a salesperson's, which leaves no control.

**Appointments.** A turn that holds the conversation (`Begin`), decides (`Decide`), books
on a second connection (`BookSlot`), then concludes or is rolled back (`TurnFails`,
`Victim`). Offers are sets of days, since the code finds an offer again by its starts.
`NextDay`, `CancelOffer` (a service operation that no route calls) and operators'
requests come in between. `Hung` is the cycle PostgreSQL cannot see.

**LocalTime.** `Instant` is the search the code makes for the instant of a reading;
`SlotsRight` (in Reports) compares the slots offered with their definition for every
date and hour; that the search is right is a theorem.

**Tables, Reservations.** Tables promises a table in one step, while there is room;
Reservations books as the code does: `Ask`, `Lock` (the advisory lock of zone, shift and
date), `Look`, then `Book`, `Replay`, `Refuse` or `FailTurn`. The venue's steps are
those of Tables in both.

**ReservationReminders.** `Claim`, `Read`, `Send`, `Mark`, `Finish` of the reminder's
job around the steps of Tables, with the window of the guest, the approval of the
template, failing statements and lapsing leases.

**Delivery.** A command is requested (`Enqueue`, with its policy; `Reply`, `CheckWindow`,
`SendText`, `SendTemplate` for the dashboard), claimed, and the provider asked: it
accepts and says so (`Succeed`), accepts and the answer is lost (`Lost`), rejects
(`Reject`), or answers what cannot be read (`Mislead`). `Record` writes what the worker
heard, behind its lease; `Reconcile` is the operator's. Each acceptance may be
reported, in any order and again (`Report`, `Apply`, `Bury`).

**ServiceLevels, Alarms.** Alarms is the promise: an alarm is armed once, rings at most
once, and only while its cause stands. ServiceLevels is the code: turns qualify and route
(`Count` reads the loads in a snapshot, `Assign` writes), requests wait for timers and
conversation (`Request`, `Commit`), workers read a snapshot, lock the timer, then the lead
(`Look`, `LockTimer`, `Decide`, `Finish`). `RingsForACause` is the refinement, with the
timers' states as mapping.

**Reports, Notices.** The transaction that sends a report schedules the next; the desk
schedules (`Ask`, `Plan`) and cancels; `Dispatch` makes the command a notice. A worker
that finds the next report held takes the client and waits (`WaitForNext`), so that it
may wait in a circle with the next date's worker, as a worker may with an operator.

**Notices.** The bus (`Connected`, `Disconnected`, `Reconnect`), the stream of a page and its
list. The list is a query of TanStack Query, whose code is not in the repository and is
modelled from its settings and documented behaviour: it is kept when the page is closed
(`ClosePage`) and restored when the app is loaded (`Reload`); a page that opens, or has
the focus again, reads it only when it is missing or stale (`FetchIfStale`). A request is
read (`ReadList`) and shown (`ShowList`) in two steps, or fails (`ReadFails`), is made
again at most twice (`AskAgain`), and ends in an error in the list's place (`GiveUp`) with
a button (`PressRetry`). An event or a mark invalidates the list (`Refetch`): a request
under way is dropped for a new one if there is a list already, and joined if there is none.

**Qualification.** Real-estate clients. Versions are published and activated while a
conversation keeps its own (`pinned`). It is of a number and asks one question at a time
(`asks`); `NextQuestion` is the one that follows in its version, or that of the timeline
after a payment plan other than installments (`Skips`). A form of the number gives the
conversation to another lead where it stands (`Reassign`): answers go on being kept by
the conversation (`said`) and from then on by a session of the new lead. The answer that no
question follows begins the routing statement (`Complete`), which locks the candidates one
by one (`Take`) and then scores and chooses (`Route`); `LockProject`, `InsertRow` and
`SetProjectSalespeople` replace a project's set. The questions of the language, the
greeting, and answers that are asked for again change none of this and are left out. A
hospitality client's session is completed without score or routing.

Naming: definitions keep the names of the code where it has one. A definition that
begins with the comment "Mistake:" is a variant with a bug that the specification does
not use: substituted for a definition it shows that a property notices the bug.

## Runs

| run | instance | shows |
|---|---|---|
| `queue_lease` | 2 inbox rows, 2 processes under **one** name, batches of 2, 2 attempts, 2 faults | `KeepsLeases`: the queue implements Leases; `ExclusiveLease`: one lease at most passes a row's fence; `LedgerTellsStatus`; `RetryDecisionCurrent`: the unlocked read in `retry()` decides as a read at the write would |
| `queue_live` | an outbox command and a job, processes with names of their own, 1 fault | `EventuallySettled`; `HistoryIsFinal`: finished attempts and settled rows stay |
| `tables` | 2 guests, a slot of 3 covers, 3 requests | `TypeOK`, `NeverOversold`, `RemindersFollowTables`, `ImplementsTables` |
| `reminders` | 1 table to be approved, 2 workers, 2 attempts, 1 fault | `KeepsLeases`, `NobodyForgotten`, `JobsSettle` |
| `conversations` | 2 messages, 1 form, 2 requests of five kinds, a limit of 1, 1 fault, one question | `EachMessageOnce`; `TakeoverHolds`; `SilentWhenSilenced`: no answer once a takeover or stop has committed; `OptedOutIsLeftAlone`; `EverybodyEnds` |
| `conversations_control` | the same, 1 request, no fairness | violation of `ControlIsInherited` (below) |
| `appointments` | 3 messages, 3 days, the first closed, 2 requests, 1 fault | `OneVisitPerOffer`, `ToldTheTruth`, `EveryMessageAnswered` |
| `delivery` | 1 message, 1 visit, 2 workers, reports `read` and one the code does not know, 2 attempts, 1 fault | `KeepsLeases`, `FurthestReportStands`, `ConfirmedExists`, `AcceptedOnce`, `EveryCommandSettles`, `EveryReportCounts` |
| `service_levels` | 1 lead, 2 people of whom the better is full, 1 worker, escalation, stale lead and follow-up, 4 requests, 2 attempts, 1 fault, 4 events | `TimersHaveJobs`, `RingsForACause`, `NobodyIgnored`, `EverybodyMoves` |
| `reports` | 2 dates, 2 workers, 2 attempts, 1 fault, days of 3 hours of which one is skipped | `AnnouncedOnce`, `ReportsGoOn`, `SlotsRight` |
| `notices` | 2 notices, 3 faults, 2 further attempts | `HeardIsShown`, `StreamsGetABus` |
| `qualification` | 1 number with forms of 2 leads, 3 people, 2 requests, 3 edits, a client sheet (permission, plan, timeline) against a default one (plan, down payment, timeline) | `WholeSets`, `NoLeadForTheAbsent`, `QualifiedAsPinned`, `LeadsAreRouted` |

The type invariants that no run names are proved instead (below), as is `KeepsLeases` of
Reports and of ServiceLevels: the runs check what needs checking most.

Why these bounds are enough for what they are to show:

- *Queue.* Two rows and two processes are what a conflict over a row needs while the
  other row is still in the batch. Two attempts give a retry granted and one refused;
  with two faults a lease lapses *and* a crash or a replay follows.
- *Tables, reminders.* Parties of two in three covers exclude each other while each fits
  alone; the third request, of a guest who has one, gives cancellations that leave a
  guest with or without a table. A second worker claims what the first has lost.
- *Conversations.* A turn, a form and a request are one transaction of each order of
  locks, so every kind of cycle occurs. Two messages give one that writes while another
  is handled, and one after an opt-out; two requests a takeover and its release; the
  limit of one makes the second message of an unknown number too much.
- *Appointments.* Three messages: ask, tap, tap again, with the turn of one rolled back
  while another is handled. Three days with windows of two and a closed one give offers
  that overlap, pass, and come back.
- *Delivery.* A message and a visit are the two kinds of command and share workers. Two
  statuses of different rank, the lowest of them, are what an order needs. One
  fault follows each step; a second would only raise the bound in `AcceptedOnce`, which
  the theorem has for any number.
- *Service levels.* One lead, since leads share only the loads, which decide no more
  than whom a lead goes to; one worker suffices for stale snapshots, because turns
  and requests are what make them stale; the reminder is left to the proof, since it
  differs from the escalation in its destination.
- *Reports.* Two dates are a link of the chain; the skipped hour makes the offset at the
  guess differ from that at the answer. Two workers hold one report each, which is a
  cycle over the chain.
- *Notices.* Two notices arrive around one read, with a list or without; three faults are a
  request that fails for good, or one that is refused, an error and a retry.
- *Qualification.* A turn and two requests cross on the same people in opposite orders; two
  turns at once, which lock in one order and so never wait in a circle, are left to the
  theorems. The second form comes before, between or after the answers; each of the two
  sheets passes over a question or has none to pass over, so that a turn that took the
  active version's order would leave one out.

`MaxFaults`, `MaxAttempts`, `MaxRequests`, `MaxForms`, `MaxEvents`, `MaxEdits`, `MaxBreaks`,
`MaxParty`, `MaxDay`, `Last`, `Horizon` and the sets are the only bounds; the theorems do
without values for them. Apart from the queue's, the runs switch the deadlock check
off: when every message is answered and every event has been used up, nothing is left to do.

## Fairness

- *Workers.* The loop ticks for ever and a failed tick is followed by the next
  (`runLoop`), so claiming and going on with a job are fair; a lease whose holder is gone
  expires. Crashes, lapses under a live holder, failing statements, replays,
  cancellations, people, providers' reports and time have no fairness: they may happen
  and never need to. In Reports the clock goes on to its horizon.
- *Locks.* PostgreSQL queues those who wait for a row, so a waiting transaction gets it
  although others come again and again: strong fairness for steps that take a lock.
- *Cycles.* PostgreSQL breaks each cycle it sees after `deadlock_timeout`: weak fairness
  of `Victim`. Whom it aborts is open.
- *The browser.* It goes on with what it has begun: answers arrive or fail, and a failed
  attempt is followed by the next. (TanStack Query puts it off while the window is hidden
  or offline, which is the same as a later attempt.) The user presses the button of the
  error a bounded number of times, as each press drops the request before.
- *Qualification.* That a last answer is routed speaks of turns that have begun; whether
  people go on answering is theirs.
- *Events.* An inbox event that failed is claimed again: weak or strong fairness of
  `Begin`. In these modules an event is not given up, as `max_attempts` exceeds the
  faults; the dead letters are the queue's.
- Tables and Reservations are checked for safety only.

## Proofs

The theorems hold for all sets of rows, workers, messages, guests, leads and requests
and all bounds. They assume what each module names after itself (`QueueAssumption`,
`TablesAssumption`, ...): sets that code keeps apart are disjoint, some are finite,
bounds are numbers, "nobody" is nobody.

| theorem | says |
|---|---|
| `RuntimeQueueProofs`: `TypeCorrectness`, `QueueKeepsLeases`, `FenceIsExclusive`, `LedgerIsFaithful`, `RetryReadIsSafe`, `HistoryStands` | the safety of `queue_lease`, `HistoryIsFinal`, and `RetriesWithinBudget` |
| `ReservationsProofs`: `TablesTyped`, `NoTableSoldTwice`, `RemindersFaithful`, `Implements` | the run `tables`; `Implements`: booking turns implement Tables |
| `ReservationsProofs`: `TablesNeverOversell`, `NoTableSoldWhileReminding` | `NeverOversold` of Tables alone, and of Tables with the reminders' workers, who change no status |
| `ReservationsProofs`: `RemindersTyped`, `RemindersKeepLeases`, `NobodyIsForgotten` | the safety of `reminders` |
| `DeliveryProofs`: `DeliveryTyped`, `OutboxKeepsLeases`, `ConfirmedIsThere`, `ReportsInAnyOrder`, `NothingTwice` | the safety of `delivery` |
| `AppointmentsProofs`: `AppointmentsTyped`, `OneVisitEach`, `TheTruthIsTold` | the safety of `appointments` |
| `ServiceLevelsProofs`: `ServiceTyped`, `TimersAndJobs`, `AlarmsAreKept`, `TimersKeepLeases` | `TimersHaveJobs`, and that ServiceLevels implements Alarms and, with the jobs of all its timers together, Leases |
| `ConversationsProofs`: `ConversationsTyped`, `OnceEach`, `TakeoversStand`, `SilenceIsKept`, `OptOutsStand` | the safety of `conversations` |
| `QualificationProofs`: `QualificationTyped`, `LeadsQualifiedAsPinned`, `StaffIsWhole`, `LeadsGoToTheActive` | the safety of `qualification` |
| `ReportsProofs`: `ReportsOnce`, `ReportsKeepLeases` | `AnnouncedOnce`, and that Reports implements Leases |
| `ReportsProofs`: `InstantShowsReading`, `SkippedHour`, `NextReportKeepsItsHour` | of LocalTime: five corrections find an instant that shows the reading if there is one, else one that is off by exactly the change; the next report comes at the hour of this one |

Each module also lists its inductive invariant as a theorem (`InductiveInvariant`,
`TablesInvariant`, `DeliveryInvariant`, ...). The arguments:

*The queue.* Why should a second lease on a row fail the fence when both processes have
one name? Because attempt numbers never come back: `LeasesInThePast` says that a lease's
number is at most the row's count, `LeasesDisjoint` that no two processes carry one
lease. `WorkerInTheMiddle` carries what a worker knows between two statements.

*Leases.* A worker holds what it believes to have and passes the fence for. That a claim
takes the job from whoever held it is the hard case where names are shared: the number of
the claim is new, so no older lease passes. `LeasesKept` adds that a worker which asks has
none, and that only jobs are cancelled. The four other queues need that an idle worker has
nothing and that a job is new exactly while what it is for does not exist (`JobsAreReports`,
`IdleHaveNoJob`). In ServiceLevels one transaction schedules or cancels several jobs, which
is why `Order` is about many at once.

*The tables.* `RoomIsThere` says that what a turn counted stays true until its commit:
no other turn is past the lock (`LocksHeld`, `OneTurnPerSlot`), and what the venue and
guests do without it gives covers back (`CoversShrink`). A booking adds at most its party
(`CoversOfBooking`, by an injection). Each step then maps to a step of Tables or to none.

*The reminders.* `EndsAreDue`: a job is completed only for a reason that has come to stay;
`JobsComeLate`: a table with a job was confirmed and cannot be so again.

*Delivery.* What a worker was told is what the provider did, and the record follows it.
For `AcceptedOnce`: the acceptances made and the chances still open (a command to be
claimed, a worker about to ask) never exceed the faults and one (`BudgetKept`), a sum of
cardinalities that each step keeps.

*Appointments.* A visit is of an offer the lead was shown (`VisitsWereChosen`), and what
the turn read of it still holds while it keeps the conversation (`TurnKnows`); the look
for the earlier attempt's visit takes no lock and needs none, as only a turn books.

*Service levels.* `SnapshotsHold`: what a worker saw before it waited may be stale, but
whoever made it so has cancelled the timer, which the worker has locked and read again. From
it each step is one of Alarms or none.

*Conversations.* No two transactions hold conflicting locks (`Exclusive`), so the
conversation a turn decided on is the one there is (`TurnKnows`) and so for a form
(`IntakeKnows`); an opt-out is on conversation, control and what a form is about to
merge (`OptOutIsKept`). So is a takeover once it has reached the conversation
(`TakeoverIsKept`): a form that is about to write over a conversation has its row, so the
takeover came before the form read the control, or comes after the form's commit.

*Reports.* Whoever is about to send holds the report's row and found it scheduled
(`SendersHold`); a command exists exactly for a report that was sent (`SentMeansCommand`).
The clocks play no part and are left out of the invariant.

*The clocks.* The theorems about instants assume that the offset changes once at most
within a day of the reading (`OneChange`), as those of time zones do, from any offset to
any other of a day at most. Every candidate is then the reading less one of the two
offsets; if one of these shows the reading, the search has found it after three corrections.

*Qualification.* A lead goes to somebody active because its turn has locked the rows it
chooses from (`LockedAreActive`), the choice is one of them (`RoutedIsLocked`), and a best
one exists in any finite set with an order that compares all of it. A project's set is one
request's because that request has the project and deleted every row when it got it
(`ProjectsAreLocked`). That a lead qualified has gone through its version needs more than
that the version is not edited (`ConversationsKeepTheirVersion`, `SessionsKeepTheirVersion`):
`AskedSoFar` says that every question before the one that is asked is answered, a
permission, or passed over by the plan that was answered; `AnswerCovers` is its step, over the place of the plan, of the timeline and of the question
that follows (`IndexIsFirst`). `AnswersAreKept` says that what the conversation was told is
in the session of some lead of its number, whichever it was about at the time. The
place of a question is the first it has in the version, in the code (`findIndex`) as in
`Index`; the theorem needs no more, so it holds for versions that name one twice or the
timeline before the plan.

Two notes on method. A score is a recursive function of a set of answers. That it is a
number is nevertheless proved, by induction over the sizes of the sets: the prover
cannot use induction for an operator, but can for a set of numbers (`Induction`, from
`LeastNumber` and the well-founded order of the numbers). And the arms of every CASE whose
value a proof needs exclude each other, as the prover may not assume that the first one
that holds is taken.

Only model-checked: all liveness (`EventuallySettled`, `JobsSettle`, `EverybodyEnds`,
`EveryMessageAnswered`, `EveryCommandSettles`, `EveryReportCounts`, `NobodyIgnored`,
`EverybodyMoves`, `ReportsGoOn`, `HeardIsShown`, `StreamsGetABus`, `LeadsAreRouted`), which
is beyond the prover; and `SlotsRight`, which filters and joins sequences with operators
(`SelectSeq`, `FlattenSeq`) that the prover cannot unfold. Of it, that each slot shows its
hour, `InstantShowsReading` has the heart.

## Where code and documents disagree

One disagreement has a run. `conversations_control`: `getOrCreate` reads
`edge_lead_controls` without a lock that a takeover waits for, and a takeover's update
cannot see a conversation that has not committed. When a number's first conversation and
a takeover overlap, both commit, and the engine goes on answering; the comment at
`lead-action-service.ts:502-503` says that the first message inherits the decision.

The others met so far are stated as properties of their modules that TLC refutes when
they are checked in the run named, or as hazards in `PROJECT.json`:

| module, property (run's instance) | code | document |
|---|---|---|
| RuntimeQueue `AttemptsBounded` (`queue_lease`) | `claim()` does not look at `max_attempts`: a row whose worker died is claimed again however often | `docs/plans/2026-10-04-backend-overhaul.md:12` retries are bounded |
| Reservations `ToldWhatHappened` (`tables`) | a key whose reservation was cancelled is answered "confirmed" (`kadensio-floor-plan.ts:32`) | `edge-inbound-message-processor.ts:489-491` told what really happened |
| ReservationReminders `SentOnce` (`reminders`) | the send key has a hash of the payload, which changes with the window | `migrations/031_reservation_reminders.sql:5-6` a retried job never sends twice |
| ReservationReminders `NothingForCancelled` (`reminders`) | the reservation is read, without a lock, before the send | `docs/owner-actions/08-hospitality-onboarding.md:12` nothing is sent for a cancelled table |
| Appointments `FreshSet` (`appointments`) | an expired offer is found again by its starts and sent again, though it cannot be booked | `appointment-conversation-service.ts:210-211` a fresh set is offered |
| Appointments `NoUnseenCycle` (`appointments`) | `bookSlot` waits for the lead on a second connection under the turn's lock; a takeover waits the other way, and PostgreSQL sees no cycle | `edge-inbound-message-processor.ts:452-456` orders them against it |

Seen while modelling, without a document that promises otherwise or a property of its
own:

- A calendar command whose worker died after the event was created finds the calendar
  busy with its own event and fails for good (`calendar-outbox-dispatcher.ts:39`).
- A form that gives a conversation to another lead half way leaves the first lead's
  session in progress for good and the new lead's without the earlier answers, though its
  score counts them (`edge-inbound-message-processor.ts:810-827`, `:883-890`); one that
  comes after qualification makes a lead that no session qualifies
  (`conversation-repository.ts:133`).
- A sheet without the timeline's question is completed by any plan but installments,
  whatever is still to be asked; one with the timeline before the plan asks again from
  there after such a plan, for as long as the answer stays (`industries/real-estate.ts:56-58`).
- A report's retry moves `due_at`, and with it the hour of all later reports.
- Notices raised while the bus reconnects, or before a stream is open, are not made up
  for until the page reads its list again. Nor is an event that comes while the list is
  read for the first time, after the read: TanStack Query joins it to the request under
  way, whose success makes the list fresh (`HeardIsShown` without its condition on `data`
  fails).
- Two leads routed at once may both count a salesperson's load before either is written,
  and exceed a capacity by one (`lead-routing-service.ts`).
- The limit for unknown numbers counts attempts: a turn that fails and comes again
  may find its own first attempt the one too many, and be ignored for good.
- A form of a number in a salesperson's takeover (which leaves no control) ends it;
  `TakeoverHolds` speaks of operators' takeovers that reached the conversation.
- An approval followed by a cancellation may reach the guest in the wrong order, and an
  operator's process that dies after its commit tells the guest nothing
  (`dashboard/reservation-service.ts:223`).
- `consumer-receipt-repository.ts:68` completes and fails a receipt whoever holds it.

## What is not modelled

- *In the queue:* payloads, hashes and collisions of keys, filters, the order of a claim,
  audit rows and heartbeats.
- *In the tables:* hosts and their notices, reservations the venue makes itself, capacity
  edited meanwhile. A cancellation is one step, though the update of the lead's stage may
  wait for its row and judge by an older snapshot (`dashboard/reservation-service.ts:243`, a
  hazard).
- *In conversations:* `/internal/conversations/bootstrap`, which writes a conversation as
  a whole, takeover included; the pipeline stage an operator sets, on which nothing
  branches; several operators' requests at once; several clients of one number, whose rows
  are distinct; recognising words in natural language.
- *In appointments:* several leads, which share no offer and meet in the calendar only.
- *In qualification:* hospitality clients, answers that cannot be read and are asked for
  again, and the other fields of projects (`createProject`, `updateProject`) and
  the compiler beyond the questions of a sheet. The dashboard's projects page writes a
  set as a whole from what it showed, so that the later of two operators wins: `WholeSets`
  says that the set is somebody's, not whose.
- *In notices:* the length of the list, pages open twice, and the storage of the app
  written a second late.
- *Elsewhere:* the dashboard's sessions, users, device tokens and lists, the waitlist,
  SQL that counts and lists, front ends but for the notices page, sites and scripts:
  queries, presentation, or one transaction each on rows nothing else decides on.

## Plan

1. An abstract dialogue (a number speaks, is answered, is taken over, opts out) that
   Conversations implements, its locks and cycles away, with what operators' takeovers and
   opt-outs promise stated there.
2. The venue's cancellation split at the lead's row (`dashboard/reservation-service.ts:243`),
   with the property that a lead with a table is not closed.
3. Several operators' requests at a time in Conversations, once its states allow it.
4. What Leases promises by itself, from its own invariant: that a job is held by one worker
   at most and is over at most once after each replay.
