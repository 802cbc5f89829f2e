---------------------------- MODULE ServiceLevels ----------------------------
(***************************************************************************)
(* A qualified lead is routed to a salesperson, and timers watch that they  *)
(* acknowledge it: a reminder, an escalation to the manager, an escalation  *)
(* of a lead nobody owns, and the follow-up message to the lead.            *)
(*                                                                          *)
(* Four kinds of transaction meet on the lead's row: the turn of the        *)
(* conversation (which holds the conversation's row throughout), an         *)
(* operator's or a salesperson's request, and a worker that runs a timer's  *)
(* job.  Requests and turns lock the lead and then the rows of the timers;  *)
(* workers lock the timer's row and then the lead; takeovers hold the lead  *)
(* while they wait for the conversation and turns do the reverse.           *)
(* PostgreSQL breaks these cycles by aborting one of the two.               *)
(*                                                                          *)
(* A worker's statement reads assignment and takeover in the snapshot it    *)
(* began with, and lead and timer as they are when it has locked them.      *)
(***************************************************************************)
EXTENDS Integers, FiniteSets, Functions

CONSTANTS
  Leads, People,
  Workers,          \* processes that run jobs
  Nobody, NoJob,
  Kinds,            \* the timers looked at
  Requests,         \* the requests looked at
  Reachable,        \* those with a phone number to send to
  Capacity,         \* salespeople.capacity_limit
  Fit,              \* score of a salesperson for a lead, load left out
  Load,             \* bound: leads each of them has from elsewhere
  MaxAttempts,      \* runtime.scheduled_jobs.max_attempts
  MaxEvents,        \* bound: messages of leads, requests, forms that arrive again
  MaxFaults         \* bound: crashes, failed statements, leases that lapse, aborted turns

AllKinds == {"reminder", "escalation", "stale", "followup"}

AllRequests == {"ack", "close_lost", "close_other", "stop", "takeover", "release",
                "own_takeover", "own_stop", "own_lost"}

ASSUME ServiceAssumption ==
  /\ IsFiniteSet(Leads)
  /\ Requests \subseteq AllRequests
  /\ Kinds \subseteq AllKinds /\ Reachable \subseteq Kinds
  /\ Nobody \notin People \cup Workers
  /\ NoJob \notin Leads \X Kinds
  /\ Capacity \in [People -> Nat] /\ Load \in [People -> Nat]
  /\ Fit \in [Leads \X People -> Int]
  /\ MaxAttempts \in Nat \ {0} /\ MaxFaults \in Nat /\ MaxEvents \in Nat

VARIABLES
  status, stage,    \* leads.status, leads.current_stage
  stopped,          \* leads.stop_follow_up
  closed,           \* leads.closed_status
  takeover,         \* conversations.human_takeover, and whose doing it was
  asking,           \* the conversation still asks its questions
  owner, acked,     \* lead_assignments: the salesperson, acknowledged_at
  timer,            \* sla_jobs.status and followups.status, "none" before the row exists
  job,              \* scheduled_jobs.status of the timer's job
  tries,            \* its attempt_count
  lease,            \* the worker whose lease passes its fence
  turn,             \* how far the conversation's turn is; "idle" when there is none
  seen,             \* the loads that a routing turn counted
  request,          \* the operator's or salesperson's request that holds the lead's row
  runs, at,         \* the job a worker runs, and where it is in it
  saw,              \* the snapshot of assignment and takeover it runs with
  events, faults

lead_vars == <<status, stage, stopped, closed, asking, owner, acked>>
queue_vars == <<job, tries, lease>>
bounds == <<events, faults>>
worker_vars == <<runs, at, saw>>
service_vars == <<lead_vars, takeover, timer, queue_vars, turn, seen, request, worker_vars, bounds>>

Finished == {"completed", "cancelled", "dead_lettered"}

\* The snapshot of a worker that has none.
Unseen == [acked |-> FALSE, owned |-> FALSE, taken |-> FALSE]

ServiceTypeOK ==
  /\ status \in [Leads -> {"open", "qualified", "closed", "lost", "not_interested"}]
  /\ stage \in [Leads -> {"open", "qualified", "closed_lost", "stopped"}]
  /\ stopped \in [Leads -> BOOLEAN] /\ asking \in [Leads -> BOOLEAN] /\ acked \in [Leads -> BOOLEAN]
  /\ closed \in [Leads -> {"", "lost", "other"}]
  /\ takeover \in [Leads -> {"no", "desk", "bot"}]
  /\ owner \in [Leads -> People \cup {Nobody}]
  /\ timer \in [Leads -> [Kinds -> {"none", "scheduled", "sent", "cancelled"}]]
  /\ job \in [Leads -> [Kinds -> {"none", "pending", "processing"} \cup Finished]]
  /\ tries \in [Leads -> [Kinds -> Nat]]
  /\ lease \in [Leads -> [Kinds -> Workers \cup {Nobody}]]
  /\ turn \in [Leads -> {"idle", "talking", "qualifying", "counted", "leaving"}]
  /\ seen \in [Leads -> [People -> Nat]]
  /\ request \in [Leads -> Requests \cup {"none"}]
  /\ runs \in [Workers -> (Leads \X Kinds) \cup {NoJob}]
  /\ at \in [Workers -> {"idle", "look", "wait", "timer", "finish"}]
  /\ saw \in [Workers -> [acked : BOOLEAN, owned : BOOLEAN, taken : BOOLEAN]]
  /\ events \in 0 .. MaxEvents /\ faults \in 0 .. MaxFaults

Init ==
  /\ status = [l \in Leads |-> "open"] /\ stage = [l \in Leads |-> "open"]
  /\ stopped = [l \in Leads |-> FALSE] /\ closed = [l \in Leads |-> ""]
  /\ takeover = [l \in Leads |-> "no"] /\ asking = [l \in Leads |-> TRUE]
  /\ owner = [l \in Leads |-> Nobody] /\ acked = [l \in Leads |-> FALSE]
  /\ timer = [l \in Leads |-> [k \in Kinds |-> "none"]]
  /\ job = [l \in Leads |-> [k \in Kinds |-> "none"]]
  /\ tries = [l \in Leads |-> [k \in Kinds |-> 0]]
  /\ lease = [l \in Leads |-> [k \in Kinds |-> Nobody]]
  /\ turn = [l \in Leads |-> "idle"] /\ request = [l \in Leads |-> "none"]
  /\ seen = [l \in Leads |-> [p \in People |-> 0]]
  /\ runs = [w \in Workers |-> NoJob] /\ at = [w \in Workers |-> "idle"]
  /\ saw = [w \in Workers |-> Unseen]
  /\ events = 0 /\ faults = 0

-----------------------------------------------------------------------------
(* Rows and their locks. *)

\* A transaction other than a worker's holds the lead's row.
LeadLocked(l) == request[l] # "none" \/ turn[l] \in {"qualifying", "counted", "leaving"}

\* A worker holds the row of a timer.
TimerLocked(l, k) == \E w \in Workers : at[w] = "timer" /\ runs[w] = <<l, k>>

\* Updating the waiting timers of a lead waits for the workers that have locked them.
Cancellable(l, K) == \A k \in K \cap Kinds : timer[l][k] = "scheduled" => ~TimerLocked(l, k)

\* Mistake: the jobs of the lead are cancelled whatever their timers have come to.
CancelAllJobs(l, K) ==
  LET waiting == {k \in K \cap Kinds : timer[l][k] = "scheduled"}
      unfinished == {k \in K \cap Kinds : job[l][k] \notin {"none", "completed"}}
  IN /\ timer' = [timer EXCEPT ![l] = [k \in Kinds |-> IF k \in waiting THEN "cancelled" ELSE @[k]]]
     /\ job' = [job EXCEPT ![l] = [k \in Kinds |-> IF k \in unfinished THEN "cancelled" ELSE @[k]]]
     /\ UNCHANGED <<tries, lease>>

\* cancelForLead, cancelForAssignment: waiting timers, and those of their jobs
\* that are not completed.  A worker that has the job is not told.
CancelTimers(l, K) ==
  LET waiting == {k \in K \cap Kinds : timer[l][k] = "scheduled"}
  IN /\ timer' = [timer EXCEPT ![l] = [k \in Kinds |-> IF k \in waiting THEN "cancelled" ELSE @[k]]]
     /\ job' = [job EXCEPT ![l] = [k \in Kinds |->
          IF k \in waiting /\ @[k] # "completed" THEN "cancelled" ELSE @[k]]]
     /\ UNCHANGED <<tries, lease>>

\* scheduleJob, scheduleFollowup: a timer and its job, once for each semantic key,
\* while the timers in C are cancelled.
Arm(l, K, C) ==
  LET new == {k \in K \cap Kinds : timer[l][k] = "none"}
      waiting == {k \in C \cap Kinds : timer[l][k] = "scheduled"}
  IN /\ timer' = [timer EXCEPT ![l] = [k \in Kinds |->
          CASE k \in new -> "scheduled" [] k \in waiting -> "cancelled" [] OTHER -> @[k]]]
     /\ job' = [job EXCEPT ![l] = [k \in Kinds |->
          CASE k \in new -> "pending"
            [] k \in waiting /\ @[k] # "completed" -> "cancelled"
            [] OTHER -> @[k]]]
     /\ UNCHANGED <<tries, lease>>

-----------------------------------------------------------------------------
(* The turn of a conversation. *)

\* EdgeInboundMessageProcessor takes the conversation's row.
Converse(l) ==
  /\ turn[l] = "idle" /\ events < MaxEvents
  /\ turn' = [turn EXCEPT ![l] = "talking"]
  /\ events' = events + 1
  /\ UNCHANGED <<lead_vars, takeover, timer, queue_vars, seen, request, worker_vars, faults>>

\* A reply, or silence: the turn needs the lead's row for the messages it writes.
Reply(l) ==
  /\ turn[l] = "talking" /\ ~LeadLocked(l)
  /\ turn' = [turn EXCEPT ![l] = "idle"]
  /\ UNCHANGED <<lead_vars, takeover, timer, queue_vars, seen, request, worker_vars, bounds>>

\* The engine will not answer (suppressionReason in domain/engine.ts).
Suppressed(l) == stopped[l] \/ takeover[l] # "no" \/ status[l] \in {"lost", "not_interested"}

\* The engine does not understand and hands over to people.  Follow-ups stay.
Handoff(l) ==
  /\ turn[l] = "talking" /\ ~LeadLocked(l) /\ ~Suppressed(l)
  /\ takeover' = [takeover EXCEPT ![l] = "bot"]
  /\ asking' = [asking EXCEPT ![l] = TRUE]
  /\ turn' = [turn EXCEPT ![l] = "idle"]
  /\ UNCHANGED <<status, stage, stopped, closed, owner, acked, timer, queue_vars, seen, request, worker_vars, bounds>>

\* The last question is answered: the turn writes the lead.
Qualify(l) ==
  /\ turn[l] = "talking" /\ ~LeadLocked(l) /\ ~Suppressed(l) /\ asking[l]
  /\ turn' = [turn EXCEPT ![l] = "qualifying"]
  /\ UNCHANGED <<lead_vars, takeover, timer, queue_vars, seen, request, worker_vars, bounds>>

ActiveLoad(p) == Load[p] + Cardinality({l \in Leads : owner[l] = p})

\* routeLead: follow-ups are cancelled and the candidates' loads counted, in the
\* snapshot of a statement that then waits for the candidates' rows.
Count(l) ==
  /\ turn[l] = "qualifying"
  /\ Cancellable(l, {"followup"})
  /\ seen' = [seen EXCEPT ![l] = [p \in People |-> ActiveLoad(p)]]
  /\ turn' = [turn EXCEPT ![l] = "counted"]
  /\ UNCHANGED <<lead_vars, takeover, timer, queue_vars, request, worker_vars, bounds>>

Score(l, p) == Fit[<<l, p>>] - 10 * seen[l][p]
WithinCapacity(l) == {p \in People : seen[l][p] < Capacity[p]}
Preferred(l) ==
  IF WithinCapacity(l) # {}
  THEN {p \in WithinCapacity(l) : \A q \in WithinCapacity(l) : Score(l, q) <= Score(l, p)}
  ELSE {p \in People : \A q \in People : seen[l][p] <= seen[l][q]}

\* Routing is refused, and answered as if there were no salesperson.
Unroutable(l) == stopped[l] \/ closed[l] = "lost"

Qualified(l) ==
  /\ status' = [status EXCEPT ![l] = "qualified"]
  /\ stage' = [stage EXCEPT ![l] = "qualified"]
  /\ asking' = [asking EXCEPT ![l] = FALSE]
  /\ turn' = [turn EXCEPT ![l] = "idle"]
  /\ seen' = [seen EXCEPT ![l] = [p \in People |-> 0]]
  /\ UNCHANGED <<stopped, closed, takeover, acked, request, worker_vars, bounds>>

\* Mistake: only the reminder is scheduled.
AssignQuietly(l, p) ==
  /\ turn[l] = "counted" /\ owner[l] = Nobody /\ ~Unroutable(l)
  /\ p \in Preferred(l)
  /\ Cancellable(l, {"followup"})
  /\ owner' = [owner EXCEPT ![l] = p]
  /\ Arm(l, {"reminder"}, {"followup"})
  /\ Qualified(l)

\* scheduleForAssignment.
AssignmentTimers == {"reminder", "escalation"}

\* The lead is given to the best salesperson the turn saw, and the timers set.
Assign(l, p) ==
  /\ turn[l] = "counted" /\ owner[l] = Nobody /\ ~Unroutable(l)
  /\ p \in Preferred(l)
  /\ Cancellable(l, {"followup"})
  /\ owner' = [owner EXCEPT ![l] = p]
  /\ Arm(l, AssignmentTimers, {"followup"})
  /\ Qualified(l)

\* Nobody can take it: the manager is told, again an hour later.
NoSalesperson(l) ==
  /\ turn[l] = "counted" /\ owner[l] = Nobody
  /\ Unroutable(l) \/ Preferred(l) = {}
  /\ Arm(l, IF stopped[l] THEN {} ELSE {"stale"}, {"followup"})
  /\ Qualified(l)
  /\ UNCHANGED owner

\* It was given to somebody already.
AlreadyAssigned(l) ==
  /\ turn[l] = "counted" /\ owner[l] # Nobody
  /\ CancelTimers(l, {"followup"})
  /\ Qualified(l)
  /\ UNCHANGED owner

\* The lead writes that they want no more messages.
Leave(l) ==
  /\ turn[l] = "talking" /\ ~LeadLocked(l)
  /\ turn' = [turn EXCEPT ![l] = "leaving"]
  /\ UNCHANGED <<lead_vars, takeover, timer, queue_vars, seen, request, worker_vars, bounds>>

OptOut(l) ==
  /\ turn[l] = "leaving"
  /\ Cancellable(l, Kinds)
  /\ status' = [status EXCEPT ![l] = "not_interested"]
  /\ stage' = [stage EXCEPT ![l] = "stopped"]
  /\ stopped' = [stopped EXCEPT ![l] = TRUE]
  /\ turn' = [turn EXCEPT ![l] = "idle"]
  /\ CancelTimers(l, Kinds)
  /\ UNCHANGED <<closed, takeover, asking, owner, acked, seen, request, worker_vars, bounds>>

\* scheduleFollowup: assignment and takeover are read in a snapshot older than the
\* lead's row, so they do not keep the follow-up from being scheduled.
ScheduleFollowup(l) ==
  /\ ~LeadLocked(l)
  /\ ~stopped[l] /\ stage[l] = "open" /\ status[l] \in {"open", "closed"}
  /\ Arm(l, {"followup"}, {})
  /\ UNCHANGED <<lead_vars, takeover, turn, seen, request, worker_vars, bounds>>

\* The lead's form arrives again with a status of its own.
IntakeAgain(l) ==
  /\ ~LeadLocked(l) /\ events < MaxEvents
  /\ status' = [status EXCEPT ![l] = "open"]
  /\ stage' = [stage EXCEPT ![l] = "open"]
  /\ events' = events + 1
  /\ UNCHANGED <<stopped, closed, asking, owner, acked, takeover, timer, queue_vars, turn, seen, request, worker_vars, faults>>

-----------------------------------------------------------------------------
(* Requests of operators and salespeople. *)

\* The request locks the lead.  A salesperson's own go through their assignment.
Request(l, r) ==
  /\ ~LeadLocked(l) /\ events < MaxEvents
  /\ r \in {"ack", "own_takeover", "own_stop", "own_lost"} => owner[l] # Nobody
  /\ request' = [request EXCEPT ![l] = r]
  /\ events' = events + 1
  /\ UNCHANGED <<lead_vars, takeover, timer, queue_vars, turn, seen, worker_vars, faults>>

\* The timers a request cancels.
CancelledBy(r) ==
  CASE r = "ack" -> {"reminder", "escalation"}
    [] r \in {"stop", "takeover"} -> {"followup"}
    [] r = "release" -> {}
    [] OTHER -> AllKinds

\* Requests that write the conversation's row.
TouchesConversation == {"stop", "takeover", "release", "own_takeover", "own_stop", "own_lost"}

\* What the request writes to lead, assignment and conversation.
Answered(l, r) ==
  /\ acked' = IF r = "ack" THEN [acked EXCEPT ![l] = TRUE] ELSE acked
  /\ status' = CASE r \in {"close_lost", "close_other"} -> [status EXCEPT ![l] = "closed"]
                 [] r = "own_lost" -> [status EXCEPT ![l] = "lost"]
                 [] OTHER -> status
  /\ stage' = IF r = "own_lost" THEN [stage EXCEPT ![l] = "closed_lost"] ELSE stage
  /\ closed' = CASE r \in {"close_lost", "own_lost"} -> [closed EXCEPT ![l] = "lost"]
                 [] r = "close_other" -> [closed EXCEPT ![l] = "other"]
                 [] OTHER -> closed
  /\ stopped' = IF r \in {"stop", "own_stop", "own_lost"} THEN [stopped EXCEPT ![l] = TRUE] ELSE stopped
  /\ takeover' = CASE r \in {"takeover", "own_takeover"} -> [takeover EXCEPT ![l] = "desk"]
                   [] r = "release" -> [takeover EXCEPT ![l] = "no"]
                   [] OTHER -> takeover
  /\ asking' = IF r \in {"takeover", "own_takeover"} THEN [asking EXCEPT ![l] = TRUE] ELSE asking

\* Mistake: an acknowledgement relies on the job to notice.
CommitLeniently(l) ==
  LET r == request[l]
  IN /\ r # "none"
     /\ Cancellable(l, IF r = "ack" THEN {} ELSE CancelledBy(r))
     /\ r \in TouchesConversation => turn[l] = "idle"
     /\ Answered(l, r)
     /\ CancelTimers(l, IF r = "ack" THEN {} ELSE CancelledBy(r))
     /\ request' = [request EXCEPT ![l] = "none"]
     /\ UNCHANGED <<owner, turn, seen, worker_vars, bounds>>

\* The request commits, once the rows it writes are free.
Commit(l) ==
  LET r == request[l]
  IN /\ r # "none"
     /\ Cancellable(l, CancelledBy(r))
     /\ r \in TouchesConversation => turn[l] = "idle"
     /\ Answered(l, r)
     /\ CancelTimers(l, CancelledBy(r))
     /\ request' = [request EXCEPT ![l] = "none"]
     /\ UNCHANGED <<owner, turn, seen, worker_vars, bounds>>

-----------------------------------------------------------------------------
(* Workers. *)

\* JobRepository.claim.
Claim(w, l, k) ==
  /\ at[w] = "idle" /\ job[l][k] = "pending"
  /\ job' = [job EXCEPT ![l][k] = "processing"]
  /\ tries' = [tries EXCEPT ![l][k] = @ + 1]
  /\ lease' = [lease EXCEPT ![l][k] = w]
  /\ runs' = [runs EXCEPT ![w] = <<l, k>>]
  /\ at' = [at EXCEPT ![w] = "look"]
  /\ UNCHANGED <<lead_vars, takeover, timer, turn, seen, request, saw, bounds>>

\* The fence of the finalizers.
Fenced(w, l, k) == lease[l][k] = w /\ job[l][k] = "processing"

\* The lease of a worker that is gone expires: the job may be claimed as if it waited.
Expire(l, k) ==
  /\ job[l][k] = "processing" /\ \A v \in Workers : runs[v] # <<l, k>>
  /\ job' = [job EXCEPT ![l][k] = "pending"]
  /\ lease' = [lease EXCEPT ![l][k] = Nobody]
  /\ UNCHANGED <<lead_vars, takeover, timer, tries, turn, seen, request, worker_vars, bounds>>

\* It expires while its worker still runs the job.
Lapse(w) ==
  /\ faults < MaxFaults /\ at[w] # "idle"
  /\ Fenced(w, runs[w][1], runs[w][2])
  /\ job' = [job EXCEPT ![runs[w][1]][runs[w][2]] = "pending"]
  /\ lease' = [lease EXCEPT ![runs[w][1]][runs[w][2]] = Nobody]
  /\ faults' = faults + 1
  /\ UNCHANGED <<lead_vars, takeover, timer, tries, turn, seen, request, worker_vars, events>>

\* What the statement reads of rows it does not lock.
Snapshot(l) == [acked |-> acked[l], owned |-> owner[l] # Nobody, taken |-> takeover[l] # "no"]

\* The statement begins: its snapshot is that of this moment.
Look(w) ==
  LET l == runs[w][1]
  IN /\ at[w] = "look"
     /\ saw' = [saw EXCEPT ![w] = Snapshot(l)]
     /\ at' = [at EXCEPT ![w] = "wait"]
     /\ UNCHANGED <<lead_vars, takeover, timer, queue_vars, turn, seen, request, runs, bounds>>

\* It has locked the timer's row, and reads it anew.
LockTimer(w) ==
  /\ at[w] = "wait"
  /\ ~TimerLocked(runs[w][1], runs[w][2])
  /\ at' = [at EXCEPT ![w] = "timer"]
  /\ UNCHANGED <<lead_vars, takeover, timer, queue_vars, turn, seen, request, runs, saw, bounds>>

\* The reasons that every timer's job looks at.
GivenUp(l) == stopped[l] \/ status[l] \in {"lost", "not_interested"}

\* executionSkipReason: the assignment is that of the snapshot.
SkipAlarm(w, l, k) ==
  \/ GivenUp(l)
  \/ k = "stale" /\ status[l] # "qualified" /\ stage[l] # "qualified"
  \/ k # "stale" /\ (saw[w].acked \/ ~saw[w].owned)

\* FollowupJobProcessor.skipReason: takeover and assignments are those of the snapshot.
SkipFollowup(w, l) ==
  GivenUp(l) \/ saw[w].taken \/ saw[w].owned \/ status[l] = "qualified" \/ stage[l] # "open"

\* commandFor: there is a phone number to send to.
HasDestination(k) == k \in Reachable

\* What becomes of a waiting timer.
Verdict(w, l, k) ==
  IF k = "followup"
  THEN IF SkipFollowup(w, l) THEN "cancelled" ELSE "sent"
  ELSE IF SkipAlarm(w, l, k) \/ ~HasDestination(k) THEN "cancelled" ELSE "sent"

\* The worker gets the lead's row, decides and commits.
Decide(w) ==
  LET l == runs[w][1]
      k == runs[w][2]
  IN /\ at[w] = "timer" /\ ~LeadLocked(l)
     /\ at' = [at EXCEPT ![w] = "finish"]
     /\ timer' = IF timer[l][k] = "scheduled" THEN [timer EXCEPT ![l][k] = Verdict(w, l, k)] ELSE timer
     /\ saw' = [saw EXCEPT ![w] = Unseen]
     /\ UNCHANGED <<lead_vars, takeover, queue_vars, turn, seen, request, runs, bounds>>

\* The worker is done with the job.
Leaves(w) ==
  /\ runs' = [runs EXCEPT ![w] = NoJob]
  /\ at' = [at EXCEPT ![w] = "idle"]
  /\ saw' = [saw EXCEPT ![w] = Unseen]

\* JobRepository.complete, behind its fence.
Finish(w) ==
  LET l == runs[w][1]
      k == runs[w][2]
  IN /\ at[w] = "finish"
     /\ job' = IF Fenced(w, l, k) THEN [job EXCEPT ![l][k] = "completed"] ELSE job
     /\ Leaves(w)
     /\ UNCHANGED <<lead_vars, takeover, timer, tries, lease, turn, seen, request, bounds>>

\* Mistake: the inbox's word for a failed attempt, which jobs do not know.
RetryAsInbox(w) ==
  LET l == runs[w][1]
      k == runs[w][2]
  IN /\ job' = IF Fenced(w, l, k) THEN [job EXCEPT ![l][k] = "retryable_failed"] ELSE job
     /\ Leaves(w)
     /\ UNCHANGED <<lead_vars, takeover, timer, tries, lease, turn, seen, request>>

\* JobRepository.retry, behind the same fence.
Retry(w) ==
  LET l == runs[w][1]
      k == runs[w][2]
      after == IF tries[l][k] < MaxAttempts THEN "pending" ELSE "dead_lettered"
  IN /\ job' = IF Fenced(w, l, k) THEN [job EXCEPT ![l][k] = after] ELSE job
     /\ Leaves(w)
     /\ UNCHANGED <<lead_vars, takeover, timer, tries, lease, turn, seen, request>>

\* A statement fails, before or after the transaction committed.
Fail(w) ==
  /\ at[w] # "idle" /\ faults < MaxFaults
  /\ Retry(w)
  /\ faults' = faults + 1 /\ UNCHANGED events

Crash(w) ==
  /\ at[w] # "idle" /\ faults < MaxFaults
  /\ Leaves(w)
  /\ faults' = faults + 1
  /\ UNCHANGED <<events, lead_vars, takeover, timer, queue_vars, turn, seen, request>>

-----------------------------------------------------------------------------
(* PostgreSQL breaks a cycle of waiting transactions. *)

\* The timers that the holder of the lead's row is about to cancel.
Wanted(l) ==
  CASE request[l] # "none" -> CancelledBy(request[l])
    [] turn[l] = "leaving" -> AllKinds
    [] turn[l] \in {"qualifying", "counted"} -> {"followup"}
    [] OTHER -> {}

\* A worker has a timer and waits for the lead, whose holder waits for the timer.
WorkerInCycle(w) ==
  /\ at[w] = "timer"
  /\ LET l == runs[w][1]
         k == runs[w][2]
     IN k \in Wanted(l) /\ timer[l][k] = "scheduled"

\* A turn has the conversation and waits for the lead, a request the reverse.
TurnInCycle(l) == turn[l] = "talking" /\ request[l] \in TouchesConversation

\* The processor's catch block: everything the turn wrote is undone.
RollBack(l) ==
  /\ turn[l] # "idle"
  /\ turn' = [turn EXCEPT ![l] = "idle"]
  /\ seen' = [seen EXCEPT ![l] = [p \in People |-> 0]]
  /\ UNCHANGED <<lead_vars, takeover, timer, queue_vars, request, worker_vars>>

TurnFails(l) == faults < MaxFaults /\ RollBack(l) /\ faults' = faults + 1 /\ UNCHANGED events

Aborted(l) ==
  /\ request[l] # "none"
  /\ request' = [request EXCEPT ![l] = "none"]
  /\ UNCHANGED <<lead_vars, takeover, timer, queue_vars, turn, seen, worker_vars, bounds>>

\* Mistake: the conversation is locked where PostgreSQL does not see who waits.
VictimUnseen(l) ==
  \E w \in Workers :
    /\ WorkerInCycle(w) /\ runs[w][1] = l
    /\ \/ Retry(w) /\ UNCHANGED bounds
       \/ Aborted(l)
       \/ LeadLocked(l) /\ request[l] = "none" /\ RollBack(l) /\ UNCHANGED bounds

\* One transaction of the cycle is aborted.
Victim(l) ==
  \/ TurnInCycle(l) /\ (Aborted(l) \/ (RollBack(l) /\ UNCHANGED bounds))
  \/ \E w \in Workers :
       /\ WorkerInCycle(w) /\ runs[w][1] = l
       /\ \/ Retry(w) /\ UNCHANGED bounds
          \/ Aborted(l)
          \/ LeadLocked(l) /\ request[l] = "none" /\ RollBack(l) /\ UNCHANGED bounds

-----------------------------------------------------------------------------
TurnEnds(l) ==
  \/ Reply(l) \/ Handoff(l) \/ OptOut(l)
  \/ NoSalesperson(l) \/ AlreadyAssigned(l)
  \/ \E p \in People : Assign(l, p)

TurnStep(l) == TurnEnds(l) \/ Converse(l) \/ Qualify(l) \/ Count(l) \/ Leave(l) \/ TurnFails(l)

JobStep(w) == Look(w) \/ LockTimer(w) \/ Decide(w) \/ Finish(w)

WorkerStep(w) == JobStep(w) \/ \E l \in Leads, k \in Kinds : Claim(w, l, k)

Next ==
  \/ \E l \in Leads :
       \/ TurnStep(l) \/ Commit(l) \/ Victim(l)
       \/ ScheduleFollowup(l) \/ IntakeAgain(l)
       \/ \E r \in Requests : Request(l, r)
  \/ \E w \in Workers :
       \/ WorkerStep(w) \/ Fail(w) \/ Crash(w) \/ Lapse(w)
  \/ \E l \in Leads, k \in Kinds : Expire(l, k)

Spec == Init /\ [][Next]_service_vars

\* A transaction in progress goes on; one that waits for a row gets it in its turn
\* (PostgreSQL queues them), a cycle is broken, and workers go on claiming.
FairSpec ==
  /\ Spec
  /\ \A l \in Leads :
       /\ SF_service_vars(TurnEnds(l) \/ Count(l))
       /\ SF_service_vars(Commit(l)) /\ WF_service_vars(Victim(l))
  /\ \A w \in Workers :
       /\ SF_service_vars(JobStep(w))
       /\ WF_service_vars(\E l \in Leads, k \in Kinds : Claim(w, l, k))
  /\ \A l \in Leads, k \in Kinds : WF_service_vars(Expire(l, k))

-----------------------------------------------------------------------------
(* Properties. *)

\* The cause of a timer has gone.  A takeover by the bot itself is not among the
\* causes: its turn cancels no follow-up, so a worker may not have seen it.
Needless(l, k) ==
  CASE k = "stale" -> GivenUp(l) \/ (status[l] # "qualified" /\ stage[l] # "qualified")
    [] k = "followup" -> \/ GivenUp(l) \/ takeover[l] = "desk" \/ owner[l] # Nobody
                         \/ status[l] = "qualified" \/ stage[l] # "open"
    [] OTHER -> GivenUp(l) \/ acked[l] \/ owner[l] = Nobody

TimerAlarms == INSTANCE Alarms
  WITH alarm <- timer, needless <- [l \in Leads |-> [k \in Kinds |-> Needless(l, k)]]

\* No reminder, escalation or follow-up goes out twice, or in a state where its cause
\* has gone: not for an assignment that was acknowledged, not to a lead that was
\* stopped, lost, assigned or taken over at the desk, though the worker decides on a
\* snapshot (lead-action-service.ts, acknowledge: "the worker can never fire a
\* reminder for an assignment that was already acknowledged").
RingsForACause == TimerAlarms!AlarmsSpec

\* A waiting timer has a job that may still run, or lies among the dead letters; a
\* job that completed has dealt with its timer, and no job is cancelled behind a
\* timer that rang (SlaService.cancel, FollowupSchedulerService.cancelForLead).
TimersHaveJobs == \A l \in Leads, k \in Kinds :
  /\ timer[l][k] = "none" <=> job[l][k] = "none"
  /\ timer[l][k] = "scheduled" => job[l][k] \in {"pending", "processing", "dead_lettered"}
  /\ timer[l][k] = "sent" => job[l][k] # "cancelled"

\* A lead that was given to a salesperson does not stay unacknowledged in silence:
\* the escalation rings, somebody cancels it, or its job is a dead letter.
NobodyIgnored == \A l \in Leads :
  owner[l] # Nobody ~> acked[l] \/ timer[l]["escalation"] \in {"sent", "cancelled"}
                                \/ job[l]["escalation"] = "dead_lettered"

\* Again and again a lead is free of turns and requests, whatever rows turns,
\* requests and workers held and in whatever order they asked for them.
EverybodyMoves == \A l \in Leads : []<>(turn[l] = "idle" /\ request[l] = "none")

\* Where a timer's job stands, for Leases.
JobState(l, k) ==
  CASE job[l][k] = "none" -> "new"
    [] job[l][k] \in {"pending", "processing"} -> "open"
    [] job[l][k] = "cancelled" -> "withdrawn"
    [] OTHER -> "over"

TimerLeases == INSTANCE Leases
  WITH Jobs <- Leads \X Kinds, Withdrawable <- Leads \X Kinds, Replayable <- {},
       state <- [j \in Leads \X Kinds |-> JobState(j[1], j[2])],
       attempt <- [j \in Leads \X Kinds |-> tries[j[1]][j[2]]],
       has <- [w \in Workers |-> {j \in Leads \X Kinds : runs[w] = j}],
       holds <- [w \in Workers |-> {j \in Leads \X Kinds : runs[w] = j /\ Fenced(w, j[1], j[2])}]

\* The jobs of timers are taken, held and completed as the queue promises, though they
\* are scheduled and cancelled several at once by transactions that do not look at who
\* runs them (SlaService.cancel; runtime.ts:39-63).
KeepsLeases == TimerLeases!LeasesSpec
=============================================================================
